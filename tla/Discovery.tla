------------------------------ MODULE Discovery ------------------------------
(***************************************************************************)
(* Relay discovery: the /discovery documents of the members are fetched,   *)
(* their descriptors verified and their URLs normalised (discovery.go,     *)
(* normalization.go), the candidates merged, and the usable ones adopted   *)
(* by the discovery goroutine of exposure.go, which takes the time once    *)
(* per refresh, while the clock, failing relays and Close go on.           *)
(*                                                                         *)
(* A URL is the record of its parts, with what normalisation looks at in   *)
(* each.  A descriptor's signature is abstracted to whether it is the one  *)
(* of the key that derives its address, over exactly its fields.           *)
(***************************************************************************)
EXTENDS Integers, Sequences, FiniteSets, FiniteSetsExt

CONSTANTS
    Hosts,           \* the host names that are DNS names or IPv4 addresses, as numbers; every
                     \* other number stands for a host that is refused (IPv6, not ASCII, ...)
    Inputs,          \* the sets of URLs a caller may give as ExposeConfig.Relays
    Documents,       \* the /discovery documents a relay may serve: records of a version and
                     \* a sequence of descriptors
    Caps,            \* the values of ExposeConfig.MaxActiveRelays
    MaxClock         \* bound: the last instant

ASSUME DiscoveryAssumption ==
    /\ Hosts \subseteq Nat /\ Caps \subseteq Nat \ {0} /\ MaxClock \in Nat \ {0}

Skew     == 1        \* a descriptor may be issued this far ahead (five minutes)
ZeroTime == 0        \* time.Time{}; the clock starts after it

----------------------------------------------------------------------------
(* normalization.go.                                                       *)

\* A port is a string of digits: leading zeros, and the number it denotes.
NoPort    == [zeros |-> 0, number |-> -1]
httpsPort == [zeros |-> 0, number |-> 443]
maxPort   == 65535

\* padded: surrounded by space; upper: the host is not in lower case; dots: how
\* many dots end the host; query: a query or a fragment.
Spellings == [padded : BOOLEAN, scheme : {"", "https", "HTTPS", "http"}, user : BOOLEAN,
              name : Nat, upper : BOOLEAN, dots : Nat,
              port : {NoPort} \cup [zeros : Nat, number : Nat],
              path : {"", "/", "/relay", "/other"}, query : BOOLEAN]

\* The string "https://" + authority.
origin(name, port) ==
    [padded |-> FALSE, scheme |-> "https", user |-> FALSE, name |-> name, upper |-> FALSE,
     dots |-> 0, port |-> port, path |-> "", query |-> FALSE]

NoURL == origin(-1, NoPort)    \* the error

\* Mutant: the port is checked, and returned as it was written.
normalizePortAsWritten(port) == port

\* strconv.ParseUint, then FormatUint: the leading zeros go.
normalizePort(port) == [zeros |-> 0, number |-> port.number]

\* Scheme, user, query, path, host and port are validated; case, one trailing dot,
\* the path, leading zeros and the default port go.
normalizeRelay(raw) ==
    LET port    == IF raw.port = NoPort THEN NoPort ELSE normalizePort(raw.port)
        refused == \/ raw.query \/ raw.user
                   \/ raw.scheme \notin {"", "https", "HTTPS"}
                   \/ raw.path \notin {"", "/", "/relay"}
                   \/ raw.name \notin Hosts \/ raw.dots > 1
                   \/ raw.port # NoPort /\ raw.port.number \notin 1..maxPort
    IN  IF refused THEN NoURL
        ELSE origin(raw.name, IF port = httpsPort THEN NoPort ELSE port)

\* newRelaySupervisor: where the supervisor of a relay URL dials to.
dialAddress(u) == <<u.name, IF u.port = NoPort THEN 443 ELSE u.port.number>>

\* Every input canonical, each origin once; one bad input is an error.
NormalizeRelays(inputs) == {normalizeRelay(raw) : raw \in inputs}

----------------------------------------------------------------------------
(* discovery.go: verification, and what one document contributes.          *)

verifyRelayDescriptor(d, now) ==
    /\ d.signed
    /\ d.expiresAt # ZeroTime /\ d.expiresAt > now
    /\ d.issuedAt # ZeroTime => d.issuedAt <= now + Skew

discoveryProtocolVersion == 9

\* fetch: of several verified descriptors for one URL the last one counts.  No
\* verified descriptor, or another version, is an error: nothing is contributed.
fetched(document, now) ==
    LET usable == {i \in DOMAIN document.relays :
                      /\ document.version = discoveryProtocolVersion
                      /\ verifyRelayDescriptor(document.relays[i], now)
                      /\ normalizeRelay(document.relays[i].url) # NoURL}
        urlOf(i) == normalizeRelay(document.relays[i].url)
    IN  [u \in {urlOf(i) : i \in usable} |->
            document.relays[Max({i \in usable : urlOf(i) = u})]]

\* What json.Unmarshal makes of a document: the fields are there, with any values.
Descriptors == [url : Spellings, issuedAt : Nat, expiresAt : Nat, supportsUDP : BOOLEAN, signed : BOOLEAN]

ASSUME InputAssumption ==
    /\ Inputs \subseteq SUBSET Spellings
    /\ \A document \in Documents : document.relays \in Seq(Descriptors)

----------------------------------------------------------------------------
VARIABLES
    udpEnabled, maxDiscovered,   \* ExposeConfig.UDPEnabled and MaxActiveRelays
    clock, ctxDone,       \* time.Now; has the exposure's context ended?
    members, failed,      \* the keys of e.statuses; e.rejectedRelays
    discoveredCount,
    relays, udpOnly,      \* discoveryCandidates: URL -> expiry, URL -> UDP backhaul
    dpc, now, seeds,      \* refreshDiscovery: position, its time, the members still to poll
    selected,             \* the candidates still to be added
    latest                \* history: URL -> the last descriptor taken from a document

config   == <<udpEnabled, maxDiscovered>>
candVars == <<relays, udpOnly, latest>>
goVars   == <<dpc, now, seeds, selected>>
memVars  == <<members, failed, discoveredCount>>
vars     == <<config, clock, ctxDone, memVars, candVars, goVars>>

Init ==
    /\ udpEnabled \in BOOLEAN /\ maxDiscovered \in Caps
    /\ clock = 1 /\ ctxDone = FALSE
    /\ \E inputs \in Inputs : members = NormalizeRelays(inputs)
    /\ NoURL \notin members
    /\ failed = {} /\ discoveredCount = 0
    /\ relays = <<>> /\ udpOnly = <<>> /\ latest = <<>>
    /\ dpc = "idle" /\ now = 0 /\ seeds = {} /\ selected = {}

\* The loops over sorted URLs take the first one, in this order of host and port.
rank(u)   == u.name * (maxPort + 1) + (IF u.port = NoPort THEN 0 ELSE u.port.number)
first(us) == CHOOSE u \in us : \A v \in us : rank(u) <= rank(v)

\* activeRelaysLocked: the members, the failed ones too.
active == members \cup failed

----------------------------------------------------------------------------
(* The discovery goroutine.                                                *)

\* refreshDiscovery, at the start, at a tick or after a kick.
refreshDiscovery ==
    /\ dpc = "idle" /\ ~ctxDone
    /\ seeds' = active
    /\ now' = clock
    /\ dpc' = "fetch"
    /\ UNCHANGED <<config, clock, ctxDone, memVars, candVars, selected>>

Without(f, us) == [u \in DOMAIN f \ us |-> f[u]]
lapsed(f)      == {u \in DOMAIN f : f[u] <= now}

\* Mutant: a UDP backhaul, once advertised, is remembered.
mergeKeepsUDP(entries) ==
    LET all == DOMAIN relays \cup DOMAIN entries
        exp == [u \in all |-> IF u \in DOMAIN entries THEN entries[u].expiresAt ELSE relays[u]]
        udp == [u \in all |-> (u \in DOMAIN entries /\ entries[u].supportsUDP)
                              \/ (u \in DOMAIN udpOnly /\ udpOnly[u])]
    IN  relays' = Without(exp, lapsed(exp)) /\ udpOnly' = Without(udp, lapsed(exp))

\* merge: new entries replace old ones, then lapsed ones are dropped.
merge(entries) ==
    LET all == DOMAIN relays \cup DOMAIN entries
        exp == [u \in all |-> IF u \in DOMAIN entries THEN entries[u].expiresAt ELSE relays[u]]
        udp == [u \in all |-> IF u \in DOMAIN entries THEN entries[u].supportsUDP ELSE udpOnly[u]]
    IN  relays' = Without(exp, lapsed(exp)) /\ udpOnly' = Without(udp, lapsed(exp))

\* One seed answers with a document that contributes something ...
fetchSeed ==
    /\ dpc = "fetch" /\ seeds # {} /\ ~ctxDone
    /\ \E entries \in {fetched(document, now) : document \in Documents} :
          /\ DOMAIN entries # {}
          /\ merge(entries)
          /\ latest' = [u \in DOMAIN latest \cup DOMAIN entries |->
                           IF u \in DOMAIN entries THEN entries[u] ELSE latest[u]]
    /\ seeds' = seeds \ {first(seeds)}
    /\ UNCHANGED <<config, clock, ctxDone, memVars, dpc, now, selected>>

\* Mutant: a seed that fails ends the refresh.
fetchFailsReturn ==
    /\ dpc = "fetch" /\ seeds # {} /\ ~ctxDone
    /\ seeds' = {} /\ dpc' = "idle"
    /\ UNCHANGED <<config, clock, ctxDone, memVars, candVars, now, selected>>

\* ... or fails, is not reachable, or contributes nothing.
fetchFails ==
    /\ dpc = "fetch" /\ seeds # {} /\ ~ctxDone
    /\ seeds' = seeds \ {first(seeds)}
    /\ UNCHANGED <<config, clock, ctxDone, memVars, candVars, dpc, now, selected>>

selectRelays ==
    {u \in DOMAIN relays : relays[u] > now /\ u \notin active /\ (udpEnabled => udpOnly[u])}

adoptDiscoveredRelays ==
    /\ dpc = "fetch" /\ seeds = {}
    /\ selected' = selectRelays
    /\ dpc' = "add"
    /\ UNCHANGED <<config, clock, ctxDone, memVars, candVars, now, seeds>>

\* Mutant: one relay more than the cap.
addRefusedLate(u) == u \in members \/ u \in failed \/ discoveredCount > maxDiscovered

AddRefused(u) == u \in members \/ u \in failed \/ discoveredCount >= maxDiscovered

addRelay ==
    /\ dpc = "add" /\ selected # {} /\ ~ctxDone
    /\ IF AddRefused(first(selected)) THEN UNCHANGED memVars
       ELSE /\ members' = members \cup {first(selected)}
            /\ discoveredCount' = discoveredCount + 1
            /\ UNCHANGED failed
    /\ selected' = selected \ {first(selected)}
    /\ UNCHANGED <<config, clock, ctxDone, candVars, dpc, now, seeds>>

\* The refresh is over (Exposure models its verdict on exhaustion), or the context
\* ended and runDiscovery returns.
refreshEnds ==
    /\ \/ dpc = "add" /\ selected = {} /\ ~ctxDone /\ dpc' = "idle"
       \/ dpc # "done" /\ ctxDone /\ dpc' = "done"
    /\ seeds' = {} /\ selected' = {}
    /\ UNCHANGED <<config, clock, ctxDone, memVars, candVars, now>>

----------------------------------------------------------------------------
(* The others.                                                             *)

tick ==
    /\ clock < MaxClock
    /\ clock' = clock + 1
    /\ UNCHANGED <<config, ctxDone, memVars, candVars, goVars>>

\* A member, explicit or adopted, fails terminally.
markFailed(u) ==
    /\ u \in members \ failed /\ ~ctxDone
    /\ failed' = failed \cup {u}
    /\ UNCHANGED <<config, clock, ctxDone, members, discoveredCount, candVars, goVars>>

close ==
    /\ ~ctxDone
    /\ ctxDone' = TRUE
    /\ UNCHANGED <<config, clock, memVars, candVars, goVars>>

discoveryStep == refreshDiscovery \/ fetchSeed \/ fetchFails \/ adoptDiscoveredRelays \/ addRelay \/ refreshEnds

Next == discoveryStep \/ tick \/ close \/ \E u \in members : markFailed(u)

\* The ticker fires again and again, and every request ends by its timeout.
Spec == Init /\ [][Next]_vars /\ WF_vars(discoveryStep)

----------------------------------------------------------------------------
(* Properties.                                                             *)

\* Types; the two maps of the candidates have the same keys.
TypeOK ==
    /\ udpEnabled \in BOOLEAN /\ maxDiscovered \in Caps /\ ctxDone \in BOOLEAN
    /\ clock \in 1..MaxClock /\ now \in 0..clock
    /\ failed \subseteq members /\ discoveredCount \in 0..maxDiscovered
    /\ DOMAIN relays = DOMAIN udpOnly
    /\ \A u \in DOMAIN relays : relays[u] \in Nat /\ udpOnly[u] \in BOOLEAN
    /\ dpc \in {"idle", "fetch", "add", "done"}
    /\ seeds \subseteq members

\* A relay is adopted only on the strength of one descriptor, the last one a
\* member served for its URL: signed by the key of its address, not expired when
\* the refresh began, and, if the exposure needs UDP, advertising it.  What other
\* members or earlier refreshes said of the relay is never blended into it.
AdoptionSound ==
    [][ \A u \in members' \ members :
          /\ u \in DOMAIN latest
          /\ latest[u].signed /\ latest[u].expiresAt > now
          /\ udpEnabled => latest[u].supportsUDP ]_vars

\* However callers and descriptors spell their URLs, no two supervisors dial the
\* same relay: with one identity they would fight over one lease.
OneSupervisorPerRelay ==
    \A u, v \in members : dialAddress(u) = dialAddress(v) => u = v

\* The URLs that documents advertise.
Advertised == UNION {{normalizeRelay(document.relays[i].url) : i \in DOMAIN document.relays} :
                        document \in Documents} \ {NoURL}

\* A usable candidate is adopted or stops being usable, whatever the polled
\* members answer and however many of them fail for ever.
CandidateSettled ==
    \A u \in Advertised :
        u \in selectRelays ~> (u \notin selectRelays \/ discoveredCount = maxDiscovered \/ ctxDone)
=============================================================================
