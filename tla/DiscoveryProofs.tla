--------------------------- MODULE DiscoveryProofs ---------------------------
(***************************************************************************)
(* Proofs about relay discovery, for every set of relays, every document   *)
(* a member may serve and every cap: a relay is adopted only on the        *)
(* strength of one verified descriptor, and is supervised once however it  *)
(* is spelled.                                                             *)
(***************************************************************************)
EXTENDS Discovery, WellFoundedInduction, TLAPS

----------------------------------------------------------------------------
(* Least and greatest elements.                                            *)

LEMMA LeastNatural ==
    ASSUME NEW T, T \subseteq Nat, T # {}
    PROVE  \E x \in T : \A y \in T : x <= y
<1> DEFINE Less == {ss \in Nat \X Nat : ss[1] < ss[2]}
<1>1. IsWellFoundedOn(Less, Nat)
  BY NatLessThanWellFounded, Zenon DEF OpToRel
<1>2. PICK x \in T : \A y \in T : ~(<<y, x>> \in Less)
  <2> HIDE DEF Less
  <2> QED
    BY <1>1, WFMin
<1>3. ASSUME NEW y \in T PROVE x <= y
  <2>1. x \in Nat /\ y \in Nat /\ <<y, x>> \in Nat \X Nat
    BY <1>3
  <2>2. ASSUME y < x PROVE <<y, x>> \in Less
    BY <2>1, <2>2
  <2> QED
    BY <1>2, <2>1, <2>2
<1> QED
  BY <1>2, <1>3

\* The loops over sorted URLs take a member of the set they loop over.
LEMMA FirstIsIn ==
    ASSUME NEW us, us # {}, \A u \in us : rank(u) \in Nat
    PROVE  first(us) \in us
<1> DEFINE T == {rank(u) : u \in us}
<1>1. PICK x \in T : \A y \in T : x <= y
  BY LeastNatural
<1>2. PICK u \in us : rank(u) = x
  BY <1>1
<1>3. \A v \in us : rank(u) <= rank(v)
  BY <1>1, <1>2
<1> QED
  BY <1>2, <1>3 DEF first

\* Of several indices of a sequence, Max is one.
LEMMA MaxIsIn ==
    ASSUME NEW n \in Nat, NEW S, S \subseteq 1..n, S # {}
    PROVE  Max(S) \in S
<1> DEFINE T == {n - i : i \in S}
<1>1. T \subseteq Nat /\ T # {}
  <2>1. \A i \in S : n - i \in Nat
    OBVIOUS
  <2> QED
    BY <2>1
<1>2. PICK x \in T : \A y \in T : x <= y
  BY <1>1, LeastNatural
<1>3. PICK i \in S : n - i = x
  BY <1>2
<1>4. ASSUME NEW j \in S PROVE i >= j
  <2>1. n - j \in T /\ i \in 1..n /\ j \in 1..n
    BY <1>3, <1>4
  <2>2. n - i <= n - j
    BY <1>2, <1>3, <2>1
  <2> QED
    BY <2>1, <2>2
<1> QED
  BY <1>3, <1>4 DEF Max

----------------------------------------------------------------------------
(* The inductive invariant.                                                *)

\* What normalizeRelay returns, other than an error.
Canonical == {normalizeRelay(raw) : raw \in Spellings} \ {NoURL}

ClockInv ==
    /\ udpEnabled \in BOOLEAN /\ maxDiscovered \in Caps /\ ctxDone \in BOOLEAN
    /\ clock \in 1..MaxClock /\ now \in 0..clock
    /\ dpc \in {"idle", "fetch", "add", "done"}

\* Members and seeds are canonical URLs, and the cap is respected.
MembersInv ==
    /\ members \subseteq Canonical /\ failed \subseteq members /\ seeds \subseteq members
    /\ discoveredCount \in 0..maxDiscovered

\* Both maps of a candidate come from the one descriptor that was taken last.
CandidatesInv ==
    /\ DOMAIN relays \subseteq Canonical /\ DOMAIN udpOnly = DOMAIN relays /\ DOMAIN relays \subseteq DOMAIN latest
    /\ \A u \in DOMAIN relays :
          /\ latest[u] \in Descriptors /\ latest[u].signed
          /\ relays[u] = latest[u].expiresAt /\ udpOnly[u] = latest[u].supportsUDP

\* What is selected stays backed by its descriptor until it is added: nothing
\* is fetched, and the refresh keeps its time.
SelectionInv ==
    /\ dpc # "add" => selected = {}
    /\ selected \subseteq Canonical /\ selected \subseteq DOMAIN latest
    /\ \A u \in selected :
          /\ latest[u].signed /\ latest[u].expiresAt > now
          /\ udpEnabled => latest[u].supportsUDP

DiscoveryInv == ClockInv /\ MembersInv /\ CandidatesInv /\ SelectionInv

----------------------------------------------------------------------------
(* Operators.                                                              *)

\* The ports of a canonical URL: not the default one, and without leading zeros.
CanonicalPort(p) ==
    p # NoPort => p = [zeros |-> 0, number |-> p.number] /\ p.number \in 1..maxPort /\ p.number # 443

LEMMA CanonicalForm ==
    ASSUME NEW u \in Canonical
    PROVE  u.name \in Nat /\ CanonicalPort(u.port) /\ u = origin(u.name, u.port)
<1>1. PICK raw \in Spellings : u = normalizeRelay(raw) /\ u # NoURL
  BY DEF Canonical
<1> DEFINE port == IF raw.port = NoPort THEN NoPort ELSE normalizePort(raw.port)
           p    == IF port = httpsPort THEN NoPort ELSE port
<1>2. /\ raw.name \in Hosts /\ u = origin(raw.name, p)
      /\ raw.port # NoPort => raw.port.number \in 1..maxPort
  BY <1>1, Zenon DEF normalizeRelay
<1>3. raw.name \in Nat
  BY <1>2, DiscoveryAssumption
<1>4. CanonicalPort(p)
  <2>1. CASE port = NoPort \/ port = httpsPort
    BY <2>1 DEF CanonicalPort
  <2>2. CASE port # NoPort /\ port # httpsPort
    <3>1. port = [zeros |-> 0, number |-> raw.port.number] /\ raw.port.number \in 1..maxPort
      BY <1>2, <2>2 DEF normalizePort
    <3>2. raw.port.number # 443
      BY <2>2, <3>1 DEF httpsPort
    <3> QED
      BY <2>2, <3>1, <3>2 DEF CanonicalPort
  <2> QED
    BY <2>1, <2>2
<1> HIDE DEF p
<1>5. u.name = raw.name /\ u.port = p
  BY <1>2 DEF origin
<1> QED
  BY <1>2, <1>3, <1>4, <1>5

LEMMA CanonicalRank ==
    ASSUME NEW u \in Canonical
    PROVE  rank(u) \in Nat
<1>1. u.name \in Nat /\ CanonicalPort(u.port)
  BY CanonicalForm
<1>2. maxPort \in Nat
  BY DEF maxPort
<1>3. /\ u.port # NoPort => u.port.number \in Nat
      /\ u.name * (maxPort + 1) \in Nat
  BY <1>1, <1>2 DEF CanonicalPort
<1> QED
  BY <1>2, <1>3 DEF rank

\* Two canonical URLs that dial the same address are one string.
LEMMA CanonicalUnique ==
    ASSUME NEW u \in Canonical, NEW v \in Canonical, dialAddress(u) = dialAddress(v)
    PROVE  u = v
<1>1. /\ CanonicalPort(u.port) /\ u = origin(u.name, u.port)
      /\ CanonicalPort(v.port) /\ v = origin(v.name, v.port)
  BY CanonicalForm
<1>2. /\ u.name = v.name
      /\ (IF u.port = NoPort THEN 443 ELSE u.port.number) = (IF v.port = NoPort THEN 443 ELSE v.port.number)
  BY DEF dialAddress
<1>3. u.port = v.port
  BY <1>1, <1>2 DEF CanonicalPort
<1> QED
  BY <1>1, <1>2, <1>3, Zenon

\* fetch contributes, under canonical URLs, descriptors whose signature it has
\* checked.
LEMMA FetchedVerified ==
    ASSUME NEW document \in Documents, NEW t, NEW u \in DOMAIN fetched(document, t)
    PROVE  u \in Canonical /\ fetched(document, t)[u] \in Descriptors /\ fetched(document, t)[u].signed
<1> DEFINE urlOf(i) == normalizeRelay(document.relays[i].url)
           usable   == {i \in DOMAIN document.relays :
                           /\ document.version = discoveryProtocolVersion
                           /\ verifyRelayDescriptor(document.relays[i], t)
                           /\ urlOf(i) # NoURL}
           S        == {i \in usable : urlOf(i) = u}
<1>1. fetched(document, t) = [v \in {urlOf(i) : i \in usable} |->
                                 document.relays[Max({i \in usable : urlOf(i) = v})]]
  BY DEF fetched
<1>2. u \in {urlOf(i) : i \in usable}
  BY <1>1
<1>3. fetched(document, t)[u] = document.relays[Max(S)]
  BY <1>1, <1>2
<1>4. document.relays \in Seq(Descriptors)
  BY InputAssumption
<1>5. S \subseteq 1..Len(document.relays) /\ S # {} /\ Len(document.relays) \in Nat
  BY <1>2, <1>4
<1>6. Max(S) \in S
  BY <1>5, MaxIsIn
<1>7. /\ Max(S) \in 1..Len(document.relays) /\ verifyRelayDescriptor(document.relays[Max(S)], t)
      /\ urlOf(Max(S)) = u /\ u # NoURL
  BY <1>5, <1>6
<1>8. document.relays[Max(S)] \in Descriptors /\ document.relays[Max(S)].signed
  <2> DEFINE m == Max(S)
  <2>1. m \in 1..Len(document.relays) /\ verifyRelayDescriptor(document.relays[m], t)
    BY <1>7
  <2> HIDE DEF m
  <2>2. document.relays[m] \in Descriptors
    BY <1>4, <2>1
  <2>3. document.relays[m].signed
    BY <2>1, Zenon DEF verifyRelayDescriptor
  <2> QED
    BY <2>2, <2>3 DEF m
<1>9. document.relays[Max(S)].url \in Spellings
  BY <1>8 DEF Descriptors
<1> QED
  BY <1>3, <1>7, <1>8, <1>9 DEF Canonical

----------------------------------------------------------------------------
(* The steps.                                                              *)

LEMMA DiscoveryInitially == Init => DiscoveryInv
<1> SUFFICES ASSUME Init PROVE DiscoveryInv
  OBVIOUS
<1>1. ClockInv
  <2>1. udpEnabled \in BOOLEAN /\ ctxDone \in BOOLEAN
    BY Zenon DEF Init
  <2>2. clock \in 1..MaxClock /\ now \in 0..clock
    BY DiscoveryAssumption DEF Init
  <2> QED
    BY <2>1, <2>2 DEF Init, ClockInv
<1>2. MembersInv
  <2>1. PICK inputs \in Inputs : members = NormalizeRelays(inputs)
    BY DEF Init
  <2>2. inputs \subseteq Spellings /\ NoURL \notin members
    BY InputAssumption DEF Init
  <2>3. members \subseteq Canonical
    BY <2>1, <2>2 DEF NormalizeRelays, Canonical
  <2> QED
    BY <2>3, DiscoveryAssumption DEF Init, MembersInv
<1>3. CandidatesInv /\ SelectionInv
  BY DEF Init, CandidatesInv, SelectionInv
<1> QED
  BY <1>1, <1>2, <1>3 DEF DiscoveryInv

\* merge replaces both maps of a candidate by those of its new descriptor.
LEMMA MergeKeeps ==
    ASSUME CandidatesInv, NEW entries, merge(entries),
           \A u \in DOMAIN entries : u \in Canonical /\ entries[u] \in Descriptors /\ entries[u].signed,
           latest' = [u \in DOMAIN latest \cup DOMAIN entries |->
                         IF u \in DOMAIN entries THEN entries[u] ELSE latest[u]]
    PROVE  CandidatesInv'
<1> DEFINE all == DOMAIN relays \cup DOMAIN entries
           exp == [u \in all |-> IF u \in DOMAIN entries THEN entries[u].expiresAt ELSE relays[u]]
           udp == [u \in all |-> IF u \in DOMAIN entries THEN entries[u].supportsUDP ELSE udpOnly[u]]
<1>1. relays' = Without(exp, lapsed(exp)) /\ udpOnly' = Without(udp, lapsed(exp))
  BY DEF merge
<1>2. DOMAIN relays' \subseteq all /\ DOMAIN udpOnly' = DOMAIN relays'
  BY <1>1 DEF Without
<1>3. \A u \in DOMAIN relays' : relays'[u] = exp[u] /\ udpOnly'[u] = udp[u]
  BY <1>1 DEF Without
<1>4. ASSUME NEW u \in DOMAIN relays'
      PROVE  /\ u \in Canonical /\ u \in DOMAIN latest' /\ latest'[u] \in Descriptors /\ latest'[u].signed
             /\ relays'[u] = latest'[u].expiresAt /\ udpOnly'[u] = latest'[u].supportsUDP
  <2>1. u \in all /\ relays'[u] = exp[u] /\ udpOnly'[u] = udp[u]
    BY <1>2, <1>3, <1>4
  <2>2. CASE u \in DOMAIN entries
    BY <2>1, <2>2
  <2>3. CASE u \notin DOMAIN entries
    BY <2>1, <2>3 DEF CandidatesInv
  <2> QED
    BY <2>2, <2>3
<1> QED
  BY <1>2, <1>4 DEF CandidatesInv

LEMMA DiscoveryKept == DiscoveryInv /\ [Next]_vars => DiscoveryInv'
<1> SUFFICES ASSUME DiscoveryInv, [Next]_vars PROVE DiscoveryInv'
  OBVIOUS
<1> USE DEF config, memVars, candVars, goVars
<1>0. ClockInv /\ MembersInv /\ CandidatesInv /\ SelectionInv
  BY DEF DiscoveryInv
\* What a conjunct does not mention cannot disturb it.
<1>1. ASSUME UNCHANGED <<config, clock, ctxDone, now, dpc>> PROVE ClockInv'
  BY <1>0, <1>1 DEF ClockInv
<1>2. ASSUME UNCHANGED <<config, members, failed, discoveredCount>>, seeds' \subseteq seeds PROVE MembersInv'
  BY <1>0, <1>2 DEF MembersInv
<1>3. ASSUME UNCHANGED candVars PROVE CandidatesInv'
  BY <1>0, <1>3 DEF CandidatesInv
<1>4. ASSUME UNCHANGED <<udpEnabled, latest, now, dpc>>, selected' \subseteq selected PROVE SelectionInv'
  BY <1>0, <1>4 DEF SelectionInv
<1>5. ASSUME selected' = {} PROVE SelectionInv'
  BY <1>5 DEF SelectionInv
<1>6. CASE UNCHANGED vars
  BY <1>1, <1>2, <1>3, <1>4, <1>6 DEF vars, DiscoveryInv
<1>7. CASE refreshDiscovery
  <2>1. /\ dpc = "idle" /\ seeds' = active /\ now' = clock /\ dpc' = "fetch"
        /\ UNCHANGED <<config, clock, ctxDone, memVars, candVars, selected>>
    BY <1>7 DEF refreshDiscovery
  <2>2. ClockInv'
    BY <1>0, <2>1, DiscoveryAssumption DEF ClockInv
  <2>3. MembersInv'
    BY <1>0, <2>1 DEF MembersInv, active
  <2>4. selected' = {}
    BY <1>0, <2>1 DEF SelectionInv
  <2> QED
    BY <1>3, <1>5, <2>1, <2>2, <2>3, <2>4 DEF DiscoveryInv
<1>8. CASE fetchSeed
  <2>1. dpc = "fetch" /\ seeds' \subseteq seeds /\ UNCHANGED <<config, clock, ctxDone, memVars, dpc, now, selected>>
    BY <1>8 DEF fetchSeed
  <2>2. PICK entries \in {fetched(document, now) : document \in Documents} :
           /\ merge(entries)
           /\ latest' = [u \in DOMAIN latest \cup DOMAIN entries |->
                            IF u \in DOMAIN entries THEN entries[u] ELSE latest[u]]
    BY <1>8 DEF fetchSeed
  <2>3. \A u \in DOMAIN entries : u \in Canonical /\ entries[u] \in Descriptors /\ entries[u].signed
    BY <2>2, FetchedVerified
  <2>4. CandidatesInv'
    BY <1>0, <2>2, <2>3, MergeKeeps
  <2>5. selected' = {}
    BY <1>0, <2>1 DEF SelectionInv
  <2> QED
    BY <1>1, <1>2, <1>5, <2>1, <2>4, <2>5 DEF DiscoveryInv
<1>9. CASE fetchFails
  BY <1>1, <1>2, <1>3, <1>4, <1>9 DEF fetchFails, DiscoveryInv
<1>10. CASE adoptDiscoveredRelays
  <2>1. /\ selected' = selectRelays /\ dpc' = "add"
        /\ UNCHANGED <<config, clock, ctxDone, memVars, candVars, now, seeds>>
    BY <1>10 DEF adoptDiscoveredRelays
  <2>2. ClockInv'
    BY <1>0, <2>1 DEF ClockInv
  <2>3. SelectionInv'
    <3>1. ASSUME NEW u \in selectRelays
          PROVE  /\ u \in Canonical /\ u \in DOMAIN latest /\ latest[u].signed /\ latest[u].expiresAt > now
                 /\ udpEnabled => latest[u].supportsUDP
      <4>1. u \in DOMAIN relays /\ relays[u] > now /\ (udpEnabled => udpOnly[u])
        BY <3>1 DEF selectRelays
      <4>2. /\ u \in Canonical /\ u \in DOMAIN latest /\ latest[u].signed
            /\ relays[u] = latest[u].expiresAt /\ udpOnly[u] = latest[u].supportsUDP
        BY <1>0, <4>1 DEF CandidatesInv
      <4> QED
        BY <4>1, <4>2
    <3> QED
      BY <2>1, <3>1 DEF SelectionInv
  <2> QED
    BY <1>2, <1>3, <2>1, <2>2, <2>3 DEF DiscoveryInv
<1>11. CASE addRelay
  <2>1. /\ selected # {} /\ selected' \subseteq selected
        /\ UNCHANGED <<config, clock, ctxDone, candVars, dpc, now, seeds>>
    BY <1>11 DEF addRelay
  <2>2. first(selected) \in Canonical
    BY <1>0, <2>1, FirstIsIn, CanonicalRank DEF SelectionInv
  <2>3. MembersInv'
    <3>1. CASE UNCHANGED memVars
      BY <1>2, <2>1, <3>1
    <3>2. CASE /\ ~AddRefused(first(selected)) /\ members' = members \cup {first(selected)}
               /\ discoveredCount' = discoveredCount + 1 /\ UNCHANGED failed
      <4>1. discoveredCount < maxDiscovered /\ maxDiscovered \in Nat
        BY <1>0, <3>2, DiscoveryAssumption DEF AddRefused, ClockInv, MembersInv
      <4>2. discoveredCount' \in 0..maxDiscovered
        BY <1>0, <3>2, <4>1 DEF MembersInv
      <4> QED
        BY <1>0, <2>1, <2>2, <3>2, <4>2 DEF MembersInv
    <3> QED
      BY <1>11, <3>1, <3>2 DEF addRelay
  <2> QED
    BY <1>1, <1>3, <1>4, <2>1, <2>3 DEF DiscoveryInv
<1>12. CASE refreshEnds
  <2>1. /\ dpc' \in {"idle", "done"} /\ seeds' = {} /\ selected' = {}
        /\ UNCHANGED <<config, clock, ctxDone, memVars, candVars, now>>
    BY <1>12 DEF refreshEnds
  <2>2. ClockInv'
    BY <1>0, <2>1 DEF ClockInv
  <2> QED
    BY <1>2, <1>3, <1>5, <2>1, <2>2 DEF DiscoveryInv
<1>13. CASE tick
  <2>1. clock < MaxClock /\ clock' = clock + 1 /\ UNCHANGED <<config, ctxDone, memVars, candVars, goVars>>
    BY <1>13 DEF tick
  <2>2. clock' \in 1..MaxClock /\ now \in 0..clock'
    BY <1>0, <2>1, DiscoveryAssumption DEF ClockInv
  <2>3. ClockInv'
    BY <1>0, <2>1, <2>2 DEF ClockInv
  <2> QED
    BY <1>2, <1>3, <1>4, <2>1, <2>3 DEF DiscoveryInv
<1>14. ASSUME NEW u \in members, markFailed(u) PROVE DiscoveryInv'
  <2>1. MembersInv'
    BY <1>0, <1>14 DEF markFailed, MembersInv
  <2> QED
    BY <1>1, <1>3, <1>4, <1>14, <2>1 DEF markFailed, DiscoveryInv
<1>15. CASE close
  <2>1. ctxDone' = TRUE /\ UNCHANGED <<config, clock, memVars, candVars, goVars>>
    BY <1>15 DEF close
  <2>2. ctxDone' \in BOOLEAN
    BY <2>1, Zenon
  <2>3. ClockInv'
    BY <1>0, <2>1, <2>2 DEF ClockInv
  <2> QED
    BY <1>2, <1>3, <1>4, <2>1, <2>3 DEF DiscoveryInv
<1> QED
  BY <1>6, <1>7, <1>8, <1>9, <1>10, <1>11, <1>12, <1>13, <1>14, <1>15 DEF Next, discoveryStep

LEMMA DiscoveryInvariant == Spec => []DiscoveryInv
BY DiscoveryInitially, DiscoveryKept, PTL DEF Spec

----------------------------------------------------------------------------
(* Theorems.                                                               *)

\* Every state is well formed: the two maps of the candidates agree on their
\* keys, and no more relays are adopted than MaxActiveRelays allows.
THEOREM DiscoveryTypeCorrect == Spec => []TypeOK
<1>1. DiscoveryInv => TypeOK
  <2> SUFFICES ASSUME DiscoveryInv PROVE TypeOK
    OBVIOUS
  <2>1. ASSUME NEW u \in DOMAIN relays PROVE relays[u] \in Nat /\ udpOnly[u] \in BOOLEAN
    BY <2>1 DEF DiscoveryInv, CandidatesInv, Descriptors
  <2> QED
    BY <2>1 DEF DiscoveryInv, ClockInv, MembersInv, CandidatesInv, TypeOK
<1> QED
  BY <1>1, DiscoveryInvariant, PTL

\* Whatever URLs a caller and the documents of the members contain, in whatever
\* spelling of scheme, case, trailing dot, port and path, normalizeRelay brings those
\* that dial the same address to one string, so no relay gets two supervisors.
THEOREM RelaysSupervisedOnce == Spec => []OneSupervisorPerRelay
<1>1. DiscoveryInv => OneSupervisorPerRelay
  BY CanonicalUnique DEF OneSupervisorPerRelay, DiscoveryInv, MembersInv
<1> QED
  BY <1>1, DiscoveryInvariant, PTL

\* Whatever documents the members serve, a relay is adopted on one verified
\* descriptor, the last one taken for its URL, unexpired when the refresh began
\* and with a UDP backhaul where the exposure needs one.
THEOREM AdoptionsJustified == Spec => AdoptionSound
<1>1. ASSUME DiscoveryInv, [Next]_vars, NEW u \in members' \ members
      PROVE  /\ u \in DOMAIN latest /\ latest[u].signed /\ latest[u].expiresAt > now
             /\ udpEnabled => latest[u].supportsUDP
  <2>1. addRelay
    <3>1. members' # members
      BY <1>1
    <3>2. ~(UNCHANGED vars) /\ ~refreshDiscovery /\ ~fetchSeed /\ ~fetchFails /\ ~adoptDiscoveredRelays /\ ~refreshEnds
      BY <3>1 DEF vars, memVars, refreshDiscovery, fetchSeed, fetchFails, adoptDiscoveredRelays, refreshEnds
    <3>3. ~tick /\ ~close /\ \A v \in members : ~markFailed(v)
      BY <3>1 DEF memVars, tick, close, markFailed
    <3> QED
      BY <1>1, <3>2, <3>3 DEF Next, discoveryStep
  <2>2. selected # {} /\ u = first(selected)
    BY <1>1, <2>1 DEF addRelay, memVars
  <2>3. u \in selected
    BY <1>1, <2>2, FirstIsIn, CanonicalRank DEF DiscoveryInv, SelectionInv
  <2> QED
    BY <1>1, <2>3 DEF DiscoveryInv, SelectionInv
<1>2. DiscoveryInv /\ [Next]_vars =>
        [\A u \in members' \ members :
            /\ u \in DOMAIN latest
            /\ latest[u].signed /\ latest[u].expiresAt > now
            /\ udpEnabled => latest[u].supportsUDP]_vars
  BY <1>1
<1> QED
  BY <1>2, DiscoveryInvariant, PTL DEF Spec, AdoptionSound

=============================================================================
