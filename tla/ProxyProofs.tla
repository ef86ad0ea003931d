----------------------------- MODULE ProxyProofs -----------------------------
(***************************************************************************)
(* Proofs about ProxyWithConfig: the types of its state and the limit of   *)
(* the flow map, that no local UDP socket is ever lost, and that every     *)
(* socket is closed when it returns.  The state falls into three parts     *)
(* (ProxyWithConfig itself, the TCP worker with its pairs, the UDP worker  *)
(* with its flows); the invariant has one group of conjuncts for each.     *)
(***************************************************************************)
EXTENDS Proxy, FiniteSetTheorems, TLAPS

----------------------------------------------------------------------------
(* The inductive invariant.                                                *)

PairStates   == {"none", "dial", "setLocal", "copy", "close", "done"}
ReaderStates == {"none", "read", "check", "send", "remove", "close", "done"}
SocketStates == {"none", "open", "closed"}

MainType ==
    /\ setup \in Setups
    /\ exposure \in {"live", "exhausted", "closed"} /\ ctx \in BOOLEAN /\ proxyCtx \in BOOLEAN
    /\ main \in {"select", "close", "collect", "returned"} /\ results \subseteq {"tcp", "udp"}

TcpType ==
    /\ tcp \in {"off", "accept", "closeAll", "wait", "done"}
    /\ pair \in [Pairs -> PairStates]
    /\ pairClosed \in [Pairs -> BOOLEAN]
    /\ open \subseteq Pairs \X {"relay", "local"} /\ afterSockets \subseteq open
    /\ afterFunc \in {"armed", "closing", "done"}

UdpType ==
    /\ udp \in {"off", "resolve", "waitReady", "accept", "select", "write", "remove",
                "closeSocket", "close", "wait", "done"}
    /\ forwarding \in 0..MaxSockets /\ cleanup \in {"off", "run", "close", "done"}
    /\ expired \subseteq Sockets /\ toClose \subseteq Sockets /\ closed \in BOOLEAN
    /\ flows \in [Keys -> 0..MaxSockets]
    /\ sock \in [Sockets -> SocketStates]
    /\ reader \in [Sockets -> ReaderStates]
    /\ key \in [Sockets -> Keys \cup {NoFlow}]

\* ProxyWithConfig returns with the result of every worker, and a worker sends
\* its result last.
ResultsSent ==
    /\ main = "returned" => results = setup.targets
    /\ "tcp" \in results <=> tcp = "done"
    /\ "udp" \in results <=> udp = "done"
    /\ "tcp" \notin setup.targets <=> tcp = "off"
    /\ "udp" \notin setup.targets <=> udp = "off"

\* Whoever closed a pair closes its sockets, or the AfterFunc does, except for a
\* local connection that the pair does not know yet: setLocal closes that one.
PairsOwn ==
    /\ tcp \in {"off", "done"} => \A p \in Pairs : pair[p] \in {"none", "done"}
    /\ \A p \in Pairs : pair[p] = "none" => ~pairClosed[p]
    /\ \A p \in Pairs : pair[p] = "done" => pairClosed[p]
    /\ \A p \in Pairs, side \in {"relay", "local"} : <<p, side>> \in open =>
          /\ pair[p] # "none"
          /\ side = "local" => pair[p] # "dial"
          /\ pairClosed[p] => \/ <<p, side>> \in afterSockets
                              \/ side = "local" /\ pair[p] = "setLocal"
    /\ \A p \in Pairs, side \in {"relay", "local"} : <<p, side>> \in afterSockets =>
          /\ pairClosed[p]
          /\ side = "local" => pair[p] \notin {"dial", "setLocal"}
    /\ afterFunc # "closing" => afterSockets = {}

\* A socket in the map, in the hands of forward or with a reader is a socket that
\* was opened, and its flow key is known.
FlowsKnown ==
    /\ \A i \in Sockets : sock[i] # "none" => key[i] \in Keys
    /\ \A i \in Sockets : sock[i] = "none" <=> reader[i] = "none"
    /\ \A k \in Keys : flows[k] # NoFlow => sock[flows[k]] # "none"
    /\ \A i \in expired \cup toClose : sock[i] # "none"
    /\ udp \in {"write", "remove", "closeSocket"} =>
          forwarding \in Sockets /\ sock[forwarding] # "none"

\* The map is empty before the first and after the last datagram, and what was
\* taken out of it is remembered only until it is closed.
FlowPhases ==
    /\ udp \in {"off", "resolve", "waitReady"} =>
          cleanup = "off" /\ \A i \in Sockets : sock[i] = "none"
    /\ udp = "done" =>
          /\ cleanup \in {"off", "done"}
          /\ \A i \in Sockets : sock[i] # "open" /\ reader[i] \in {"none", "done"}
    /\ udp \in {"off", "resolve", "waitReady", "close", "wait", "done"} =>
          \A k \in Keys : flows[k] = NoFlow
    /\ udp # "close" => toClose = {}
    /\ cleanup # "close" => expired = {}

FlowLimit == IsFiniteSet(InUse) /\ Cardinality(InUse) <= MaxFlows

TcpInv   == TcpType /\ PairsOwn
UdpInv   == UdpType /\ FlowsKnown /\ FlowPhases /\ FlowLimit /\ NoOrphanSocket
ProxyInv == MainType /\ TcpInv /\ UdpInv /\ ResultsSent

\* What the invariant is for.
LEMMA ProxyInvImplies == ProxyInv => TypeOK /\ NoOrphanSocket /\ ReturnsClean
<1> SUFFICES ASSUME ProxyInv PROVE TypeOK /\ NoOrphanSocket /\ ReturnsClean
  OBVIOUS
<1>1. TypeOK
  BY DEF ProxyInv, MainType, TcpInv, TcpType, UdpInv, UdpType, FlowLimit, TypeOK, PairStates,
         ReaderStates, SocketStates
<1>2. ReturnsClean
  <2> SUFFICES ASSUME main = "returned"
               PROVE  /\ \A p \in Pairs : pair[p] \in {"none", "done"}
                      /\ open \subseteq afterSockets
                      /\ \A i \in Sockets : sock[i] # "open" /\ reader[i] \in {"none", "done"}
                      /\ cleanup \in {"off", "done"}
    BY DEF ReturnsClean
  <2>1. tcp \in {"off", "done"} /\ udp \in {"off", "done"}
    BY DEF ProxyInv, ResultsSent
  <2>2. \A p \in Pairs : pair[p] \in {"none", "done"}
    BY <2>1 DEF ProxyInv, TcpInv, PairsOwn
  <2>3. open \subseteq afterSockets
    <3>1. ASSUME NEW p \in Pairs, NEW side \in {"relay", "local"}, <<p, side>> \in open
          PROVE  <<p, side>> \in afterSockets
      <4>1. pair[p] = "done"
        BY <2>2, <3>1 DEF ProxyInv, TcpInv, PairsOwn
      <4> QED
        BY <3>1, <4>1 DEF ProxyInv, TcpInv, PairsOwn
    <3>2. open \subseteq Pairs \X {"relay", "local"}
      BY DEF ProxyInv, TcpInv, TcpType
    <3>3. ASSUME NEW s \in open PROVE s \in afterSockets
      <4>1. PICK p \in Pairs, side \in {"relay", "local"} : s = <<p, side>>
        BY <3>2
      <4> QED
        BY <3>1, <4>1
    <3> QED
      BY <3>3
  <2>4. \A i \in Sockets : sock[i] # "open" /\ reader[i] \in {"none", "done"}
    BY <2>1 DEF ProxyInv, UdpInv, FlowPhases, FlowsKnown
  <2>5. cleanup \in {"off", "done"}
    BY <2>1 DEF ProxyInv, UdpInv, FlowPhases
  <2> QED
    BY <2>2, <2>3, <2>4, <2>5
<1> QED
  BY <1>1, <1>2 DEF ProxyInv, UdpInv

\* The invariant holds where ProxyWithConfig starts its workers.
LEMMA ProxyInvInit == Init => ProxyInv
<1> SUFFICES ASSUME Init PROVE ProxyInv
  OBVIOUS
<1>1. setup \in Setups /\ setup.targets \subseteq {"tcp", "udp"}
  BY ProxyAssumption DEF Init
<1>2. MainType
  BY <1>1 DEF Init, MainType
<1>3. TcpType
  BY DEF Init, TcpType, PairStates
<1>4. PairsOwn
  BY DEF Init, PairsOwn
<1>5. UdpType
  <2>1. 0 \in 0..MaxSockets
    BY ProxyAssumption
  <2>2. flows \in [Keys -> 0..MaxSockets]
    BY <2>1 DEF Init, NoFlow
  <2>3. udp \in {"off", "resolve"}
    BY DEF Init
  <2> QED
    BY <2>1, <2>2, <2>3 DEF Init, UdpType, NoFlow, SocketStates, ReaderStates
<1>6. FlowsKnown /\ FlowPhases /\ NoOrphanSocket
  BY DEF Init, FlowsKnown, FlowPhases, NoOrphanSocket
<1>7. FlowLimit
  <2>1. InUse = {}
    BY DEF Init, InUse
  <2> QED
    BY <2>1, FS_EmptySet, ProxyAssumption DEF FlowLimit
<1>8. ResultsSent
  BY <1>1 DEF Init, ResultsSent
<1> QED
  BY <1>2, <1>3, <1>4, <1>5, <1>6, <1>7, <1>8 DEF ProxyInv, TcpInv, UdpInv

----------------------------------------------------------------------------
(* The TCP worker.                                                         *)

\* The sockets of a set of open ones, by connection and side.
LEMMA SidesOf ==
    ASSUME NEW S, S \subseteq Pairs \X {"relay", "local"}, NEW s \in S
    PROVE  \E p \in Pairs, side \in {"relay", "local"} : s = <<p, side>>
OBVIOUS

\* Which sockets proxyPair.close closes.
LEMMA SocketsOf ==
    ASSUME TcpType, NEW ps
    PROVE  /\ socketsOf(ps) \subseteq open
           /\ \A p \in Pairs, side \in {"relay", "local"} :
                 <<p, side>> \in socketsOf(ps) <=>
                     /\ <<p, side>> \in open /\ p \in ps /\ ~pairClosed[p]
                     /\ side = "local" => pair[p] # "setLocal"
BY DEF socketsOf, TcpType

\* proxyPair.close sets closed and touches nothing that the AfterFunc still has to
\* close.
LEMMA MarkedClosed ==
    ASSUME TcpType, NEW ps, markClosed(ps)
    PROVE  /\ pairClosed' \in [Pairs -> BOOLEAN]
           /\ \A p \in Pairs : pairClosed'[p] <=> pairClosed[p] \/ p \in ps
BY DEF TcpType, markClosed

\* Closing pairs keeps the invariant, whether or not one of them ends with it.
LEMMA ClosePairs ==
    ASSUME TcpInv, NEW ps \in SUBSET Pairs, closePairs(ps),
           \A p \in ps : pair[p] # "none",
           UNCHANGED <<afterFunc, afterSockets>>,
           tcp' \in {"off", "accept", "closeAll", "wait", "done"},
           tcp' \in {"off", "done"} => tcp' = tcp,
           \/ UNCHANGED pair
           \/ \E p \in ps : pair[p] = "close" /\ pair' = [pair EXCEPT ![p] = "done"]
    PROVE  TcpInv'
<1>a. TcpType /\ PairsOwn
  BY DEF TcpInv
<1>b. markClosed(ps) /\ open' = open \ socketsOf(ps)
  BY DEF closePairs
<1>c. pairClosed' \in [Pairs -> BOOLEAN] /\ \A p \in Pairs : pairClosed'[p] <=> pairClosed[p] \/ p \in ps
  BY <1>a, <1>b, MarkedClosed
<1>d. /\ pair' \in [Pairs -> PairStates]
      /\ \A p \in Pairs : pair'[p] = pair[p] \/ (p \in ps /\ pair[p] = "close" /\ pair'[p] = "done")
  BY <1>a DEF TcpType, PairStates
<1>e. \A p \in Pairs, side \in {"relay", "local"} :
         <<p, side>> \in open' <=>
            /\ <<p, side>> \in open
            /\ ~(p \in ps /\ ~pairClosed[p] /\ (side = "local" => pair[p] # "setLocal"))
  BY <1>a, <1>b, SocketsOf
<1>1. afterSockets \subseteq open'
  <2> SUFFICES ASSUME NEW s \in afterSockets PROVE s \in open'
    OBVIOUS
  <2>1. PICK p \in Pairs, side \in {"relay", "local"} : s = <<p, side>>
    BY <1>a DEF TcpType
  <2>2. pairClosed[p] /\ <<p, side>> \in open
    BY <2>1, <1>a DEF PairsOwn, TcpType
  <2> QED
    BY <2>1, <2>2, <1>e
<1>2. open' \subseteq Pairs \X {"relay", "local"}
  BY <1>a, <1>b DEF TcpType
<1>3. TcpType'
  BY <1>a, <1>c, <1>d, <1>1, <1>2 DEF TcpType
<1>4. PairsOwn'
  <2>1. tcp' \in {"off", "done"} => \A p \in Pairs : pair'[p] \in {"none", "done"}
    BY <1>a, <1>d DEF PairsOwn
  <2>2. \A p \in Pairs : pair'[p] = "none" => ~pairClosed'[p]
    BY <1>a, <1>c, <1>d DEF PairsOwn
  <2>3. \A p \in Pairs : pair'[p] = "done" => pairClosed'[p]
    BY <1>a, <1>c, <1>d DEF PairsOwn
  <2>4. ASSUME NEW p \in Pairs, NEW side \in {"relay", "local"}, <<p, side>> \in open'
        PROVE  /\ pair'[p] # "none"
               /\ side = "local" => pair'[p] # "dial"
               /\ pairClosed'[p] => \/ <<p, side>> \in afterSockets
                                    \/ side = "local" /\ pair'[p] = "setLocal"
    <3>1. /\ <<p, side>> \in open /\ pair[p] # "none" /\ (side = "local" => pair[p] # "dial")
          /\ pairClosed[p] => \/ <<p, side>> \in afterSockets
                              \/ side = "local" /\ pair[p] = "setLocal"
      BY <2>4, <1>a, <1>e DEF PairsOwn
    <3>2. pair'[p] = pair[p] \/ (pair[p] = "close" /\ pair'[p] = "done")
      BY <1>d
    <3>3. CASE pairClosed[p]
      BY <3>1, <3>2, <3>3
    <3>4. CASE ~pairClosed[p]
      <4>1. pairClosed'[p] => side = "local" /\ pair[p] = "setLocal"
        BY <3>4, <2>4, <1>c, <1>e
      <4> QED
        BY <3>1, <3>2, <4>1
    <3> QED
      BY <3>3, <3>4
  <2>5. ASSUME NEW p \in Pairs, NEW side \in {"relay", "local"}, <<p, side>> \in afterSockets
        PROVE  pairClosed'[p] /\ (side = "local" => pair'[p] \notin {"dial", "setLocal"})
    <3>1. pairClosed[p] /\ (side = "local" => pair[p] \notin {"dial", "setLocal"})
      BY <2>5, <1>a DEF PairsOwn
    <3> QED
      BY <3>1, <1>c, <1>d
  <2>6. afterFunc # "closing" => afterSockets = {}
    BY <1>a DEF PairsOwn
  <2> QED
    BY <2>1, <2>2, <2>3, <2>4, <2>5, <2>6 DEF PairsOwn
<1> QED
  BY <1>3, <1>4 DEF TcpInv

\* A pair moves on by itself, and perhaps opens or closes one of its sockets.
LEMMA PairMoves ==
    ASSUME TcpInv, NEW p \in Pairs, NEW to \in PairStates \ {"none", "done"}, tcp \notin {"off", "done"},
           pair' = [pair EXCEPT ![p] = to], UNCHANGED <<tcp, pairClosed, afterFunc, afterSockets>>,
           \/ pair[p] = "none" /\ to = "dial" /\ open' = open \cup {<<p, "relay">>}
           \/ pair[p] = "dial" /\ to = "setLocal" /\ open' = open \cup {<<p, "local">>}
           \/ pair[p] = "dial" /\ to = "close" /\ open' = open
           \/ pair[p] = "setLocal" /\ pairClosed[p] /\ to = "close" /\ open' = open \ {<<p, "local">>}
           \/ pair[p] = "setLocal" /\ ~pairClosed[p] /\ to = "copy" /\ open' = open
           \/ pair[p] = "copy" /\ to = "close" /\ open' = open
    PROVE  TcpInv'
<1>a. TcpType /\ PairsOwn
  BY DEF TcpInv
<1>b. pair' \in [Pairs -> PairStates] /\ pair'[p] = to /\ \A q \in Pairs \ {p} : pair'[q] = pair[q]
  BY <1>a DEF TcpType
<1>c. \A q \in Pairs, side \in {"relay", "local"} :
         q # p => (<<q, side>> \in open' <=> <<q, side>> \in open)
  BY <1>a DEF TcpType
<1>d. <<p, "local">> \in afterSockets => pair[p] \notin {"dial", "setLocal"}
  BY <1>a DEF PairsOwn
<1>e. \A side \in {"relay", "local"} : <<p, side>> \in afterSockets => pair[p] # "none"
  BY <1>a DEF PairsOwn, TcpType
<1>1. open' \subseteq Pairs \X {"relay", "local"} /\ afterSockets \subseteq open'
  BY <1>a, <1>d DEF TcpType
<1>2. TcpType'
  BY <1>a, <1>b, <1>1 DEF TcpType
<1>3. ASSUME NEW q \in Pairs, NEW side \in {"relay", "local"}, <<q, side>> \in open'
      PROVE  /\ pair'[q] # "none"
             /\ side = "local" => pair'[q] # "dial"
             /\ pairClosed[q] => \/ <<q, side>> \in afterSockets
                                 \/ side = "local" /\ pair'[q] = "setLocal"
  <2>1. CASE q # p
    BY <2>1, <1>3, <1>a, <1>b, <1>c DEF PairsOwn
  <2>2. CASE q = p
    <3>1. CASE pair[p] = "none"
      <4>1. <<p, side>> \notin open /\ ~pairClosed[p]
        BY <3>1, <1>a DEF PairsOwn
      <4>2. side = "relay"
        BY <2>2, <1>3, <3>1, <4>1
      <4> QED
        BY <2>2, <1>b, <4>1, <4>2
    <3>2. CASE pair[p] = "dial" /\ to = "setLocal"
      <4>1. <<p, side>> \in open \/ side = "local"
        BY <2>2, <1>3, <3>2
      <4>2. <<p, side>> \in open /\ pairClosed[p] => <<p, side>> \in afterSockets
        BY <3>2, <1>a DEF PairsOwn
      <4> QED
        BY <2>2, <3>2, <1>b, <4>1, <4>2
    <3>3. CASE pair[p] = "dial" /\ to = "close"
      BY <2>2, <1>3, <3>3, <1>a, <1>b DEF PairsOwn
    <3>4. CASE pair[p] = "setLocal" /\ pairClosed[p]
      <4>1. <<p, side>> \in open /\ side # "local" /\ to = "close"
        BY <2>2, <1>3, <3>4
      <4> QED
        BY <2>2, <3>4, <4>1, <1>a, <1>b DEF PairsOwn
    <3>5. CASE pair[p] = "setLocal" /\ ~pairClosed[p]
      BY <2>2, <3>5, <1>b
    <3>6. CASE pair[p] = "copy"
      BY <2>2, <1>3, <3>6, <1>a, <1>b DEF PairsOwn
    <3> QED
      BY <3>1, <3>2, <3>3, <3>4, <3>5, <3>6
  <2> QED
    BY <2>1, <2>2
<1>4. ASSUME NEW q \in Pairs, NEW side \in {"relay", "local"}, <<q, side>> \in afterSockets
      PROVE  pairClosed[q] /\ (side = "local" => pair'[q] \notin {"dial", "setLocal"})
  <2>1. pairClosed[q] /\ (side = "local" => pair[q] \notin {"dial", "setLocal"})
    BY <1>4, <1>a DEF PairsOwn
  <2>2. q = p => pair[p] # "none"
    BY <1>4, <1>e
  <2> QED
    BY <2>1, <2>2, <1>b
<1>5. PairsOwn'
  <2>1. \A q \in Pairs : pair'[q] = "none" => ~pairClosed[q]
    BY <1>a, <1>b DEF PairsOwn
  <2>2. \A q \in Pairs : pair'[q] = "done" => pairClosed[q]
    BY <1>a, <1>b DEF PairsOwn
  <2>3. afterFunc # "closing" => afterSockets = {}
    BY <1>a DEF PairsOwn
  <2> QED
    BY <1>3, <1>4, <2>1, <2>2, <2>3 DEF PairsOwn
<1> QED
  BY <1>2, <1>5 DEF TcpInv

\* The AfterFunc marks every active pair and remembers the sockets to close.
LEMMA AfterFuncMarks == ASSUME TcpInv, afterFuncMark PROVE TcpInv'
<1>a. TcpType /\ PairsOwn
  BY DEF TcpInv
<1>b. UNCHANGED <<tcp, pair, open>> /\ afterFunc = "armed" /\ afterFunc' = "closing"
      /\ markClosed(Active) /\ afterSockets' = socketsOf(Active)
  BY DEF afterFuncMark
<1>c. /\ pairClosed' \in [Pairs -> BOOLEAN]
      /\ \A p \in Pairs : pairClosed'[p] <=> pairClosed[p] \/ p \in Active
  BY <1>a, <1>b, MarkedClosed
<1>d. \A p \in Pairs : p \in Active <=> pair[p] \notin {"none", "done"}
  BY <1>a DEF Active, TcpType, PairStates
<1>e. /\ socketsOf(Active) \subseteq open
      /\ \A p \in Pairs, side \in {"relay", "local"} :
            <<p, side>> \in socketsOf(Active) <=>
                /\ <<p, side>> \in open /\ p \in Active /\ ~pairClosed[p]
                /\ side = "local" => pair[p] # "setLocal"
  BY <1>a, SocketsOf
<1>f. afterSockets = {}
  BY <1>a, <1>b DEF PairsOwn
<1>1. TcpType'
  BY <1>a, <1>b, <1>c, <1>e DEF TcpType
<1>2. ASSUME NEW p \in Pairs, NEW side \in {"relay", "local"}, <<p, side>> \in open
      PROVE  /\ pair[p] # "none"
             /\ side = "local" => pair[p] # "dial"
             /\ pairClosed'[p] => \/ <<p, side>> \in afterSockets'
                                  \/ side = "local" /\ pair[p] = "setLocal"
  <2>1. /\ pair[p] # "none" /\ (side = "local" => pair[p] # "dial")
        /\ pairClosed[p] => side = "local" /\ pair[p] = "setLocal"
    BY <1>2, <1>a, <1>f DEF PairsOwn
  <2> QED
    BY <1>2, <2>1, <1>b, <1>c, <1>e
<1>3. ASSUME NEW p \in Pairs, NEW side \in {"relay", "local"}, <<p, side>> \in afterSockets'
      PROVE  pairClosed'[p] /\ (side = "local" => pair[p] \notin {"dial", "setLocal"})
  BY <1>3, <1>a, <1>b, <1>c, <1>e DEF PairsOwn
<1>4. PairsOwn'
  <2>1. \A p \in Pairs : pair[p] = "none" => ~pairClosed'[p]
    BY <1>a, <1>c, <1>d DEF PairsOwn
  <2>2. \A p \in Pairs : pair[p] = "done" => pairClosed'[p]
    BY <1>a, <1>c DEF PairsOwn
  <2>3. tcp \in {"off", "done"} => \A p \in Pairs : pair[p] \in {"none", "done"}
    BY <1>a DEF PairsOwn
  <2> QED
    BY <1>2, <1>3, <1>b, <2>1, <2>2, <2>3 DEF PairsOwn
<1> QED
  BY <1>1, <1>4 DEF TcpInv

\* A step of the TCP worker, its pairs or the AfterFunc.
tcpAction == \/ tcpStep \/ afterFuncMark \/ afterFuncClose
             \/ \E p \in Pairs : tcpAccept(p) \/ pairStep(p) \/ pairCopied(p)

\* The TCP part of the invariant is preserved.
LEMMA TcpNext == ASSUME TcpInv, tcpAction \/ UNCHANGED tcpVars PROVE TcpInv'
<1>a. TcpType /\ PairsOwn
  BY DEF TcpInv
<1>b. ASSUME UNCHANGED <<pairVars, afterFunc, afterSockets>>,
             tcp' \in {"off", "accept", "closeAll", "wait", "done"},
             tcp' \in {"off", "done"} =>
                tcp' = tcp \/ \A p \in Pairs : pair[p] \in {"none", "done"}
      PROVE  TcpInv'
  BY <1>a, <1>b DEF TcpInv, TcpType, PairsOwn, pairVars
<1>c. \A p \in Pairs : pair[p] \notin {"none", "done"} => tcp \notin {"off", "done"}
  BY <1>a DEF PairsOwn
<1>1. CASE tcpAcceptError \/ tcpWait
  BY <1>1, <1>b DEF tcpAcceptError, tcpWait
<1>2. CASE tcpCloseAll
  <2>1. Active \in SUBSET Pairs /\ \A p \in Active : pair[p] # "none"
    BY DEF Active
  <2> QED
    BY <1>2, <2>1, ClosePairs DEF tcpCloseAll
<1>3. CASE afterFuncMark
  BY <1>3, AfterFuncMarks
<1>4. CASE afterFuncClose
  <2>1. TcpType'
    BY <1>4, <1>a DEF afterFuncClose, TcpType
  <2>2. PairsOwn'
    BY <1>4, <1>a DEF afterFuncClose, PairsOwn
  <2> QED
    BY <2>1, <2>2 DEF TcpInv
<1>5. ASSUME NEW p \in Pairs, tcpAccept(p) PROVE TcpInv'
  BY <1>5, PairMoves DEF tcpAccept, PairStates
<1>6. ASSUME NEW p \in Pairs, pairDial(p) PROVE TcpInv'
  BY <1>6, <1>c, PairMoves DEF pairDial, notPair, PairStates
<1>7. ASSUME NEW p \in Pairs, setLocal(p) PROVE TcpInv'
  BY <1>7, <1>c, PairMoves DEF setLocal, notPair, PairStates
<1>8. ASSUME NEW p \in Pairs, pairDone(p) PROVE TcpInv'
  <2>1. tcp' = tcp /\ UNCHANGED <<afterFunc, afterSockets>> /\ {p} \in SUBSET Pairs
    BY <1>8 DEF pairDone, notPair
  <2>2. pair[p] = "close" /\ pair' = [pair EXCEPT ![p] = "done"] /\ closePairs({p})
    BY <1>8 DEF pairDone
  <2> QED
    BY <1>a, <2>1, <2>2, ClosePairs DEF TcpType
<1>9. ASSUME NEW p \in Pairs, pairCopied(p) PROVE TcpInv'
  BY <1>9, <1>c, PairMoves DEF pairCopied, notPair, PairStates
<1>10. CASE UNCHANGED tcpVars
  BY <1>10, <1>a, <1>b DEF tcpVars, TcpType
<1> QED
  BY <1>1, <1>2, <1>3, <1>4, <1>5, <1>6, <1>7, <1>8, <1>9, <1>10 DEF tcpAction, tcpStep, pairStep

----------------------------------------------------------------------------
(* The UDP worker.                                                         *)

\* Taking flows out of the map keeps it within its limit.
LEMMA LimitShrinks ==
    ASSUME FlowLimit, \A k \in Keys : flows'[k] \in {flows[k], NoFlow}
    PROVE  FlowLimit'
<1>1. InUse' \subseteq InUse
  BY DEF InUse
<1>2. IsFiniteSet(InUse') /\ Cardinality(InUse') <= Cardinality(InUse)
  BY <1>1, FS_Subset DEF FlowLimit
<1>3. Cardinality(InUse) \in Nat /\ Cardinality(InUse') \in Nat
  BY <1>2, FS_CardinalityType DEF FlowLimit
<1> QED
  BY <1>2, <1>3, ProxyAssumption DEF FlowLimit

\* A new flow enters only below the limit.
LEMMA LimitGrows ==
    ASSUME FlowLimit, FlowSlot, NEW k \in Keys,
           \A j \in Keys : j # k => flows'[j] = flows[j]
    PROVE  FlowLimit'
<1>1. InUse' \subseteq InUse \cup {k}
  BY DEF InUse
<1>2. IsFiniteSet(InUse \cup {k}) /\ Cardinality(InUse \cup {k}) <= Cardinality(InUse) + 1
  <2>1. IsFiniteSet(InUse) /\ Cardinality(InUse) \in Nat
    BY FS_CardinalityType DEF FlowLimit
  <2>2. /\ IsFiniteSet(InUse \cup {k})
        /\ Cardinality(InUse \cup {k}) =
              IF k \in InUse THEN Cardinality(InUse) ELSE Cardinality(InUse) + 1
    BY <2>1, FS_AddElement
  <2> QED
    BY <2>1, <2>2
<1>3. IsFiniteSet(InUse') /\ Cardinality(InUse') <= Cardinality(InUse \cup {k})
  BY <1>1, <1>2, FS_Subset
<1>4. Cardinality(InUse) \in Nat /\ Cardinality(InUse') \in Nat /\ Cardinality(InUse \cup {k}) \in Nat
  BY <1>2, <1>3, FS_CardinalityType DEF FlowLimit
<1> QED
  BY <1>2, <1>3, <1>4, ProxyAssumption DEF FlowLimit, FlowSlot

\* remove takes out of the map nothing but the flow itself.
LEMMA Unmapped ==
    ASSUME UdpType, NEW i \in Sockets, key[i] \in Keys, unmap(i)
    PROVE  /\ flows' \in [Keys -> 0..MaxSockets]
           /\ \A k \in Keys : flows'[k] = flows[k] \/ (flows'[k] = NoFlow /\ flows[k] = i)
<1>1. 0 \in 0..MaxSockets
  BY ProxyAssumption
<1> QED
  BY <1>1 DEF UdpType, unmap, NoFlow

\* closeSockets closes the given sockets and no other.
LEMMA SocketsClosed ==
    ASSUME UdpType, NEW is, closeSockets(is)
    PROVE  /\ sock' \in [Sockets -> SocketStates]
           /\ \A i \in Sockets : sock'[i] = IF i \in is THEN "closed" ELSE sock[i]
BY DEF UdpType, closeSockets, SocketStates

\* Removing a flow: out of the map, and into the hands of the goroutine that did.
LEMMA Removal ==
    ASSUME UdpInv, NEW i \in Sockets, sock[i] # "none", unmap(i),
           UNCHANGED <<forwarding, cleanup, expired, closed, toClose, sock, key>>,
           \/ udp = "remove" /\ forwarding = i /\ udp' = "closeSocket" /\ reader' = reader
           \/ reader[i] = "remove" /\ reader' = [reader EXCEPT ![i] = "close"] /\ udp' = udp
    PROVE  UdpInv'
<1>a. UdpType /\ FlowsKnown /\ FlowPhases /\ FlowLimit /\ NoOrphanSocket /\ key[i] \in Keys
  BY DEF UdpInv, FlowsKnown
<1>b. /\ flows' \in [Keys -> 0..MaxSockets]
      /\ \A k \in Keys : flows'[k] = flows[k] \/ (flows'[k] = NoFlow /\ flows[k] = i)
  BY <1>a, Unmapped
<1>c. /\ reader' \in [Sockets -> ReaderStates]
      /\ \A j \in Sockets : reader'[j] = reader[j] \/ (j = i /\ reader[j] = "remove" /\ reader'[j] = "close")
  BY <1>a DEF UdpType, ReaderStates
<1>d. udp' = udp \/ (udp = "remove" /\ udp' = "closeSocket" /\ forwarding = i)
  OBVIOUS
<1>1. UdpType'
  BY <1>a, <1>b, <1>c DEF UdpType
<1>2. FlowsKnown'
  BY <1>a, <1>b, <1>c, <1>d DEF FlowsKnown
<1>3. FlowPhases'
  <2>1. udp # "done"
    BY <1>a DEF FlowPhases
  <2> QED
    BY <1>a, <1>b, <1>c, <1>d, <2>1 DEF FlowPhases
<1>4. FlowLimit'
  BY <1>a, <1>b, LimitShrinks
<1>5. NoOrphanSocket'
  <2> SUFFICES ASSUME NEW j \in Sockets, sock[j] = "open"
               PROVE  \/ flows'[key[j]] = j
                      \/ j \in expired \cup toClose
                      \/ udp' = "closeSocket" /\ forwarding = j
                      \/ reader'[j] = "close"
    BY DEF NoOrphanSocket
  <2>1. \/ flows[key[j]] = j \/ j \in expired \cup toClose
        \/ (udp = "closeSocket" /\ forwarding = j) \/ reader[j] = "close"
    BY <1>a DEF NoOrphanSocket
  <2>2. key[j] \in Keys
    BY <1>a DEF FlowsKnown
  <2>3. CASE j # i
    BY <2>1, <2>2, <2>3, <1>b, <1>c, <1>d
  <2>4. CASE j = i
    <3>1. reader'[i] = "close" \/ (udp' = "closeSocket" /\ forwarding = i)
      BY <1>a DEF UdpType
    <3> QED
      BY <2>4, <3>1
  <2> QED
    BY <2>3, <2>4
<1> QED
  BY <1>1, <1>2, <1>3, <1>4, <1>5 DEF UdpInv

\* Closing the sockets that were taken out of the map.
LEMMA Closing ==
    ASSUME UdpInv, NEW is, closeSockets(is), \A i \in is : i \in Sockets /\ sock[i] # "none",
           UNCHANGED <<flows, closed, key>>,
           \/ /\ udp = "closeSocket" /\ is = {forwarding} /\ udp' = "accept" /\ forwarding' = NoFlow
              /\ UNCHANGED <<cleanup, expired, toClose, reader>>
           \/ /\ udp = "close" /\ is = toClose /\ toClose' = {} /\ udp' = "wait"
              /\ UNCHANGED <<forwarding, cleanup, expired, reader>>
           \/ /\ cleanup = "close" /\ is = expired /\ expired' = {} /\ cleanup' = "run"
              /\ UNCHANGED <<udp, forwarding, toClose, reader>>
           \/ \E i \in Sockets : /\ reader[i] = "close" /\ is = {i}
                                 /\ reader' = [reader EXCEPT ![i] = "done"]
                                 /\ UNCHANGED <<udp, forwarding, cleanup, expired, toClose>>
    PROVE  UdpInv'
<1>a. UdpType /\ FlowsKnown /\ FlowPhases /\ FlowLimit /\ NoOrphanSocket
  BY DEF UdpInv
<1>b. /\ sock' \in [Sockets -> SocketStates]
      /\ \A i \in Sockets : sock'[i] = IF i \in is THEN "closed" ELSE sock[i]
  BY <1>a, SocketsClosed
<1>c. \A i \in Sockets : sock'[i] = "none" <=> sock[i] = "none"
  BY <1>b
<1>d. \A i \in Sockets : sock'[i] = "open" => sock[i] = "open" /\ i \notin is
  BY <1>b
<1>e. /\ reader' \in [Sockets -> ReaderStates]
      /\ \A j \in Sockets : reader'[j] = reader[j] \/ (j \in is /\ reader[j] = "close" /\ reader'[j] = "done")
  BY <1>a DEF UdpType, ReaderStates
<1>f. 0 \in 0..MaxSockets
  BY ProxyAssumption
<1>1. UdpType'
  BY <1>a, <1>b, <1>e, <1>f DEF UdpType, NoFlow
<1>2. FlowsKnown'
  <2>1. \A i \in Sockets : sock'[i] # "none" => key[i] \in Keys
    BY <1>a, <1>c DEF FlowsKnown
  <2>2. \A i \in Sockets : sock'[i] = "none" <=> reader'[i] = "none"
    BY <1>a, <1>c, <1>e DEF FlowsKnown
  <2>3. \A k \in Keys : flows[k] # NoFlow => sock'[flows[k]] # "none"
    <3>1. \A k \in Keys : flows[k] # NoFlow => flows[k] \in Sockets
      BY <1>a, ProxyAssumption DEF UdpType, Sockets, NoFlow
    <3> QED
      BY <3>1, <1>a, <1>c DEF FlowsKnown
  <2>4. udp' \in {"write", "remove", "closeSocket"} =>
           forwarding' \in Sockets /\ sock'[forwarding'] # "none"
    BY <1>a, <1>c DEF FlowsKnown
  <2>5. \A i \in expired' \cup toClose' : sock'[i] # "none"
    <3>1. \A i \in expired \cup toClose : i \in Sockets /\ sock[i] # "none"
      BY <1>a DEF FlowsKnown, UdpType
    <3> QED
      BY <3>1, <1>c
  <2> QED
    BY <2>1, <2>2, <2>3, <2>4, <2>5 DEF FlowsKnown
<1>3. FlowPhases'
  <2>1. udp' \in {"off", "resolve", "waitReady"} =>
           udp' = udp /\ cleanup' = "off" /\ \A i \in Sockets : sock'[i] = "none"
    BY <1>a, <1>c DEF FlowPhases
  <2>2. udp' = "done" =>
          /\ cleanup' \in {"off", "done"}
          /\ \A i \in Sockets : sock'[i] # "open" /\ reader'[i] \in {"none", "done"}
    BY <1>a, <1>d, <1>e DEF FlowPhases
  <2>3. udp' \in {"off", "resolve", "waitReady", "close", "wait", "done"} =>
           \A k \in Keys : flows[k] = NoFlow
    BY <1>a DEF FlowPhases
  <2>4. udp' # "close" => toClose' = {}
    BY <1>a DEF FlowPhases
  <2>5. cleanup' # "close" => expired' = {}
    BY <1>a DEF FlowPhases
  <2> QED
    BY <2>1, <2>2, <2>3, <2>4, <2>5 DEF FlowPhases
<1>4. FlowLimit'
  BY <1>a, LimitShrinks
<1>5. NoOrphanSocket'
  <2> SUFFICES ASSUME NEW j \in Sockets, sock'[j] = "open"
               PROVE  \/ flows[key[j]] = j
                      \/ j \in expired' \cup toClose'
                      \/ udp' = "closeSocket" /\ forwarding' = j
                      \/ reader'[j] = "close"
    BY DEF NoOrphanSocket
  <2>1. sock[j] = "open" /\ j \notin is
    BY <1>d
  <2>2. \/ flows[key[j]] = j \/ j \in expired \cup toClose
        \/ (udp = "closeSocket" /\ forwarding = j) \/ reader[j] = "close"
    BY <2>1, <1>a DEF NoOrphanSocket
  <2> QED
    BY <2>1, <2>2, <1>e
<1> QED
  BY <1>1, <1>2, <1>3, <1>4, <1>5 DEF UdpInv

\* forward with a new flow.
LEMMA NewFlow ==
    ASSUME UdpInv, NEW k \in Keys, NEW i \in Sockets, udp = "select", flows[k] = NoFlow, FlowSlot,
           sock[i] = "none",
           flows' = [flows EXCEPT ![k] = i], sock' = [sock EXCEPT ![i] = "open"],
           key' = [key EXCEPT ![i] = k], reader' = [reader EXCEPT ![i] = "read"],
           forwarding' = i, udp' = "write",
           UNCHANGED <<cleanup, expired, closed, toClose>>
    PROVE  UdpInv'
<1>a. UdpType /\ FlowsKnown /\ FlowPhases /\ FlowLimit /\ NoOrphanSocket
  BY DEF UdpInv
<1>b. i \in 0..MaxSockets /\ i # NoFlow
  BY ProxyAssumption DEF Sockets, NoFlow
<1>c. /\ flows' \in [Keys -> 0..MaxSockets] /\ flows'[k] = i
      /\ \A j \in Keys : j # k => flows'[j] = flows[j]
  BY <1>a, <1>b DEF UdpType
<1>d. /\ sock' \in [Sockets -> SocketStates] /\ sock'[i] = "open"
      /\ \A j \in Sockets : j # i => sock'[j] = sock[j]
  BY <1>a DEF UdpType, SocketStates
<1>e. /\ key' \in [Sockets -> Keys \cup {NoFlow}] /\ key'[i] = k
      /\ \A j \in Sockets : j # i => key'[j] = key[j]
  BY <1>a DEF UdpType
<1>f. /\ reader' \in [Sockets -> ReaderStates] /\ reader'[i] = "read"
      /\ \A j \in Sockets : j # i => reader'[j] = reader[j]
  BY <1>a DEF UdpType, ReaderStates
<1>1. UdpType'
  BY <1>a, <1>b, <1>c, <1>d, <1>e, <1>f DEF UdpType
<1>2. FlowsKnown'
  <2>1. \A j \in Sockets : sock'[j] # "none" => key'[j] \in Keys
    BY <1>a, <1>d, <1>e DEF FlowsKnown
  <2>2. \A j \in Sockets : sock'[j] = "none" <=> reader'[j] = "none"
    BY <1>a, <1>d, <1>f DEF FlowsKnown
  <2>3. \A j \in Keys : flows'[j] # NoFlow => sock'[flows'[j]] # "none"
    <3>1. \A j \in Keys : flows[j] # NoFlow => flows[j] \in Sockets
      BY <1>a, ProxyAssumption DEF UdpType, Sockets, NoFlow
    <3> QED
      BY <3>1, <1>a, <1>c, <1>d DEF FlowsKnown
  <2>4. \A j \in expired \cup toClose : sock'[j] # "none"
    <3>1. \A j \in expired \cup toClose : j \in Sockets /\ sock[j] # "none"
      BY <1>a DEF FlowsKnown, UdpType
    <3> QED
      BY <3>1, <1>d
  <2> QED
    BY <2>1, <2>2, <2>3, <2>4, <1>d DEF FlowsKnown
<1>3. FlowPhases'
  BY <1>a DEF FlowPhases
<1>4. FlowLimit'
  BY <1>a, <1>c, LimitGrows
<1>5. NoOrphanSocket'
  <2> SUFFICES ASSUME NEW j \in Sockets, sock'[j] = "open"
               PROVE  \/ flows'[key'[j]] = j
                      \/ j \in expired \cup toClose
                      \/ udp' = "closeSocket" /\ forwarding' = j
                      \/ reader'[j] = "close"
    BY DEF NoOrphanSocket
  <2>1. CASE j = i
    BY <2>1, <1>c, <1>e
  <2>2. CASE j # i
    <3>1. sock[j] = "open" /\ key[j] \in Keys
      BY <2>2, <1>a, <1>d DEF FlowsKnown
    <3>2. flows[key[j]] = j \/ j \in expired \cup toClose \/ reader[j] = "close"
      BY <3>1, <1>a DEF NoOrphanSocket
    <3>3. flows[key[j]] = j => key[j] # k
      BY ProxyAssumption DEF Sockets, NoFlow
    <3> QED
      BY <2>2, <3>1, <3>2, <3>3, <1>c, <1>e, <1>f
  <2> QED
    BY <2>1, <2>2
<1> QED
  BY <1>1, <1>2, <1>3, <1>4, <1>5 DEF UdpInv

\* Taking a set of flows out of the map at once: the deferred close, or a tick of
\* the cleanup loop.
LEMMA Eviction ==
    ASSUME UdpInv, NEW gone \in SUBSET InUse, UNCHANGED <<forwarding, sock, key, reader>>,
           closed' \in BOOLEAN,
           flows' = [k \in Keys |-> IF k \in gone THEN NoFlow ELSE flows[k]],
           \/ /\ udp \in {"accept", "select"} /\ udp' = "close" /\ gone = InUse
              /\ toClose' = {flows[k] : k \in gone} /\ UNCHANGED <<cleanup, expired>>
           \/ /\ cleanup = "run" /\ cleanup' = "close" /\ gone # {}
              /\ expired' = {flows[k] : k \in gone} /\ UNCHANGED <<udp, toClose>>
    PROVE  UdpInv'
<1>a. UdpType /\ FlowsKnown /\ FlowPhases /\ FlowLimit /\ NoOrphanSocket
  BY DEF UdpInv
<1>b. /\ flows' \in [Keys -> 0..MaxSockets]
      /\ \A k \in Keys : flows'[k] = IF k \in gone THEN NoFlow ELSE flows[k]
  BY <1>a, ProxyAssumption DEF UdpType, NoFlow
<1>c. \A k \in gone : k \in Keys /\ flows[k] # NoFlow /\ flows[k] \in Sockets /\ sock[flows[k]] # "none"
  BY <1>a, ProxyAssumption DEF InUse, UdpType, FlowsKnown, Sockets, NoFlow
<1>d. /\ udp' = udp \/ (udp \in {"accept", "select"} /\ udp' = "close" /\ gone = InUse)
      /\ expired' = expired \/ (expired = {} /\ expired' = {flows[k] : k \in gone})
      /\ toClose' = toClose \/ (toClose = {} /\ toClose' = {flows[k] : k \in gone})
  BY <1>a DEF FlowPhases
<1>1. UdpType'
  <2>1. {flows[k] : k \in gone} \subseteq Sockets
    BY <1>c
  <2> QED
    BY <1>a, <1>b, <2>1 DEF UdpType
<1>2. FlowsKnown'
  <2>1. \A k \in Keys : flows'[k] # NoFlow => sock[flows'[k]] # "none"
    BY <1>a, <1>b DEF FlowsKnown
  <2>2. \A i \in expired' \cup toClose' : sock[i] # "none"
    BY <1>a, <1>c, <1>d DEF FlowsKnown
  <2> QED
    BY <1>a, <1>d, <2>1, <2>2 DEF FlowsKnown
<1>3. FlowPhases'
  <2>1. udp' \in {"off", "resolve", "waitReady"} => udp' = udp /\ cleanup' = "off"
    BY <1>a, <1>c DEF FlowPhases
  <2>2. udp' # "done"
    BY <1>a, <1>c DEF FlowPhases
  <2>3. udp' \in {"off", "resolve", "waitReady", "close", "wait", "done"} =>
           \A k \in Keys : flows'[k] = NoFlow
    BY <1>a, <1>b, <1>d DEF FlowPhases, InUse
  <2>4. (udp' # "close" => toClose' = {}) /\ (cleanup' # "close" => expired' = {})
    BY <1>a DEF FlowPhases
  <2> QED
    BY <1>a, <2>1, <2>2, <2>3, <2>4 DEF FlowPhases
<1>4. FlowLimit'
  BY <1>a, <1>b, LimitShrinks
<1>5. NoOrphanSocket'
  <2> SUFFICES ASSUME NEW j \in Sockets, sock[j] = "open"
               PROVE  \/ flows'[key[j]] = j
                      \/ j \in expired' \cup toClose'
                      \/ udp' = "closeSocket" /\ forwarding = j
                      \/ reader[j] = "close"
    BY DEF NoOrphanSocket
  <2>1. \/ flows[key[j]] = j \/ j \in expired \cup toClose
        \/ (udp = "closeSocket" /\ forwarding = j) \/ reader[j] = "close"
    BY <1>a DEF NoOrphanSocket
  <2>2. key[j] \in Keys
    BY <1>a DEF FlowsKnown
  <2>3. CASE flows[key[j]] = j
    <3>1. CASE key[j] \in gone
      BY <2>3, <3>1
    <3>2. CASE key[j] \notin gone
      BY <2>2, <2>3, <3>2, <1>b
    <3> QED
      BY <3>1, <3>2
  <2>4. CASE j \in expired \cup toClose \/ (udp = "closeSocket" /\ forwarding = j) \/ reader[j] = "close"
    BY <2>4, <1>d
  <2> QED
    BY <2>1, <2>3, <2>4
<1> QED
  BY <1>1, <1>2, <1>3, <1>4, <1>5 DEF UdpInv

\* A step that leaves the map and the sockets alone.
LEMMA QuietStep ==
    ASSUME UdpInv, UNCHANGED <<expired, flows, closed, toClose, sock, key>>,
           reader' \in [Sockets -> ReaderStates],
           \A i \in Sockets : /\ reader[i] = "none" <=> reader'[i] = "none"
                              /\ reader[i] = "close" => reader'[i] = "close"
                              /\ udp = "done" => reader'[i] = reader[i],
           forwarding' \in 0..MaxSockets,
           udp' \in {"write", "remove", "closeSocket"} =>
               forwarding' \in Sockets /\ sock[forwarding'] # "none",
           \/ UNCHANGED <<udp, forwarding, cleanup>>
           \/ udp = "resolve" /\ udp' = "waitReady" /\ UNCHANGED cleanup
           \/ udp \in {"resolve", "waitReady"} /\ udp' = "done" /\ UNCHANGED <<cleanup, reader>>
           \/ udp = "waitReady" /\ udp' = "accept" /\ cleanup' = "run"
           \/ udp = "accept" /\ udp' = "select" /\ UNCHANGED cleanup
           \/ udp = "select" /\ udp' \in {"accept", "write"} /\ UNCHANGED cleanup
           \/ udp = "write" /\ udp' \in {"accept", "remove"} /\ UNCHANGED cleanup
           \/ /\ udp = "wait" /\ udp' = "done" /\ cleanup = "done" /\ UNCHANGED <<cleanup, reader>>
              /\ \A i \in Sockets : reader[i] \in {"none", "done"}
           \/ cleanup = "run" /\ cleanup' = "done" /\ UNCHANGED <<udp, forwarding>>
    PROVE  UdpInv'
<1>a. UdpType /\ FlowsKnown /\ FlowPhases /\ FlowLimit /\ NoOrphanSocket
  BY DEF UdpInv
<1>1. UdpType'
  BY <1>a DEF UdpType
<1>2. FlowsKnown'
  BY <1>a DEF FlowsKnown
<1>3. FlowPhases'
  <2>1. udp' \in {"off", "resolve", "waitReady"} =>
           cleanup' = "off" /\ \A i \in Sockets : sock[i] = "none"
    BY <1>a DEF FlowPhases
  <2>2. ASSUME udp' = "done"
        PROVE  /\ cleanup' \in {"off", "done"}
               /\ \A i \in Sockets : sock[i] # "open" /\ reader'[i] \in {"none", "done"}
    <3>1. CASE udp = "done"
      BY <2>2, <3>1, <1>a DEF FlowPhases
    <3>2. CASE udp \in {"resolve", "waitReady"}
      BY <2>2, <3>2, <1>a DEF FlowPhases, FlowsKnown
    <3>3. CASE udp = "wait"
      <4>1. cleanup = "done" /\ reader' = reader /\ \A i \in Sockets : reader[i] \in {"none", "done"}
        BY <2>2, <3>3
      <4>2. expired = {} /\ toClose = {} /\ \A k \in Keys : flows[k] = NoFlow
        BY <3>3, <4>1, <1>a DEF FlowPhases
      <4>3. \A i \in Sockets : sock[i] = "open" => FALSE
        <5> SUFFICES ASSUME NEW i \in Sockets, sock[i] = "open" PROVE FALSE
          OBVIOUS
        <5>1. flows[key[i]] = i
          BY <3>3, <4>1, <4>2, <1>a DEF NoOrphanSocket
        <5>2. key[i] \in Keys
          BY <1>a DEF FlowsKnown
        <5> QED
          BY <5>1, <5>2, <4>2, ProxyAssumption DEF Sockets, NoFlow
      <4> QED
        BY <2>2, <3>3, <4>1, <4>3
    <3> QED
      BY <2>2, <3>1, <3>2, <3>3
  <2>3. udp' \in {"off", "resolve", "waitReady", "close", "wait", "done"} =>
           \A k \in Keys : flows[k] = NoFlow
    BY <1>a DEF FlowPhases
  <2>4. (udp' # "close" => toClose = {}) /\ (cleanup' # "close" => expired = {})
    BY <1>a DEF FlowPhases
  <2> QED
    BY <2>1, <2>2, <2>3, <2>4 DEF FlowPhases
<1>4. FlowLimit'
  BY <1>a, LimitShrinks
<1>5. NoOrphanSocket'
  BY <1>a DEF NoOrphanSocket
<1> QED
  BY <1>1, <1>2, <1>3, <1>4, <1>5 DEF UdpInv

\* A step of the UDP worker, its cleanup loop or a reader.
udpAction == \/ udpStep \/ udpReady \/ AcceptDatagram \/ \E k \in Keys : forward(k)
             \/ cleanupExit \/ cleanupTick \/ cleanupClose
             \/ \E i \in Sockets : readerStep(i) \/ readerRead(i)

\* The UDP part of the invariant is preserved.
LEMMA UdpNext == ASSUME MainType, UdpInv, udpAction \/ UNCHANGED udpVars PROVE UdpInv'
<1>a. UdpType /\ FlowsKnown /\ FlowPhases
  BY DEF UdpInv
<1>b. 0 \in 0..MaxSockets /\ Sockets \subseteq 0..MaxSockets
  BY ProxyAssumption DEF Sockets
<1>c. ASSUME UNCHANGED flowVars
      PROVE  /\ UNCHANGED <<flows, closed, toClose, sock, key, reader>>
             /\ reader' \in [Sockets -> ReaderStates]
  BY <1>a, <1>c DEF flowVars, UdpType
<1>1. CASE udpResolve \/ udpNotReady
  BY <1>1, <1>a, <1>c, QuietStep DEF udpResolve, udpNotReady, UdpType
<1>2. CASE udpReady \/ AcceptDatagram
  BY <1>2, <1>a, <1>c, QuietStep DEF udpReady, AcceptDatagram, UdpType
<1>3. CASE forwardWrite
  BY <1>3, <1>a, <1>b, <1>c, QuietStep DEF forwardWrite, UdpType, FlowsKnown, NoFlow
<1>4. CASE forwardRemove
  <2>1. forwarding \in Sockets /\ sock[forwarding] # "none"
    BY <1>4, <1>a DEF forwardRemove, FlowsKnown
  <2> QED
    BY <1>4, <2>1, Removal DEF forwardRemove
<1>5. CASE forwardClose
  <2>1. forwarding \in Sockets /\ sock[forwarding] # "none"
    BY <1>5, <1>a DEF forwardClose, FlowsKnown
  <2> QED
    BY <1>5, <2>1, Closing DEF forwardClose
<1>6. CASE udpAcceptError
  <2>1. flows' = [k \in Keys |-> IF k \in InUse THEN NoFlow ELSE flows[k]]
    BY <1>6, <1>a DEF udpAcceptError, InUse, UdpType
  <2>2. InUse \in SUBSET InUse /\ closed' \in BOOLEAN
    BY <1>6 DEF udpAcceptError
  <2> QED
    BY <1>6, <2>1, <2>2, Eviction DEF udpAcceptError
<1>7. CASE managerClose
  <2>1. \A i \in toClose : i \in Sockets /\ sock[i] # "none"
    BY <1>a DEF UdpType, FlowsKnown
  <2> QED
    BY <1>7, <2>1, Closing DEF managerClose
<1>8. CASE udpWait
  BY <1>8, <1>a, <1>c, QuietStep DEF udpWait, UdpType
<1>9. ASSUME NEW k \in Keys, forward(k) PROVE UdpInv'
  <2>1. CASE flows[k] # NoFlow
    <3>1. flows[k] \in Sockets /\ sock[flows[k]] # "none"
      BY <2>1, <1>a, ProxyAssumption DEF UdpType, FlowsKnown, Sockets, NoFlow
    <3>2. /\ forwarding' = flows[k] /\ udp' = "write" /\ udp = "select"
          /\ UNCHANGED <<flows, sock, key, reader, cleanup, expired, closed, toClose>>
      BY <1>9, <2>1 DEF forward
    <3> QED
      BY <3>1, <3>2, <1>a, <1>b, QuietStep DEF UdpType
  <2>2. CASE flows[k] = NoFlow /\ udp' = "accept"
    <3>1. /\ udp = "select"
          /\ UNCHANGED <<forwarding, flows, sock, key, reader, cleanup, expired, closed, toClose>>
      BY <1>9, <2>2 DEF forward
    <3> QED
      BY <2>2, <3>1, <1>a, <1>b, QuietStep DEF UdpType
  <2>3. CASE flows[k] = NoFlow /\ udp' = "write"
    <3>1. PICK i \in 1..setup.sockets :
              /\ sock[i] = "none"
              /\ flows' = [flows EXCEPT ![k] = i] /\ sock' = [sock EXCEPT ![i] = "open"]
              /\ key' = [key EXCEPT ![i] = k] /\ reader' = [reader EXCEPT ![i] = "read"]
              /\ forwarding' = i /\ udp' = "write"
      BY <1>9, <2>3 DEF forward
    <3>2. setup.sockets \in 0..MaxSockets
      BY ProxyAssumption DEF MainType
    <3>3. i \in Sockets
      BY <3>2, ProxyAssumption DEF Sockets
    <3> QED
      BY <1>9, <2>3, <3>1, <3>3, NewFlow DEF forward
  <2> QED
    BY <1>9, <2>1, <2>2, <2>3 DEF forward
<1>10. CASE cleanupExit
  BY <1>10, <1>a, <1>c, QuietStep DEF cleanupExit, UdpType, FlowsKnown
<1>11. CASE cleanupTick
  <2>1. PICK idle \in (SUBSET InUse) \ {{}} :
            /\ expired' = {flows[k] : k \in idle}
            /\ flows' = [k \in Keys |-> IF k \in idle THEN NoFlow ELSE flows[k]]
    BY <1>11 DEF cleanupTick
  <2>2. closed' \in BOOLEAN /\ idle \in SUBSET InUse /\ idle # {}
    BY <1>11, <2>1, <1>a DEF cleanupTick, UdpType
  <2> QED
    BY <1>11, <2>1, <2>2, Eviction DEF cleanupTick
<1>12. CASE cleanupClose
  <2>1. \A i \in expired : i \in Sockets /\ sock[i] # "none"
    BY <1>a DEF UdpType, FlowsKnown
  <2> QED
    BY <1>12, <2>1, Closing DEF cleanupClose
<1>13. ASSUME NEW i \in Sockets, readerRead(i) \/ readerCheck(i) \/ readerSend(i) PROVE UdpInv'
  <2>1. PICK to \in {"read", "check", "send", "remove", "done"} : reader' = [reader EXCEPT ![i] = to]
    BY <1>13 DEF readerRead, readerCheck, readerSend
  <2>2. reader[i] \in {"read", "check", "send"} /\ UNCHANGED <<udp, forwarding, cleanup, expired, flows,
                                                               closed, toClose, sock, key>>
    BY <1>13 DEF readerRead, readerCheck, readerSend
  <2>3. udp # "done"
    BY <1>a, <2>2 DEF FlowPhases
  <2>4. /\ reader' \in [Sockets -> ReaderStates]
        /\ \A j \in Sockets : /\ reader[j] = "none" <=> reader'[j] = "none"
                              /\ reader[j] = "close" => reader'[j] = "close"
    BY <2>1, <2>2, <1>a DEF UdpType, ReaderStates
  <2> QED
    BY <2>2, <2>3, <2>4, <1>a, QuietStep DEF UdpType, FlowsKnown
<1>14. ASSUME NEW i \in Sockets, readerRemove(i) PROVE UdpInv'
  <2>1. sock[i] # "none"
    BY <1>14, <1>a DEF readerRemove, FlowsKnown
  <2> QED
    BY <1>14, <2>1, Removal DEF readerRemove
<1>15. ASSUME NEW i \in Sockets, readerClose(i) PROVE UdpInv'
  <2>1. sock[i] # "none"
    BY <1>15, <1>a DEF readerClose, FlowsKnown
  <2> QED
    BY <1>15, <2>1, Closing DEF readerClose
<1>16. CASE UNCHANGED udpVars
  BY <1>16, <1>a, QuietStep DEF udpVars, UdpType, FlowsKnown
<1> QED
  BY <1>1, <1>2, <1>3, <1>4, <1>5, <1>6, <1>7, <1>8, <1>9, <1>10, <1>11, <1>12, <1>13, <1>14, <1>15,
     <1>16 DEF udpAction, udpStep, readerStep

----------------------------------------------------------------------------
(* The whole.                                                              *)

mainAction == mainStep \/ cancel \/ exposureEnds \/ exposureRevives

\* Each part of the program leaves the others' state alone.
LEMMA ProxyFrames ==
    ASSUME [Next]_vars
    PROVE  \/ mainAction /\ UNCHANGED <<tcpVars, udpVars, setup, results>>
           \/ tcpAction /\ UNCHANGED <<udpVars, setup, exposure, ctx, proxyCtx, main>>
           \/ udpAction /\ UNCHANGED <<tcpVars, setup, exposure, ctx, proxyCtx, main>>
           \/ UNCHANGED vars
<1>1. mainAction => UNCHANGED <<tcpVars, udpVars, setup, results>>
  BY DEF mainAction, mainStep, mainSelect, mainClose, mainReturn, cancel, exposureEnds,
         exposureRevives
<1>2. tcpAction => UNCHANGED <<udpVars, setup, exposure, ctx, proxyCtx, main>>
  BY DEF tcpAction, tcpStep, tcpAcceptError, tcpCloseAll, tcpWait, afterFuncMark, afterFuncClose,
         tcpAccept, pairStep, pairDial, setLocal, pairDone, pairCopied, notPair, notTcp
<1>3. udpAction => UNCHANGED <<tcpVars, setup, exposure, ctx, proxyCtx, main>>
  BY DEF udpAction, udpStep, udpResolve, udpNotReady, forwardWrite, forwardRemove, forwardClose,
         udpAcceptError, managerClose, udpWait, udpReady, AcceptDatagram, forward, cleanupExit, cleanupTick,
         cleanupClose, readerStep, readerCheck, readerSend, readerRemove, readerClose, readerRead,
         notUdp
<1> QED
  BY <1>1, <1>2, <1>3 DEF Next, mainAction, tcpAction, udpAction

\* A worker's result is in results exactly when it is done.
LEMMA WorkerResults ==
    ASSUME MainType, UdpInv, ResultsSent
    PROVE  /\ tcpAction => \/ results' = results /\ tcp # "done" /\ tcp' # "done" /\ tcp # "off"
                              /\ tcp' # "off"
                           \/ results' = results \cup {"tcp"} /\ tcp = "wait" /\ tcp' = "done"
                           \/ results' = results /\ tcp' = tcp
           /\ udpAction => \/ results' = results /\ udp # "done" /\ udp' # "done" /\ udp # "off"
                              /\ udp' # "off"
                           \/ results' = results \cup {"udp"} /\ udp \notin {"off", "done"}
                              /\ udp' = "done"
                           \/ results' = results /\ udp' = udp
<1>1. tcpAction => \/ results' = results /\ tcp # "done" /\ tcp' # "done" /\ tcp # "off" /\ tcp' # "off"
                   \/ results' = results \cup {"tcp"} /\ tcp = "wait" /\ tcp' = "done"
                   \/ results' = results /\ tcp' = tcp
  BY DEF tcpAction, tcpStep, tcpAcceptError, tcpCloseAll, tcpWait, afterFuncMark, afterFuncClose,
         tcpAccept, pairStep, pairDial, setLocal, pairDone, pairCopied, notPair
<1>2. udpStep \/ udpReady \/ AcceptDatagram =>
                             \/ results' = results /\ udp # "done" /\ udp' # "done" /\ udp # "off"
                                /\ udp' # "off"
                             \/ /\ results' = results \cup {"udp"} /\ udp \notin {"off", "done"}
                                /\ udp' = "done"
  BY DEF udpStep, udpResolve, udpNotReady, forwardWrite, forwardRemove, forwardClose,
         udpAcceptError, managerClose, udpWait, udpReady, AcceptDatagram
<1>3. ASSUME NEW k \in Keys, forward(k)
      PROVE  results' = results /\ udp = "select" /\ udp' \in {"accept", "write"}
  BY <1>3 DEF forward
<1>4. cleanupExit \/ cleanupTick \/ cleanupClose => results' = results /\ udp' = udp
  BY DEF cleanupExit, cleanupTick, cleanupClose
<1>5. ASSUME NEW i \in Sockets, readerStep(i) \/ readerRead(i)
      PROVE  results' = results /\ udp' = udp
  BY <1>5 DEF readerStep, readerCheck, readerSend, readerRemove, readerClose, readerRead
<1>6. udpAction => \/ results' = results /\ udp # "done" /\ udp' # "done" /\ udp # "off" /\ udp' # "off"
                   \/ results' = results \cup {"udp"} /\ udp \notin {"off", "done"} /\ udp' = "done"
                   \/ results' = results /\ udp' = udp
  BY <1>2, <1>3, <1>4, <1>5 DEF udpAction
<1> QED
  BY <1>1, <1>6

\* The invariant is inductive.
LEMMA ProxyInvariant == Spec => []ProxyInv
<1>1. ASSUME ProxyInv, [Next]_vars PROVE ProxyInv'
  <2>a. MainType /\ TcpInv /\ UdpInv /\ ResultsSent
    BY <1>1 DEF ProxyInv
  <2>1. TcpInv'
    BY <1>1, <2>a, ProxyFrames, TcpNext DEF vars
  <2>2. UdpInv'
    BY <1>1, <2>a, ProxyFrames, UdpNext DEF vars
  <2>3. CASE mainAction /\ UNCHANGED <<tcpVars, udpVars, setup, results>>
    <3>1. UNCHANGED <<tcp, udp>>
      BY <2>3 DEF tcpVars, udpVars
    <3>2. MainType'
      BY <2>3, <2>a DEF MainType, mainAction, mainStep, mainSelect, mainClose, mainReturn, cancel,
                        exposureEnds, exposureRevives
    <3>3. main' = "returned" => results = setup.targets
      BY <2>3, <2>a DEF ResultsSent, mainAction, mainStep, mainSelect, mainClose, mainReturn, cancel,
                        exposureEnds, exposureRevives, Workers
    <3>4. ResultsSent'
      BY <2>3, <2>a, <3>1, <3>3 DEF ResultsSent
    <3> QED
      BY <3>2, <3>4, <2>1, <2>2 DEF ProxyInv
  <2>4. CASE tcpAction /\ UNCHANGED <<udpVars, setup, exposure, ctx, proxyCtx, main>>
    <3>1. udp' = udp
      BY <2>4 DEF udpVars
    <3>2. MainType' /\ ResultsSent'
      <4>1. CASE results' = results
        BY <2>4, <2>a, <3>1, <4>1, WorkerResults DEF MainType, ResultsSent
      <4>2. CASE results' = results \cup {"tcp"} /\ tcp = "wait" /\ tcp' = "done"
        BY <2>4, <2>a, <3>1, <4>2 DEF MainType, ResultsSent
      <4> QED
        BY <2>4, <2>a, <4>1, <4>2, WorkerResults
    <3> QED
      BY <3>2, <2>1, <2>2 DEF ProxyInv
  <2>5. CASE udpAction /\ UNCHANGED <<tcpVars, setup, exposure, ctx, proxyCtx, main>>
    <3>1. tcp' = tcp
      BY <2>5 DEF tcpVars
    <3>2. MainType' /\ ResultsSent'
      <4>1. CASE results' = results
        BY <2>5, <2>a, <3>1, <4>1, WorkerResults DEF MainType, ResultsSent
      <4>2. CASE results' = results \cup {"udp"} /\ udp \notin {"off", "done"} /\ udp' = "done"
        BY <2>5, <2>a, <3>1, <4>2 DEF MainType, ResultsSent
      <4> QED
        BY <2>5, <2>a, <4>1, <4>2, WorkerResults
    <3> QED
      BY <3>2, <2>1, <2>2 DEF ProxyInv
  <2>6. CASE UNCHANGED vars
    <3>1. MainType' /\ ResultsSent'
      BY <2>6, <2>a DEF vars, mainVars, tcpVars, udpVars, MainType, ResultsSent
    <3> QED
      BY <3>1, <2>1, <2>2 DEF ProxyInv
  <2> QED
    BY <1>1, <2>3, <2>4, <2>5, <2>6, ProxyFrames
<1> QED
  BY <1>1, ProxyInvInit, PTL DEF Spec

\* The state is well typed, and the flow map never exceeds its limit (forward).
THEOREM ProxyTypeCorrect == Spec => []TypeOK
BY ProxyInvariant, ProxyInvImplies, PTL

\* However removals, expiries and replacements of flows interleave, an open local
\* socket is in the map or in the hands of someone about to close it (forward,
\* remove, close, cleanupLoop, readResponses).
THEOREM NoSocketOrphaned == Spec => []NoOrphanSocket
BY ProxyInvariant, ProxyInvImplies, PTL

\* ProxyWithConfig returns with every goroutine ended and every socket closed or in
\* the hands of the AfterFunc (runTCPProxy, proxyPair, runUDPProxy).
THEOREM ProxyReturnsClean == Spec => []ReturnsClean
BY ProxyInvariant, ProxyInvImplies, PTL

=============================================================================
