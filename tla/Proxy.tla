-------------------------------- MODULE Proxy --------------------------------
(***************************************************************************)
(* ProxyWithConfig and its workers: runTCPProxy with one goroutine and one *)
(* proxyPair per accepted connection, and runUDPProxy with its flow        *)
(* manager: a map from flow keys to local UDP sockets, a reader per socket *)
(* and the cleanup loop.  The Exposure is reduced to what the proxy sees   *)
(* of it: it is live, exhausted (ErrNoRelays) or closed (net.ErrClosed).   *)
(***************************************************************************)
EXTENDS Integers, FiniteSets

CONSTANTS
    Setups,       \* the configurations and their bounds: records of the targets given (of
                  \* "tcp", "udp"), the tenant connections ever accepted, the flow keys, and
                  \* the number of local UDP sockets ever opened
    Pairs,        \* the tenant connections of all setups
    Keys,         \* the relay/flow pairs of all setups
    MaxFlows,     \* defaultUDPProxyMaxFlows
    MaxSockets    \* the sockets of the largest setup

ASSUME ProxyAssumption ==
    /\ Setups \subseteq [targets : (SUBSET {"tcp", "udp"}) \ {{}},
                         pairs : SUBSET Pairs, keys : SUBSET Keys, sockets : 0..MaxSockets]
    /\ MaxFlows \in Nat \ {0} /\ MaxSockets \in Nat

Sockets == 1..MaxSockets
NoFlow  == 0

VARIABLES
    setup,           \* the configuration in use; it never changes
    exposure,        \* "live", "exhausted" or "closed"
    ctx, proxyCtx,   \* has the caller's context, the proxy's context ended?
    main, results,   \* ProxyWithConfig's position; workers whose result it can receive
    tcp,             \* runTCPProxy's position
    pair, pairClosed,\* per connection: its goroutine's position, proxyPair.closed
    open,            \* the sockets that are open: <<connection, "relay" or "local">>
    afterFunc, afterSockets,  \* the AfterFunc of runTCPProxy; the sockets it has yet to close
    udp, forwarding, \* runUDPProxy's position; the socket forward is writing to
    cleanup, expired,\* cleanupLoop's position; sockets it took out of the map
    flows, closed, toClose,   \* the manager's map and flag; sockets close() took out
    sock, key, reader         \* per socket: state, flow key, position of readResponses

mainVars == <<setup, exposure, ctx, proxyCtx, main, results>>
pairVars == <<pair, pairClosed, open>>
tcpVars  == <<tcp, pairVars, afterFunc, afterSockets>>
udpVars  == <<udp, forwarding, cleanup, expired, flows, closed, toClose, sock, key, reader>>
vars     == <<mainVars, tcpVars, udpVars>>

Init ==
    /\ setup \in Setups
    /\ exposure = "live" /\ ctx = FALSE /\ proxyCtx = FALSE
    /\ main = "select" /\ results = {}
    /\ tcp = IF "tcp" \in setup.targets THEN "accept" ELSE "off"
    /\ pair = [p \in Pairs |-> "none"]
    /\ pairClosed = [p \in Pairs |-> FALSE]
    /\ open = {} /\ afterFunc = "armed" /\ afterSockets = {}
    /\ udp = IF "udp" \in setup.targets THEN "resolve" ELSE "off"
    /\ forwarding = NoFlow
    /\ cleanup = "off" /\ expired = {}
    /\ flows = [k \in Keys |-> NoFlow]
    /\ closed = FALSE /\ toClose = {}
    /\ sock = [i \in Sockets |-> "none"]
    /\ key = [i \in Sockets |-> NoFlow]
    /\ reader = [i \in Sockets |-> "none"]

----------------------------------------------------------------------------
(* ProxyWithConfig.                                                        *)

Workers == setup.targets

\* Mutant: ProxyWithConfig watches the workers only.
mainSelectNoCtx ==
    /\ main = "select"
    /\ results # {}
    /\ proxyCtx' = TRUE
    /\ main' = "close"
    /\ UNCHANGED <<setup, exposure, ctx, results, tcpVars, udpVars>>

\* The context ends or the first worker reports: cancel, then Close.
mainSelect ==
    /\ main = "select"
    /\ ctx \/ results # {}
    /\ proxyCtx' = TRUE
    /\ main' = "close"
    /\ UNCHANGED <<setup, exposure, ctx, results, tcpVars, udpVars>>

mainClose ==
    /\ main = "close"
    /\ exposure' = "closed"
    /\ main' = "collect"
    /\ UNCHANGED <<setup, ctx, proxyCtx, results, tcpVars, udpVars>>

\* Every worker has reported.
mainReturn ==
    /\ main = "collect"
    /\ results = Workers
    /\ main' = "returned"
    /\ UNCHANGED <<setup, exposure, ctx, proxyCtx, results, tcpVars, udpVars>>

\* The caller cancels; the derived context ends with it.
cancel ==
    /\ ~ctx
    /\ ctx' = TRUE /\ proxyCtx' = TRUE
    /\ UNCHANGED <<setup, exposure, main, results, tcpVars, udpVars>>

\* Every relay failed, or somebody closed the exposure.
exposureEnds ==
    /\ \/ exposure = "live" /\ exposure' = "exhausted"
       \/ exposure # "closed" /\ exposure' = "closed"
    /\ UNCHANGED <<setup, ctx, proxyCtx, main, results, tcpVars, udpVars>>

\* Discovery adopts a relay: an exhausted exposure is live again.
exposureRevives ==
    /\ exposure = "exhausted"
    /\ exposure' = "live"
    /\ UNCHANGED <<setup, ctx, proxyCtx, main, results, tcpVars, udpVars>>

----------------------------------------------------------------------------
(* runTCPProxy and proxyConnection.                                        *)

notTcp == <<setup, exposure, ctx, proxyCtx, main, udpVars>>

\* Accept returns a connection: newProxyPair, active.add, go proxyConnection.
tcpAccept(p) ==
    /\ tcp = "accept" /\ exposure = "live"
    /\ p \in setup.pairs /\ pair[p] = "none"
    /\ pair' = [pair EXCEPT ![p] = "dial"]
    /\ open' = open \cup {<<p, "relay">>}
    /\ UNCHANGED <<notTcp, results, tcp, pairClosed, afterFunc, afterSockets>>

tcpAcceptError ==
    /\ tcp = "accept" /\ exposure # "live"
    /\ tcp' = "closeAll"
    /\ UNCHANGED <<notTcp, results, pairVars, afterFunc, afterSockets>>

Active == {p \in Pairs : pair[p] \in {"dial", "setLocal", "copy", "close"}}

\* proxyPair.close of the pairs in ps sets closed, and closes the sockets the
\* pair knew then; it does nothing for a pair that is closed already.
markClosed(ps) == pairClosed' = [p \in Pairs |-> pairClosed[p] \/ p \in ps]
socketsOf(ps)  == {s \in open : /\ s[1] \in ps /\ ~pairClosed[s[1]]
                                /\ s[2] = "local" => pair[s[1]] # "setLocal"}
closePairs(ps) == markClosed(ps) /\ open' = open \ socketsOf(ps)

\* active.closeAll, run once by context.AfterFunc when the proxy's context
\* ends.  Nobody waits for this goroutine, so marking and closing are two steps.
afterFuncMark ==
    /\ proxyCtx /\ afterFunc = "armed" /\ tcp \in {"accept", "closeAll", "wait"}
    /\ markClosed(Active)
    /\ afterSockets' = socketsOf(Active)
    /\ afterFunc' = "closing"
    /\ UNCHANGED <<notTcp, results, tcp, pair, open>>

afterFuncClose ==
    /\ afterFunc = "closing"
    /\ open' = open \ afterSockets
    /\ afterFunc' = "done" /\ afterSockets' = {}
    /\ UNCHANGED <<notTcp, results, tcp, pair, pairClosed>>

\* Mutant: the pairs are not closed when Accept fails.
tcpCloseNone ==
    /\ tcp = "closeAll"
    /\ tcp' = "wait"
    /\ UNCHANGED <<notTcp, results, pairVars, afterFunc, afterSockets>>

tcpCloseAll ==
    /\ tcp = "closeAll"
    /\ closePairs(Active)
    /\ tcp' = "wait"
    /\ UNCHANGED <<notTcp, results, pair, afterFunc, afterSockets>>

\* connections.Wait, then the worker's result is sent.
tcpWait ==
    /\ tcp = "wait"
    /\ \A p \in Pairs : pair[p] \in {"none", "done"}
    /\ tcp' = "done"
    /\ results' = results \cup {"tcp"}
    /\ UNCHANGED <<notTcp, pairVars, afterFunc, afterSockets>>

notPair == <<notTcp, results, tcp, afterFunc, afterSockets>>

\* DialContext: a local connection that the pair does not know yet, or an error.
pairDial(p) ==
    /\ pair[p] = "dial"
    /\ \/ pair' = [pair EXCEPT ![p] = "setLocal"] /\ open' = open \cup {<<p, "local">>}
       \/ pair' = [pair EXCEPT ![p] = "close"] /\ UNCHANGED open
    /\ UNCHANGED <<notPair, pairClosed>>

\* Mutant: setLocal does not look at closed.
setLocalAlways(p) ==
    /\ pair[p] = "setLocal"
    /\ pair' = [pair EXCEPT ![p] = "copy"]
    /\ UNCHANGED <<notPair, open, pairClosed>>

\* setLocal: a pair closed meanwhile closes the new local connection itself.
setLocal(p) ==
    /\ pair[p] = "setLocal"
    /\ IF pairClosed[p]
       THEN pair' = [pair EXCEPT ![p] = "close"] /\ open' = open \ {<<p, "local">>}
       ELSE pair' = [pair EXCEPT ![p] = "copy"] /\ UNCHANGED open
    /\ UNCHANGED <<notPair, pairClosed>>

\* The two copies end: by themselves, or because a socket was closed.
pairCopied(p) ==
    /\ pair[p] = "copy"
    /\ pair' = [pair EXCEPT ![p] = "close"]
    /\ UNCHANGED <<notPair, open, pairClosed>>

\* The deferred pair.close, active.remove and connections.Done.
pairDone(p) ==
    /\ pair[p] = "close"
    /\ closePairs({p})
    /\ pair' = [pair EXCEPT ![p] = "done"]
    /\ UNCHANGED notPair

----------------------------------------------------------------------------
(* runUDPProxy.                                                            *)

notUdp == <<setup, exposure, ctx, proxyCtx, main, tcpVars>>
flowVars == <<flows, closed, toClose, sock, key, reader>>

\* The target resolves, or the worker ends with an error.
udpResolve ==
    /\ udp = "resolve"
    /\ \/ udp' = "waitReady" /\ UNCHANGED results
       \/ udp' = "done" /\ results' = results \cup {"udp"}
    /\ UNCHANGED <<notUdp, forwarding, cleanup, expired, flowVars>>

\* WaitDatagramReady succeeds, if need be while the exposure is closing, and the
\* cleanup loop starts; or the worker ends.
udpReady ==
    /\ udp = "waitReady" /\ exposure # "exhausted"
    /\ udp' = "accept" /\ cleanup' = "run"
    /\ UNCHANGED <<notUdp, results, forwarding, expired, flowVars>>

udpNotReady ==
    /\ udp = "waitReady" /\ (proxyCtx \/ exposure # "live")
    /\ udp' = "done" /\ results' = results \cup {"udp"}
    /\ UNCHANGED <<notUdp, forwarding, cleanup, expired, flowVars>>

\* AcceptDatagram looks at the exposure before it waits, and again at each change.
AcceptDatagram ==
    /\ \/ udp = "accept" /\ exposure = "live" /\ udp' = "select"
       \/ udp = "select" /\ udp' = "accept"
    /\ UNCHANGED <<notUdp, results, forwarding, cleanup, expired, flowVars>>

InUse == {k \in Keys : flows[k] # NoFlow}

\* Mutant: one flow more than the limit.
FlowSlotOffByOne == Cardinality(InUse) <= MaxFlows

\* len(m.flows) < defaultUDPProxyMaxFlows
FlowSlot == Cardinality(InUse) < MaxFlows

\* AcceptDatagram returns a datagram of flow k, which may have been queued when the
\* exposure ended; then forward, locked section: an existing socket, a new one with
\* its reader, or the datagram is dropped at the limit or for want of a socket.
forward(k) ==
    /\ udp = "select" /\ k \in setup.keys
    /\ \/ /\ flows[k] # NoFlow
          /\ forwarding' = flows[k] /\ udp' = "write"
          /\ UNCHANGED <<flows, sock, key, reader>>
       \/ /\ flows[k] = NoFlow
          /\ udp' = "accept"
          /\ UNCHANGED <<forwarding, flows, sock, key, reader>>
       \/ /\ flows[k] = NoFlow /\ FlowSlot
          /\ \E i \in 1..setup.sockets :
               /\ sock[i] = "none" /\ \A j \in 1..(i - 1) : sock[j] # "none"
               /\ flows' = [flows EXCEPT ![k] = i]
               /\ sock' = [sock EXCEPT ![i] = "open"]
               /\ key' = [key EXCEPT ![i] = k]
               /\ reader' = [reader EXCEPT ![i] = "read"]
               /\ forwarding' = i /\ udp' = "write"
    /\ UNCHANGED <<notUdp, results, cleanup, expired, closed, toClose>>

\* forward after the lock: the write succeeds, or remove(flow) follows.
forwardWrite ==
    /\ udp = "write"
    /\ \/ udp' = "accept" /\ forwarding' = NoFlow
       \/ udp' = "remove" /\ UNCHANGED forwarding
    /\ UNCHANGED <<notUdp, results, cleanup, expired, flowVars>>

\* Mutant: whatever flow is in the map goes.
unmapAny(i) == flows' = [flows EXCEPT ![key[i]] = NoFlow]

\* remove, locked section: only the flow itself is taken out of the map.
unmap(i) == flows' = IF flows[key[i]] = i THEN [flows EXCEPT ![key[i]] = NoFlow] ELSE flows

forwardRemove ==
    /\ udp = "remove"
    /\ unmap(forwarding)
    /\ udp' = "closeSocket"
    /\ UNCHANGED <<notUdp, results, forwarding, cleanup, expired, closed, toClose, sock, key, reader>>

closeSockets(is) == sock' = [i \in Sockets |-> IF i \in is THEN "closed" ELSE sock[i]]

forwardClose ==
    /\ udp = "closeSocket"
    /\ closeSockets({forwarding})
    /\ udp' = "accept" /\ forwarding' = NoFlow
    /\ UNCHANGED <<notUdp, results, cleanup, expired, flows, closed, toClose, key, reader>>

\* AcceptDatagram fails: the deferred manager.close, locked section ...
udpAcceptError ==
    /\ udp \in {"accept", "select"} /\ exposure # "live"
    /\ udp' = "close"
    /\ closed' = TRUE
    /\ toClose' = {flows[k] : k \in InUse}
    /\ flows' = [k \in Keys |-> NoFlow]
    /\ UNCHANGED <<notUdp, results, forwarding, cleanup, expired, sock, key, reader>>

\* ... its sockets ...
managerClose ==
    /\ udp = "close"
    /\ closeSockets(toClose)
    /\ toClose' = {} /\ udp' = "wait"
    /\ UNCHANGED <<notUdp, results, forwarding, cleanup, expired, flows, closed, key, reader>>

\* ... and manager.wg.Wait, for the cleanup loop and every reader.
udpWait ==
    /\ udp = "wait"
    /\ cleanup = "done" /\ \A i \in Sockets : reader[i] \in {"none", "done"}
    /\ udp' = "done" /\ results' = results \cup {"udp"}
    /\ UNCHANGED <<notUdp, forwarding, cleanup, expired, flowVars>>

\* cleanupLoop: the context ends ...
cleanupExit ==
    /\ cleanup = "run" /\ proxyCtx
    /\ cleanup' = "done"
    /\ UNCHANGED <<notUdp, results, udp, forwarding, expired, flowVars>>

\* ... or the ticker fires: idle flows leave the map, and are closed after the
\* lock is released.
cleanupTick ==
    /\ cleanup = "run"
    /\ \E idle \in (SUBSET InUse) \ {{}} :
          /\ expired' = {flows[k] : k \in idle}
          /\ flows' = [k \in Keys |-> IF k \in idle THEN NoFlow ELSE flows[k]]
    /\ cleanup' = "close"
    /\ UNCHANGED <<notUdp, results, udp, forwarding, closed, toClose, sock, key, reader>>

cleanupClose ==
    /\ cleanup = "close"
    /\ closeSockets(expired)
    /\ expired' = {} /\ cleanup' = "run"
    /\ UNCHANGED <<notUdp, results, udp, forwarding, flows, closed, toClose, key, reader>>

\* readResponses: Read returns a response, or an error (a closed socket, or
\* what the local target's host reports).
readerRead(i) ==
    /\ reader[i] = "read"
    /\ \/ reader' = [reader EXCEPT ![i] = "remove"]
       \/ sock[i] = "open" /\ reader' = [reader EXCEPT ![i] = "check"]
    /\ UNCHANGED <<notUdp, results, udp, forwarding, cleanup, expired, flows, closed, toClose, sock, key>>

\* The flow was removed or replaced meanwhile: whoever did it closes the socket.
readerCheck(i) ==
    /\ reader[i] = "check"
    /\ reader' = [reader EXCEPT ![i] = IF closed \/ flows[key[i]] # i THEN "done" ELSE "send"]
    /\ UNCHANGED <<notUdp, results, udp, forwarding, cleanup, expired, flows, closed, toClose, sock, key>>

\* SendDatagram succeeds only on a live exposure; its error removes the flow if the
\* exposure is closed or the context has ended, and is ignored otherwise.
readerSend(i) ==
    /\ reader[i] = "send"
    /\ \/ /\ exposure = "live" \/ (exposure = "exhausted" /\ ~proxyCtx)
          /\ reader' = [reader EXCEPT ![i] = "read"]
       \/ /\ exposure = "closed" \/ proxyCtx
          /\ reader' = [reader EXCEPT ![i] = "remove"]
    /\ UNCHANGED <<notUdp, results, udp, forwarding, cleanup, expired, flows, closed, toClose, sock, key>>

readerRemove(i) ==
    /\ reader[i] = "remove"
    /\ unmap(i)
    /\ reader' = [reader EXCEPT ![i] = "close"]
    /\ UNCHANGED <<notUdp, results, udp, forwarding, cleanup, expired, closed, toClose, sock, key>>

readerClose(i) ==
    /\ reader[i] = "close"
    /\ closeSockets({i})
    /\ reader' = [reader EXCEPT ![i] = "done"]
    /\ UNCHANGED <<notUdp, results, udp, forwarding, cleanup, expired, flows, closed, toClose, key>>

----------------------------------------------------------------------------
mainStep    == mainSelect \/ mainClose \/ mainReturn
tcpStep     == tcpAcceptError \/ tcpCloseAll \/ tcpWait
pairStep(p) == pairDial(p) \/ setLocal(p) \/ pairDone(p)
udpStep     == udpResolve \/ udpNotReady \/ forwardWrite \/ forwardRemove \/ forwardClose \/ udpAcceptError
               \/ managerClose \/ udpWait
readerStep(i) == readerCheck(i) \/ readerSend(i) \/ readerRemove(i) \/ readerClose(i)

Next ==
    \/ mainStep \/ cancel \/ exposureEnds \/ exposureRevives
    \/ tcpStep \/ afterFuncMark \/ afterFuncClose
    \/ \E p \in Pairs : tcpAccept(p) \/ pairStep(p) \/ pairCopied(p)
    \/ udpStep \/ udpReady \/ AcceptDatagram
    \/ \E k \in Keys : forward(k)
    \/ cleanupExit \/ cleanupTick \/ cleanupClose
    \/ \E i \in Sockets : readerStep(i) \/ readerRead(i)

\* The goroutines go on; copies and reads end once their socket is closed.
Fairness ==
    /\ WF_vars(mainStep) /\ WF_vars(tcpStep) /\ WF_vars(udpStep) /\ WF_vars(afterFuncClose)
    /\ \A p \in Pairs : WF_vars(pairStep(p)) /\ WF_vars(<<p, "relay">> \notin open /\ pairCopied(p))
    /\ SF_vars(cleanupExit) /\ WF_vars(cleanupClose)
    /\ \A i \in Sockets : WF_vars(readerStep(i)) /\ WF_vars(sock[i] = "closed" /\ readerRead(i))

Spec == Init /\ [][Next]_vars /\ Fairness

----------------------------------------------------------------------------
(* Properties.                                                             *)

\* Types, and the flow map within its limit.
TypeOK ==
    /\ setup \in Setups
    /\ exposure \in {"live", "exhausted", "closed"} /\ ctx \in BOOLEAN /\ proxyCtx \in BOOLEAN
    /\ main \in {"select", "close", "collect", "returned"} /\ results \subseteq {"tcp", "udp"}
    /\ tcp \in {"off", "accept", "closeAll", "wait", "done"}
    /\ pair \in [Pairs -> {"none", "dial", "setLocal", "copy", "close", "done"}]
    /\ pairClosed \in [Pairs -> BOOLEAN]
    /\ open \subseteq Pairs \X {"relay", "local"} /\ afterSockets \subseteq open
    /\ afterFunc \in {"armed", "closing", "done"}
    /\ udp \in {"off", "resolve", "waitReady", "accept", "select", "write", "remove", "closeSocket",
               "close", "wait", "done"}
    /\ forwarding \in 0..MaxSockets /\ cleanup \in {"off", "run", "close", "done"}
    /\ expired \subseteq Sockets /\ toClose \subseteq Sockets /\ closed \in BOOLEAN
    /\ flows \in [Keys -> 0..MaxSockets] /\ Cardinality(InUse) <= MaxFlows
    /\ sock \in [Sockets -> {"none", "open", "closed"}]
    /\ reader \in [Sockets -> {"none", "read", "check", "send", "remove", "close", "done"}]

\* An open local UDP socket is in the map under its own key, or a goroutine
\* that took it out is about to close it: no removal, expiry or replacement of
\* a flow can lose a socket.
NoOrphanSocket ==
    \A i \in Sockets : sock[i] = "open" =>
        \/ flows[key[i]] = i
        \/ i \in expired \cup toClose
        \/ udp = "closeSocket" /\ forwarding = i
        \/ reader[i] = "close"

\* When ProxyWithConfig returns, every socket it opened or was given is closed,
\* or about to be closed by the AfterFunc goroutine that nobody waits for; every
\* other goroutine it started has ended.
ReturnsClean ==
    main = "returned" =>
        /\ \A p \in Pairs : pair[p] \in {"none", "done"}
        /\ open \subseteq afterSockets
        /\ \A i \in Sockets : sock[i] # "open" /\ reader[i] \in {"none", "done"}
        /\ cleanup \in {"off", "done"}

\* Cancelling the caller's context makes ProxyWithConfig return.
CancelReturns == ctx ~> main = "returned"

\* With a TCP target, a closed exposure, or an Accept that failed because every relay
\* had (even if discovery revives the exposure meanwhile), ends the proxy:
\* ProxyWithConfig cancels the UDP worker too, whatever that and its flows are doing.
TCPErrorReturns ==
    tcp = "closeAll" \/ (exposure = "closed" /\ "tcp" \in setup.targets) ~> main = "returned"

\* ProxyWithConfig closes the exposure and returns after the first terminal error
\* of Accept or AcceptDatagram.
TerminalErrorReturns == tcp = "closeAll" \/ udp = "close" ~> main = "returned"
=============================================================================
