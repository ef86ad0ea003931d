------------------------------ MODULE Exposure ------------------------------
(***************************************************************************)
(* The exposure of exposure.go: an aggregate listener over a growing set   *)
(* of relays.  Every section that the code runs under Exposure.mu is one   *)
(* step; what a function does after it has released the lock (publishing   *)
(* an update, running failedOnce, draining) is a step of its own, because  *)
(* other goroutines run in between.                                        *)
(*                                                                         *)
(* The goroutines are: the caller of Expose, one supervisor per relay with *)
(* the reverse-session and datagram workers below it (relaySupervisor.run, *)
(* here an environment that calls markReady, markDatagramReady and offer   *)
(* and finally returns), discovery, the watcher of the parent context, the *)
(* caller of Close, and any number of callers of Accept, WaitReady and     *)
(* WaitDatagramReady.                                                      *)
(***************************************************************************)
EXTENDS Integers, Sequences, FiniteSets

CONSTANTS
    Relays,            \* the canonical relay URLs in existence
    Explicit,          \* ExposeConfig.Relays after NormalizeRelays
    DiscoveryEnabled,  \* ~ExposeConfig.DisableDiscovery
    MaxDiscovered,     \* maxDiscoveredRelays
    UDPEnabled,        \* ExposeConfig.UDPEnabled
    ConnIds,           \* bound: tenant connections each relay ever brings
    AcceptCap,         \* bound: capacity of accepted (2 * capacity in the code)
    FaultyCleanup,     \* bound: the relays whose unregister or signer cleanup may fail
    Acceptors,         \* goroutines that call Accept
    Waiters,           \* goroutines that call WaitReady or WaitDatagramReady
    DatagramWaiters    \* the waiters that call WaitDatagramReady

ASSUME ExplicitAssumption  == Explicit \subseteq Relays /\ Explicit # {}
ASSUME RelaysAssumption    == IsFiniteSet(Relays) /\ "discovery" \notin Relays
ASSUME FlagsAssumption     == DiscoveryEnabled \in BOOLEAN /\ UDPEnabled \in BOOLEAN
ASSUME BoundsAssumption    == /\ MaxDiscovered \in Nat
                              /\ AcceptCap \in Nat \ {0}
                              /\ FaultyCleanup \subseteq Relays
ASSUME CallersAssumption   == /\ Acceptors \cap Waiters = {}
                              /\ DatagramWaiters \subseteq Waiters
                              /\ DatagramWaiters # {} => UDPEnabled

VARIABLES
    statuses,         \* relay -> "absent" or its RelayState
    udpAddr,          \* relay -> does its RelayStatus carry a UDPAddr?
    relayCount, failedCount, discoveredCount,
    rejectedRelays,
    allFailed,        \* is the channel in e.allFailed closed?
    once,             \* e.failedOnce: is it done, is its mutex held?
    ex,               \* goroutine -> where it is in markExhausted
    crash,            \* "none", or the fatal error the process died of
    changed,          \* caller -> was the stateChanged channel it holds closed?
    pub,              \* relay -> the statuses its workers are in publishUpdate with
    sup,              \* relay -> where its runSupervisor goroutine is
    accepted, conn,   \* the accepted channel; tenant connection -> its fate
    acc, held, exh,   \* Accept callers: position, connection taken, exhaustedSignal held?
    wait,             \* WaitReady and WaitDatagramReady callers: position
    exposePc, todo,   \* Expose; the relays that addRelays or discovery still adds
    disc, cands, kick,\* runDiscovery; its verified candidates; discoveryKick filled?
    closing, ctxDone, \* e.closing; e.ctx.Err() # nil
    closePc,          \* Close
    cleanupErrs, closeErr

memberVars == <<statuses, udpAddr, relayCount, failedCount, discoveredCount, rejectedRelays>>
signalVars == <<allFailed, once, ex>>
connVars   == <<accepted, conn>>
callVars   == <<acc, held, exh, wait>>
discVars   == <<exposePc, todo, disc, cands, kick>>
closeVars  == <<closing, ctxDone, closePc, closeErr>>
vars == <<memberVars, signalVars, crash, changed, pub, sup, connVars,
          callVars, discVars, closeVars, cleanupErrs>>

Disc        == "discovery"
Executors   == Relays \cup {Disc}
WorkerKinds == {"ready", "udp_ready"}
Conns       == Relays \X ConnIds
Callers     == Acceptors \cup Waiters
FreshOnce   == [done |-> FALSE, locked |-> FALSE]

Members     == {r \in Relays : statuses[r] # "absent"}
FailedSet   == {r \in Relays : statuses[r] = "failed"}

\* The number of reverse-session workers below a supervisor, each of which can
\* be blocked in offer with one connection.
reverseSessionSlots == 2

----------------------------------------------------------------------------
(* Signals.                                                                *)

\* Callers that hold a captured stateChanged channel.
Armed(x) == \/ x \in Acceptors /\ acc[x] \in {"armExhausted", "select"}
            \/ x \in Waiters /\ wait[x] = "select"

\* notifyStateChangedLocked closes the current channel and installs a new one:
\* whoever captured a channel before now holds a closed one.
notifyStateChangedLocked == changed' = [x \in Callers |-> Armed(x)]

\* terminalState's closed, and the guard of every status change.
Closed == closing \/ ctxDone

\* exhaustedSignal() # nil: read under the lock, the closed check just after.
exhausted == failedCount >= relayCount /\ relayCount > 0 /\ allFailed

\* Mutant: the signal stays closed when a relay joins.
rearmNothing == UNCHANGED <<allFailed, once>>

\* Mutant: only the Once is replaced.
rearmOnceOnly ==
    /\ UNCHANGED allFailed
    /\ once' = IF allFailed THEN FreshOnce ELSE once

\* rearmAllFailedLocked: a closed signal is replaced together with its Once.
rearmAllFailedLocked ==
    /\ allFailed' = FALSE
    /\ once' = IF allFailed THEN FreshOnce ELSE once

----------------------------------------------------------------------------
(* publishUpdate never blocks (UpdateStream models its channel operations). *)
(* It is a step of its own because it runs after the lock is released; a   *)
(* send on the channel that Close has closed panics.                       *)

UpdatesClosed == closePc = "closed"

publishUpdate == crash' = IF UpdatesClosed THEN "send on closed channel" ELSE crash

\* A worker's callback returns from publishUpdate.
publishDone(r, k) ==
    /\ k \in pub[r]
    /\ pub' = [pub EXCEPT ![r] = @ \ {k}]
    /\ publishUpdate
    /\ UNCHANGED <<memberVars, signalVars, changed, sup, connVars, callVars,
                   discVars, closeVars, cleanupErrs>>

----------------------------------------------------------------------------
(* addRelay, called by Expose for the explicit relays and by discovery.    *)

\* Mutant: the cap is reached one relay too early.
AddRefusedEarly(r, explicit) ==
    \/ Closed
    \/ r \in Members
    \/ r \in rejectedRelays
    \/ ~explicit /\ discoveredCount + 1 >= MaxDiscovered

AddRefused(r, explicit) ==
    \/ Closed
    \/ r \in Members
    \/ r \in rejectedRelays
    \/ ~explicit /\ discoveredCount >= MaxDiscovered

\* Mutant: explicit relays count against the cap.
discoveredAfterAny(explicit) == discoveredCount + 1

discoveredAfter(explicit) == IF explicit THEN discoveredCount ELSE discoveredCount + 1

\* The locked section.  The caller then publishes and starts the supervisor.
addRelay(r, explicit) ==
    IF AddRefused(r, explicit)
    THEN UNCHANGED <<memberVars, signalVars, changed, sup>>
    ELSE /\ statuses' = [statuses EXCEPT ![r] = "connecting"]
         /\ relayCount' = relayCount + 1
         /\ discoveredCount' = discoveredAfter(explicit)
         /\ rearmAllFailedLocked
         /\ notifyStateChangedLocked
         /\ sup' = [sup EXCEPT ![r] = "starting"]
         /\ UNCHANGED <<udpAddr, failedCount, rejectedRelays, ex>>

\* The adding goroutine is not inside an earlier addRelay.
AdderFree == \A r \in Relays : sup[r] # "starting"

\* addRelay after the lock: publishUpdate, then go e.runSupervisor(supervisor).
goRunSupervisor(r) ==
    /\ sup[r] = "starting"
    /\ publishUpdate
    /\ sup' = [sup EXCEPT ![r] = "running"]
    /\ UNCHANGED <<memberVars, signalVars, changed, pub, connVars,
                   callVars, discVars, closeVars, cleanupErrs>>

\* Expose: addRelays adds the explicit relays one by one.
ExposeAdd ==
    /\ exposePc = "adding"
    /\ AdderFree
    /\ \E r \in todo : addRelay(r, TRUE) /\ todo' = todo \ {r}
    /\ UNCHANGED <<crash, pub, connVars, callVars, exposePc, disc, cands, kick,
                   closeVars, cleanupErrs>>

\* Expose starts discovery and the parent watcher and returns.
ExposeReturn ==
    /\ exposePc = "adding"
    /\ AdderFree
    /\ todo = {}
    /\ exposePc' = "returned"
    /\ disc' = IF DiscoveryEnabled THEN "refresh" ELSE disc
    /\ UNCHANGED <<memberVars, signalVars, crash, changed, pub, sup, connVars,
                   callVars, todo, cands, kick, closeVars, cleanupErrs>>

----------------------------------------------------------------------------
(* The supervisor's callbacks.  relaySupervisor.run decides when; RelayLease *)
(* models it.                                                              *)

\* markReady: the first one publishes, a later one only refreshes PublicURL.
markReady(r) ==
    /\ sup[r] = "running"
    /\ ~Closed
    /\ statuses[r] \notin {"absent", "failed"}
    /\ notifyStateChangedLocked
    /\ IF statuses[r] = "ready"
       THEN UNCHANGED <<statuses, pub>>
       ELSE /\ statuses' = [statuses EXCEPT ![r] = "ready"]
            /\ pub' = [pub EXCEPT ![r] = @ \cup {"ready"}]
    /\ UNCHANGED <<udpAddr, relayCount, failedCount, discoveredCount, rejectedRelays,
                   signalVars, crash, sup, connVars, callVars, discVars,
                   closeVars, cleanupErrs>>

\* markDatagramReady: present = FALSE withdraws the address; moved = TRUE
\* replaces it by another one.  Only a new address is announced.
markDatagramReady(r, present, moved) ==
    /\ UDPEnabled
    /\ sup[r] = "running"
    /\ "udp_ready" \notin pub[r]
    /\ ~Closed
    /\ statuses[r] \notin {"absent", "failed"}
    /\ udpAddr' = [udpAddr EXCEPT ![r] = present]
    /\ notifyStateChangedLocked
    /\ pub' = IF present /\ (~udpAddr[r] \/ moved)
              THEN [pub EXCEPT ![r] = @ \cup {"udp_ready"}] ELSE pub
    /\ UNCHANGED <<statuses, relayCount, failedCount, discoveredCount, rejectedRelays,
                   signalVars, crash, sup, connVars, callVars, discVars,
                   closeVars, cleanupErrs>>

\* A reverse worker finished a tenant handshake and enters offer.
OfferBegin(c) ==
    /\ conn[c] = "none"
    /\ sup[c[1]] = "running"
    /\ Cardinality({d \in Conns : d[1] = c[1] /\ conn[d] = "offering"}) < reverseSessionSlots
    /\ conn' = [conn EXCEPT ![c] = "offering"]
    /\ UNCHANGED <<memberVars, signalVars, crash, changed, pub, sup, accepted,
                   callVars, discVars, closeVars, cleanupErrs>>

\* offer's select: the channel takes the connection ...
offer(c) ==
    /\ conn[c] = "offering"
    /\ Len(accepted) < AcceptCap
    /\ accepted' = Append(accepted, c)
    /\ conn' = [conn EXCEPT ![c] = "queued"]
    /\ UNCHANGED <<memberVars, signalVars, crash, changed, pub, sup,
                   callVars, discVars, closeVars, cleanupErrs>>

\* ... or a context ends first, and the worker closes the connection.  The
\* relay's own context ends with the lease, whenever the relay ends it.
offerAbandon(c) ==
    /\ conn[c] = "offering"
    /\ conn' = [conn EXCEPT ![c] = "closed"]
    /\ UNCHANGED <<memberVars, signalVars, crash, changed, pub, sup, accepted,
                   callVars, discVars, closeVars, cleanupErrs>>

\* supervisor.run returns once its workers are gone; a non-nil runErr is
\* terminal for the relay, a non-nil cleanupErr is kept for Close.
runReturn(r, runErr, cleanupErr) ==
    /\ sup[r] = "running"
    /\ runErr \/ ctxDone
    /\ cleanupErr => r \in FaultyCleanup
    /\ pub[r] = {}
    /\ \A c \in Conns : c[1] = r => conn[c] # "offering"
    /\ sup' = [sup EXCEPT ![r] = IF runErr /\ ~ctxDone THEN "returned" ELSE "done"]
    /\ cleanupErrs' = IF cleanupErr THEN cleanupErrs \cup {r} ELSE cleanupErrs
    /\ UNCHANGED <<memberVars, signalVars, crash, changed, pub, connVars,
                   callVars, discVars, closeVars>>

\* markFailed, the locked section: the verdict allFailed is computed here and
\* acted upon after the update has been published.
markFailed(r) ==
    /\ sup[r] = "returned"
    /\ IF Closed \/ statuses[r] \in {"absent", "failed"}
       THEN /\ sup' = [sup EXCEPT ![r] = "done"]
            /\ UNCHANGED <<memberVars, changed>>
       ELSE /\ statuses' = [statuses EXCEPT ![r] = "failed"]
            /\ failedCount' = failedCount + 1
            /\ rejectedRelays' = rejectedRelays \cup {r}
            /\ notifyStateChangedLocked
            /\ sup' = [sup EXCEPT ![r] = IF failedCount + 1 >= relayCount
                                         THEN "failedLast" ELSE "failedSome"]
            /\ UNCHANGED <<udpAddr, relayCount, discoveredCount>>
    /\ UNCHANGED <<signalVars, crash, pub, connVars, callVars, discVars, closeVars,
                   cleanupErrs>>

\* Mutant: discovery is not kicked.
markFailedNoKick(r) ==
    /\ sup[r] \in {"failedSome", "failedLast"}
    /\ publishUpdate
    /\ IF sup[r] = "failedLast" /\ ~DiscoveryEnabled
       THEN /\ sup' = [sup EXCEPT ![r] = "exhausting"]
            /\ ex' = [ex EXCEPT ![r] = "once"]
       ELSE sup' = [sup EXCEPT ![r] = "done"] /\ UNCHANGED ex
    /\ UNCHANGED <<memberVars, allFailed, once, changed, pub, connVars,
                   callVars, discVars, closeVars, cleanupErrs>>

\* markFailed after publishUpdate: nothing, a kick of discovery, or markExhausted.
markFailedVerdict(r) ==
    /\ sup[r] \in {"failedSome", "failedLast"}
    /\ publishUpdate
    /\ IF sup[r] = "failedLast" /\ ~DiscoveryEnabled
       THEN /\ sup' = [sup EXCEPT ![r] = "exhausting"]
            /\ ex' = [ex EXCEPT ![r] = "once"]
            /\ UNCHANGED kick
       ELSE /\ sup' = [sup EXCEPT ![r] = "done"]
            /\ kick' = (kick \/ sup[r] = "failedLast")
            /\ UNCHANGED ex
    /\ UNCHANGED <<memberVars, allFailed, once, changed, pub, connVars,
                   callVars, exposePc, todo, disc, cands, closeVars, cleanupErrs>>

----------------------------------------------------------------------------
(* markExhausted, run by the supervisor of the relay that failed last or   *)
(* by discovery.  failedOnce.Do does not hold e.mu.                        *)

\* Do: return at once when done, else take the Once's mutex.
exOnce(x) ==
    /\ ex[x] = "once"
    /\ \/ once.done /\ ex' = [ex EXCEPT ![x] = "notify"] /\ UNCHANGED once
       \/ /\ ~once.done /\ ~once.locked
          /\ once' = [once EXCEPT !.locked = TRUE]
          /\ ex' = [ex EXCEPT ![x] = "close"]
    /\ UNCHANGED <<allFailed, crash, changed, connVars, sup, disc>>

\* close(e.allFailed)
exClose(x) ==
    /\ ex[x] = "close"
    /\ IF allFailed
       THEN crash' = "close of closed channel" /\ UNCHANGED <<allFailed, ex>>
       ELSE crash' = crash /\ allFailed' = TRUE /\ ex' = [ex EXCEPT ![x] = "leave"]
    /\ UNCHANGED <<once, changed, connVars, sup, disc>>

\* Do's deferred part: set done, unlock the mutex of whatever Once is there now.
exLeave(x) ==
    /\ ex[x] = "leave"
    /\ IF once.locked
       THEN /\ crash' = crash
            /\ once' = [done |-> TRUE, locked |-> FALSE]
            /\ ex' = [ex EXCEPT ![x] = "notify"]
       ELSE crash' = "unlock of unlocked mutex" /\ UNCHANGED <<once, ex>>
    /\ UNCHANGED <<allFailed, changed, connVars, sup, disc>>

\* Mutant: markExhausted closes the signal and wakes nobody.
exNotifySilent(x) ==
    /\ ex[x] = "notify"
    /\ ex' = [ex EXCEPT ![x] = "drain"]
    /\ UNCHANGED <<allFailed, once, crash, changed, connVars, sup, disc>>

exNotify(x) ==
    /\ ex[x] = "notify"
    /\ notifyStateChangedLocked
    /\ ex' = [ex EXCEPT ![x] = "drain"]
    /\ UNCHANGED <<allFailed, once, crash, connVars, sup, disc>>

\* drainAccepted: one connection per step, then markExhausted returns.
exDrain(x) ==
    /\ ex[x] = "drain"
    /\ IF accepted # <<>>
       THEN /\ conn' = [conn EXCEPT ![Head(accepted)] = "closed"]
            /\ accepted' = Tail(accepted)
            /\ UNCHANGED <<ex, sup, disc>>
       ELSE /\ ex' = [ex EXCEPT ![x] = "idle"]
            /\ sup' = IF x \in Relays THEN [sup EXCEPT ![x] = "done"] ELSE sup
            /\ disc' = IF x = Disc THEN "idle" ELSE disc
            /\ UNCHANGED connVars
    /\ UNCHANGED <<allFailed, once, crash, changed>>

markExhausted(x) ==
    /\ exOnce(x) \/ exClose(x) \/ exLeave(x) \/ exNotify(x) \/ exDrain(x)
    /\ UNCHANGED <<memberVars, pub, callVars, exposePc, todo, cands, kick,
                   closeVars, cleanupErrs>>

----------------------------------------------------------------------------
(* runDiscovery and refreshDiscovery.                                      *)

\* refreshDiscovery polls the members; whatever verified, fresh and (with
\* requireUDP) UDP-capable candidates are known afterwards is cands.
refreshDiscovery ==
    /\ disc = "refresh"
    /\ IF ctxDone THEN disc' = "idle" /\ UNCHANGED cands
                  ELSE disc' = "adopt" /\ cands' \in SUBSET Relays
    /\ UNCHANGED <<memberVars, signalVars, crash, changed, pub, sup, connVars,
                   callVars, exposePc, todo, kick, closeVars, cleanupErrs>>

\* adoptDiscoveredRelays snapshots activeRelaysLocked and calls selectRelays ...
adoptDiscoveredRelays ==
    /\ disc = "adopt"
    /\ todo' = cands \ (Members \cup rejectedRelays)
    /\ disc' = "adding"
    /\ UNCHANGED <<memberVars, signalVars, crash, changed, pub, sup, connVars,
                   callVars, exposePc, cands, kick, closeVars, cleanupErrs>>

\* ... and adds the selected relays, unless the context has ended.
discoveryAdd ==
    /\ disc = "adding"
    /\ AdderFree
    /\ IF todo = {} \/ ctxDone
       THEN /\ disc' = "verdict" /\ todo' = {}
            /\ UNCHANGED <<memberVars, signalVars, changed, sup>>
       ELSE /\ \E r \in todo : addRelay(r, FALSE) /\ todo' = todo \ {r}
            /\ UNCHANGED disc
    /\ UNCHANGED <<crash, pub, connVars, callVars, exposePc, cands, kick, closeVars,
                   cleanupErrs>>

\* The end of refreshDiscovery: every member failed and nothing was adopted.
\* cands is the view of one refresh and is forgotten with it; the next refresh
\* starts from any set again.
discoveryVerdict ==
    /\ disc = "verdict"
    /\ IF relayCount > 0 /\ failedCount >= relayCount /\ ~Closed
       THEN disc' = "exhausting" /\ ex' = [ex EXCEPT ![Disc] = "once"] /\ UNCHANGED cands
       ELSE disc' = "idle" /\ UNCHANGED ex /\ cands' = {}
    /\ UNCHANGED <<memberVars, allFailed, once, crash, changed, pub, sup, connVars,
                   callVars, exposePc, todo, kick, closeVars, cleanupErrs>>

discoveryTick ==
    /\ disc = "idle"
    /\ disc' = "refresh"
    /\ UNCHANGED <<memberVars, signalVars, crash, changed, pub, sup, connVars,
                   callVars, exposePc, todo, cands, kick, closeVars, cleanupErrs>>

discoveryKicked ==
    /\ disc = "idle"
    /\ kick
    /\ kick' = FALSE
    /\ disc' = "refresh"
    /\ UNCHANGED <<memberVars, signalVars, crash, changed, pub, sup, connVars,
                   callVars, exposePc, todo, cands, closeVars, cleanupErrs>>

discoveryExit ==
    /\ disc = "idle"
    /\ ctxDone
    /\ disc' = "done"
    /\ UNCHANGED <<memberVars, signalVars, crash, changed, pub, sup, connVars,
                   callVars, exposePc, todo, cands, kick, closeVars, cleanupErrs>>

discoveryStep == refreshDiscovery \/ adoptDiscoveredRelays \/ discoveryAdd
                 \/ discoveryVerdict \/ discoveryKicked

----------------------------------------------------------------------------
(* Accept.                                                                 *)

AcceptReturns == {"idle", "conn", "errClosed", "noRelays"}

acceptUnchanged == <<memberVars, signalVars, crash, pub, sup, wait, discVars,
                     closeVars, cleanupErrs>>

acceptCall(a) ==
    /\ exposePc = "returned"
    /\ acc[a] \in AcceptReturns
    /\ acc' = [acc EXCEPT ![a] = "term"]
    /\ UNCHANGED <<acceptUnchanged, changed, connVars, held, exh>>

\* Mutant: terminalState reports exhaustion only.
acceptTermNeverClosed(a) ==
    /\ acc[a] = "term"
    /\ acc' = [acc EXCEPT ![a] = "fail"]
    /\ UNCHANGED <<acceptUnchanged, changed, connVars, held, exh>>

\* terminalState reads closed under the lock and then evaluates exhausted().
acceptTerm(a) ==
    /\ acc[a] = "term"
    /\ acc' = [acc EXCEPT ![a] = IF Closed THEN "errClosed" ELSE "fail"]
    /\ UNCHANGED <<acceptUnchanged, changed, connVars, held, exh>>

acceptFail(a) ==
    /\ acc[a] = "fail"
    /\ acc' = [acc EXCEPT ![a] = IF exhausted THEN "noRelays" ELSE "armChanged"]
    /\ UNCHANGED <<acceptUnchanged, changed, connVars, held, exh>>

\* The select evaluates its channels in order: stateChangedSignal() ...
acceptArmChanged(a) ==
    /\ acc[a] = "armChanged"
    /\ acc' = [acc EXCEPT ![a] = "armExhausted"]
    /\ changed' = [changed EXCEPT ![a] = FALSE]
    /\ UNCHANGED <<acceptUnchanged, connVars, held, exh>>

\* ... then exhaustedSignal(), nil while the exposure is live.
acceptArmExhausted(a) ==
    /\ acc[a] = "armExhausted"
    /\ acc' = [acc EXCEPT ![a] = "select"]
    /\ exh' = [exh EXCEPT ![a] = exhausted]
    /\ UNCHANGED <<acceptUnchanged, changed, connVars, held>>

acceptSelect(a) ==
    /\ acc[a] = "select"
    /\ \/ ctxDone /\ acc' = [acc EXCEPT ![a] = "errClosed"] /\ UNCHANGED <<accepted, conn, held>>
       \/ changed[a] /\ acc' = [acc EXCEPT ![a] = "term"] /\ UNCHANGED <<accepted, conn, held>>
       \/ exh[a] /\ acc' = [acc EXCEPT ![a] = "exTerm"] /\ UNCHANGED <<accepted, conn, held>>
       \/ /\ accepted # <<>>
          /\ held' = [held EXCEPT ![a] = {Head(accepted)}]
          /\ conn' = [conn EXCEPT ![Head(accepted)] = "held"]
          /\ accepted' = Tail(accepted)
          /\ acc' = [acc EXCEPT ![a] = "gotTerm"]
    /\ changed' = [changed EXCEPT ![a] = FALSE]
    /\ exh' = [exh EXCEPT ![a] = FALSE]
    /\ UNCHANGED acceptUnchanged

\* The all-failed case re-reads closed and reports ErrNoRelays otherwise.
acceptExTerm(a) ==
    /\ acc[a] = "exTerm"
    /\ acc' = [acc EXCEPT ![a] = IF Closed THEN "errClosed" ELSE "noRelays"]
    /\ UNCHANGED <<acceptUnchanged, changed, connVars, held, exh>>

\* Mutant: the connection is dropped without being closed.
acceptGotTermLeaks(a) ==
    /\ acc[a] = "gotTerm"
    /\ IF Closed
       THEN /\ acc' = [acc EXCEPT ![a] = "errClosed"]
            /\ held' = [held EXCEPT ![a] = {}]
            /\ UNCHANGED conn
       ELSE acc' = [acc EXCEPT ![a] = "gotFail"] /\ UNCHANGED <<conn, held>>
    /\ UNCHANGED <<acceptUnchanged, changed, accepted, exh>>

\* A connection taken from the channel is closed again when the exposure has
\* ended meanwhile.
acceptGotTerm(a) ==
    /\ acc[a] = "gotTerm"
    /\ IF Closed
       THEN /\ acc' = [acc EXCEPT ![a] = "errClosed"]
            /\ conn' = [c \in Conns |-> IF c \in held[a] THEN "closed" ELSE conn[c]]
            /\ held' = [held EXCEPT ![a] = {}]
       ELSE acc' = [acc EXCEPT ![a] = "gotFail"] /\ UNCHANGED <<conn, held>>
    /\ UNCHANGED <<acceptUnchanged, changed, accepted, exh>>

\* Mutant: the exhausted exposure is reported with the connection still in hand.
acceptGotFailLeaks(a) ==
    /\ acc[a] = "gotFail"
    /\ acc' = [acc EXCEPT ![a] = IF exhausted THEN "noRelays" ELSE "conn"]
    /\ IF exhausted
       THEN UNCHANGED <<conn, held>>
       ELSE /\ conn' = [c \in Conns |-> IF c \in held[a] THEN "delivered" ELSE conn[c]]
            /\ held' = [held EXCEPT ![a] = {}]
    /\ UNCHANGED <<acceptUnchanged, changed, accepted, exh>>

acceptGotFail(a) ==
    /\ acc[a] = "gotFail"
    /\ acc' = [acc EXCEPT ![a] = IF exhausted THEN "noRelays" ELSE "conn"]
    /\ conn' = [c \in Conns |-> IF c \in held[a]
                                THEN IF exhausted THEN "closed" ELSE "delivered"
                                ELSE conn[c]]
    /\ held' = [held EXCEPT ![a] = {}]
    /\ UNCHANGED <<acceptUnchanged, changed, accepted, exh>>

acceptStep(a) == \/ acceptTerm(a) \/ acceptFail(a) \/ acceptArmChanged(a)
                 \/ acceptArmExhausted(a) \/ acceptSelect(a) \/ acceptExTerm(a)
                 \/ acceptGotTerm(a) \/ acceptGotFail(a)

----------------------------------------------------------------------------
(* WaitReady and WaitDatagramReady take their whole snapshot under one     *)
(* read lock (ExposureLock is about that lock).                            *)

WaitReturns == {"idle", "ready", "errClosed", "noRelays", "errCtx"}

waitUnchanged == <<memberVars, signalVars, crash, pub, sup, connVars, acc, held, exh,
                   discVars, closeVars, cleanupErrs>>

ReadyFor(w) == IF w \in DatagramWaiters
               THEN {r \in Relays : udpAddr[r] /\ statuses[r] # "failed"}
               ELSE {r \in Relays : statuses[r] = "ready"}

waitCall(w) ==
    /\ exposePc = "returned"
    /\ wait[w] \in WaitReturns
    /\ wait' = [wait EXCEPT ![w] = "snap"]
    /\ UNCHANGED <<waitUnchanged, changed>>

waitSnap(w) ==
    /\ wait[w] = "snap"
    /\ wait' = [wait EXCEPT ![w] = IF ReadyFor(w) # {} THEN "ready"
                                   ELSE IF Closed THEN "errClosed"
                                   ELSE IF exhausted THEN "noRelays" ELSE "select"]
    /\ changed' = [changed EXCEPT ![w] = FALSE]
    /\ UNCHANGED waitUnchanged

waitSelect(w) ==
    /\ wait[w] = "select"
    /\ \/ ctxDone /\ wait' = [wait EXCEPT ![w] = "errClosed"]
       \/ changed[w] /\ wait' = [wait EXCEPT ![w] = "snap"]
    /\ changed' = [changed EXCEPT ![w] = FALSE]
    /\ UNCHANGED waitUnchanged

\* The context the caller passed ends.
waitCtx(w) ==
    /\ wait[w] = "select"
    /\ wait' = [wait EXCEPT ![w] = "errCtx"]
    /\ changed' = [changed EXCEPT ![w] = FALSE]
    /\ UNCHANGED waitUnchanged

----------------------------------------------------------------------------
(* Close, called by the application or by the parent watcher.  The body    *)
(* runs once; every other caller of Close waits for closeDone.             *)

closeRest == <<memberVars, signalVars, crash, changed, pub, sup, callVars, discVars,
               cleanupErrs>>

closeBegin ==
    /\ exposePc = "returned"
    /\ closePc = "open"
    /\ closing' = TRUE
    /\ closePc' = "cancel"
    /\ UNCHANGED <<closeRest, connVars, ctxDone, closeErr>>

\* Mutant: Close waits without having cancelled the context.
closeNoCancel ==
    /\ closePc = "cancel"
    /\ closePc' = "waitSup"
    /\ UNCHANGED <<closeRest, connVars, closing, ctxDone, closeErr>>

closeCancel ==
    /\ closePc = "cancel"
    /\ ctxDone' = TRUE
    /\ closePc' = "waitSup"
    /\ UNCHANGED <<closeRest, connVars, closing, closeErr>>

\* Mutant: the supervisors are not waited for.
closeNoWait ==
    /\ closePc = "waitSup"
    /\ closePc' = "waitDisc"
    /\ UNCHANGED <<closeRest, connVars, closing, ctxDone, closeErr>>

closeWaitSup ==
    /\ closePc = "waitSup"
    /\ \A r \in Relays : sup[r] \in {"none", "done"}
    /\ closePc' = "waitDisc"
    /\ UNCHANGED <<closeRest, connVars, closing, ctxDone, closeErr>>

closeWaitDisc ==
    /\ closePc = "waitDisc"
    /\ disc \in {"off", "done"}
    /\ closePc' = "drain"
    /\ UNCHANGED <<closeRest, connVars, closing, ctxDone, closeErr>>

closeDrain ==
    /\ closePc = "drain"
    /\ IF accepted # <<>>
       THEN /\ conn' = [conn EXCEPT ![Head(accepted)] = "closed"]
            /\ accepted' = Tail(accepted)
            /\ UNCHANGED <<closePc, closeErr>>
       ELSE /\ closePc' = "finish"
            /\ closeErr' = cleanupErrs
            /\ UNCHANGED connVars
    /\ UNCHANGED <<closeRest, closing, ctxDone>>

\* close(e.updates), close(e.closeDone)
closeFinish ==
    /\ closePc = "finish"
    /\ closePc' = "closed"
    /\ UNCHANGED <<closeRest, connVars, closing, ctxDone, closeErr>>

closeStep == closeCancel \/ closeWaitSup \/ closeWaitDisc \/ closeDrain \/ closeFinish

\* The context given to Expose ends: the derived context ends with it.
parentCancel ==
    /\ ~ctxDone
    /\ ctxDone' = TRUE
    /\ UNCHANGED <<closeRest, connVars, closing, closePc, closeErr>>

\* The watcher goroutine of Expose.  e.ctx also ends in closeCancel, but then
\* closePc is no longer "open".
parentWatch == ctxDone /\ closeBegin

----------------------------------------------------------------------------
Init ==
    /\ statuses = [r \in Relays |-> "absent"]
    /\ udpAddr = [r \in Relays |-> FALSE]
    /\ relayCount = 0 /\ failedCount = 0 /\ discoveredCount = 0
    /\ rejectedRelays = {}
    /\ allFailed = FALSE
    /\ once = FreshOnce
    /\ ex = [x \in Executors |-> "idle"]
    /\ crash = "none"
    /\ changed = [x \in Callers |-> FALSE]
    /\ pub = [r \in Relays |-> {}]
    /\ sup = [r \in Relays |-> "none"]
    /\ accepted = <<>>
    /\ conn = [c \in Conns |-> "none"]
    /\ acc = [a \in Acceptors |-> "idle"]
    /\ held = [a \in Acceptors |-> {}]
    /\ exh = [a \in Acceptors |-> FALSE]
    /\ wait = [w \in Waiters |-> "idle"]
    /\ exposePc = "adding" /\ todo = Explicit
    /\ disc = "off" /\ cands = {} /\ kick = FALSE
    /\ closing = FALSE /\ ctxDone = FALSE
    /\ closePc = "open" /\ closeErr = {} /\ cleanupErrs = {}

\* What runs without being asked to: the program's own goroutines.
ProgramStep ==
    \/ ExposeAdd \/ ExposeReturn
    \/ \E r \in Relays, k \in WorkerKinds : publishDone(r, k)
    \/ \E r \in Relays : goRunSupervisor(r) \/ markFailed(r) \/ markFailedVerdict(r)
    \/ \E x \in Executors : markExhausted(x)
    \/ discoveryStep \/ discoveryTick \/ discoveryExit
    \/ \E a \in Acceptors : acceptStep(a)
    \/ \E w \in Waiters : waitSnap(w) \/ waitSelect(w)
    \/ closeStep \/ parentWatch

\* What relays, tenants and the application decide.
EnvironmentStep ==
    \/ \E r \in Relays :
          \/ markReady(r)
          \/ \E present, moved \in BOOLEAN : markDatagramReady(r, present, moved)
          \/ \E runErr, cleanupErr \in BOOLEAN : runReturn(r, runErr, cleanupErr)
    \/ \E c \in Conns : OfferBegin(c) \/ offer(c) \/ offerAbandon(c)
    \/ \E a \in Acceptors : acceptCall(a)
    \/ \E w \in Waiters : waitCall(w) \/ waitCtx(w)
    \/ closeBegin
    \/ parentCancel

\* A fatal error ends the process.
Next == crash = "none" /\ (ProgramStep \/ EnvironmentStep)

Alive(A) == crash = "none" /\ A

Fairness ==
    /\ WF_vars(Alive(ExposeAdd \/ ExposeReturn))
    /\ \A r \in Relays, k \in WorkerKinds : WF_vars(Alive(publishDone(r, k)))
    /\ \A r \in Relays : /\ WF_vars(Alive(goRunSupervisor(r) \/ markFailed(r) \/ markFailedVerdict(r)))
                         /\ WF_vars(Alive(ctxDone /\ \E b, e \in BOOLEAN : runReturn(r, b, e)))
    /\ \A x \in Executors : WF_vars(Alive(markExhausted(x)))
    /\ WF_vars(Alive(discoveryStep)) /\ SF_vars(Alive(discoveryExit))
    /\ \A a \in Acceptors : WF_vars(Alive(acceptStep(a)))
    /\ \A w \in Waiters : WF_vars(Alive(waitSnap(w) \/ waitSelect(w)))
    /\ \A c \in Conns : WF_vars(Alive(ctxDone /\ (offer(c) \/ offerAbandon(c))))
    /\ WF_vars(Alive(closeStep)) /\ WF_vars(Alive(parentWatch))

Spec == Init /\ [][Next]_vars /\ Fairness

----------------------------------------------------------------------------
(* Properties.                                                             *)

SupStates   == {"none", "starting", "running", "returned", "failedSome", "failedLast",
                "exhausting", "done"}
ExStates    == {"idle", "once", "close", "leave", "notify", "drain"}
DiscStates  == {"off", "refresh", "adopt", "adding", "verdict", "exhausting", "idle", "done"}
CloseStates == {"open", "cancel", "waitSup", "waitDisc", "drain", "finish", "closed"}

MemberType ==
    /\ statuses \in [Relays -> {"absent", "connecting", "ready", "failed"}]
    /\ udpAddr \in [Relays -> BOOLEAN]
    /\ relayCount \in Nat /\ failedCount \in Nat /\ discoveredCount \in Nat
    /\ rejectedRelays \in SUBSET Relays

SignalType ==
    /\ allFailed \in BOOLEAN
    /\ once \in [done : BOOLEAN, locked : BOOLEAN]
    /\ ex \in [Executors -> ExStates]
    /\ crash \in {"none", "send on closed channel", "close of closed channel",
                  "unlock of unlocked mutex"}
    /\ changed \in [Callers -> BOOLEAN]

WorkerType ==
    /\ pub \in [Relays -> SUBSET WorkerKinds]
    /\ sup \in [Relays -> SupStates]
    /\ cleanupErrs \in SUBSET Relays

ConnType ==
    /\ accepted \in Seq(Conns) /\ Len(accepted) <= AcceptCap
    /\ conn \in [Conns -> {"none", "offering", "queued", "held", "delivered", "closed"}]

CallType ==
    /\ acc \in [Acceptors -> AcceptReturns \cup {"term", "fail", "armChanged", "armExhausted",
                              "select", "exTerm", "gotTerm", "gotFail"}]
    /\ held \in [Acceptors -> SUBSET Conns]
    /\ \A a \in Acceptors : held[a] # {} => acc[a] \in {"gotTerm", "gotFail"}
    /\ exh \in [Acceptors -> BOOLEAN]
    /\ wait \in [Waiters -> WaitReturns \cup {"snap", "select"}]

DiscType ==
    /\ exposePc \in {"adding", "returned"} /\ todo \in SUBSET Relays
    /\ disc \in DiscStates /\ cands \in SUBSET Relays /\ kick \in BOOLEAN

CloseType ==
    /\ closing \in BOOLEAN /\ ctxDone \in BOOLEAN /\ closePc \in CloseStates
    /\ closeErr \in SUBSET Relays

\* Every variable has the type the code gives it, and an Accept call that has
\* returned, with an error or without, has no connection left in its hands.
TypeOK == /\ MemberType /\ SignalType /\ WorkerType /\ ConnType
          /\ CallType /\ DiscType /\ CloseType

\* The counters that decide "all relays failed" are exactly the membership
\* they summarise, across adds, failures and refused adds: relayCount counts
\* the members, failedCount the failed ones, the rejected relays are the
\* failed ones, and discovery stays within its cap.
CountsMatch ==
    /\ relayCount = Cardinality(Members)
    /\ failedCount = Cardinality(FailedSet)
    /\ rejectedRelays = FailedSet
    /\ discoveredCount = Cardinality(Members \ Explicit)
    /\ discoveredCount <= MaxDiscovered

\* With discovery the all-failed signal is closed only while every member is
\* failed: nobody can be told ErrNoRelays by a signal left over from before
\* a relay was adopted.
SignalMeansAllFailed ==
    DiscoveryEnabled /\ allFailed => Members = FailedSet

\* No goroutine dies of a channel or mutex misuse: updates is not written
\* after Close closed it, allFailed is not closed twice, and failedOnce is not
\* replaced under a running Do.
NoCrash == crash = "none"

\* Discovery declares the exposure exhausted only after it has taken every
\* candidate it knows of, or has used up its cap.
NoUsableCandidateLeft ==
    disc = "exhausting" /\ ~Closed =>
        \A r \in cands : r \in Members \/ discoveredCount >= MaxDiscovered

\* When Close closes the updates channel and returns, nothing is left behind:
\* no supervisor, publisher, discovery or markExhausted still runs, no
\* connection is queued or being offered, and every cleanup error is reported.
CloseIsFinal ==
    closePc \in {"finish", "closed"} =>
        /\ \A r \in Relays : sup[r] \in {"none", "done"}
        /\ disc \in {"off", "done"}
        /\ \A r \in Relays : pub[r] = {}
        /\ \A x \in Executors : ex[x] = "idle"
        /\ accepted = <<>>
        /\ \A c \in Conns : conn[c] \notin {"offering", "queued"}
        /\ closeErr = cleanupErrs

\* No wake-up is lost.  A caller blocked in a select whose captured channels
\* are all silent is right to be blocked: the exposure is not exhausted, or
\* the goroutine that closed the signal has yet to notify; and no relay is
\* ready for a WaitReady or WaitDatagramReady that sleeps.
NoLostWakeup ==
    /\ \A a \in Acceptors :
          acc[a] = "select" /\ ~changed[a] /\ ~exh[a] /\ exhausted =>
              \E x \in Executors : ex[x] \in {"leave", "notify"}
    /\ \A w \in Waiters :
          wait[w] = "select" /\ ~changed[w] =>
              /\ ReadyFor(w) = {}
              /\ exhausted => \E x \in Executors : ex[x] \in {"leave", "notify"}

\* Each connection is in one place: the queue holds exactly the queued ones,
\* once each, and a taken one belongs to one Accept call.
OneOwnerPerConn ==
    /\ \A c \in Conns : conn[c] = "queued" <=> \E i \in 1..Len(accepted) : accepted[i] = c
    /\ \A i, j \in 1..Len(accepted) : accepted[i] = accepted[j] => i = j
    /\ \A c \in Conns : conn[c] = "held" <=> \E a \in Acceptors : c \in held[a]
    /\ \A a, b \in Acceptors : held[a] \cap held[b] # {} => a = b

\* WaitReady and WaitDatagramReady do not block for ever on an exposure whose
\* relays have all failed: they return, or discovery brings a live relay in.
\* The kick of markFailed suffices for it; the poll ticker is not needed.
WaitersUnblock ==
    \A w \in Waiters :
        (relayCount > 0 /\ Members = FailedSet /\ wait[w] = "select")
            ~> (wait[w] \in WaitReturns \/ Members # FailedSet \/ crash # "none")

\* Close always completes and releases every blocked caller and every
\* connection that no application holds, whatever the other goroutines were
\* doing when it began or when the parent context ended; it reports every
\* cleanup error.
CloseCompletes ==
    (closing \/ (ctxDone /\ exposePc = "returned"))
        ~> \/ crash # "none"
           \/ /\ closePc = "closed" /\ closeErr = cleanupErrs
              /\ \A a \in Acceptors : acc[a] # "select"
              /\ \A w \in Waiters : wait[w] # "select"
              /\ \A c \in Conns : conn[c] \in {"none", "closed", "delivered", "held"}
=============================================================================
