----------------------------- MODULE RelayLease -----------------------------
(***************************************************************************)
(* One relay supervisor of relay.go: run registers a lease, runLease runs  *)
(* the reverse slots, the renewal loop and the datagram loop below a       *)
(* lease-scoped context, and shutdown unregisters.  The workers share the  *)
(* lease under leaseMu; each captures a token, capability or generation,   *)
(* talks to the relay, and interprets the answer against a lease that may  *)
(* have been renewed meanwhile.                                            *)
(*                                                                         *)
(* The relay is external: it holds at most one lease of this identity, a   *)
(* renewal rotates token and capability together and invalidates the old   *)
(* ones, and it may forget the lease at any time.  Requests and answers    *)
(* may be lost.                                                            *)
(***************************************************************************)
EXTENDS Integers, FiniteSets, RetryPolicy

CONSTANTS
    Slots,        \* the reverse-session workers (reverseSessionSlots = 2)
    UDPEnabled,
    MaxTokens     \* bound: tokens the relay ever issues

ASSUME LeaseAssumption == /\ {"renew", "datagram"} \cap Slots = {}
                          /\ UDPEnabled \in BOOLEAN
                          /\ MaxTokens \in Nat \ {0}

Renew    == "renew"
Datagram == "datagram"
Workers  == Slots \cup {Renew} \cup (IF UDPEnabled THEN {Datagram} ELSE {})
Tokens   == 1..MaxTokens
NoToken  == 0        \* the empty access token, and a nil *quic.Conn

VARIABLES
    pc,             \* run: position of the supervisor goroutine
    control,        \* s.controlClient # nil
    token, generation, renewing, tokenUncertain, tenant,   \* s.lease
    nextGeneration, \* s.nextLeaseGeneration
    signers,        \* the tenant TLS signers that are open
    srv,            \* relay: the token of the lease it holds, or NoToken
    issued,         \* relay: number of tokens issued
    reply,          \* token in the register answer under way
    expired,        \* the lease's expiresAt has passed
    capExpired,     \* its reverse.ExpiresAt has passed: never later than the lease's
    ctxDone,        \* the exposure's context has ended
    leaseDone,      \* the lease context of runLease has ended
    wpc, wtok, wgen,\* worker -> position, captured token or capability, generation
    result,         \* worker -> the error it returned
    datagramConn,   \* token with which s.datagramConn was authenticated
    dgOpen,         \* is the datagram loop's own connection open?
    status,         \* what markReady told the exposure: "connecting" or "ready"
    runErr, cleanupErr

leaseVars == <<token, generation, renewing, tokenUncertain, tenant, nextGeneration, signers>>
relayVars == <<srv, issued>>
workVars  == <<wpc, wtok, wgen, result>>
dgVars    == <<datagramConn, dgOpen>>
clockVars == <<expired, capExpired>>
runVars   == <<pc, control, reply, leaseDone, runErr, cleanupErr>>
vars == <<runVars, leaseVars, relayVars, workVars, dgVars, clockVars, ctxDone, status>>

At(w, p)       == wpc[w] = p
Goto(w, p)     == wpc' = [wpc EXCEPT ![w] = p] /\ UNCHANGED <<wtok, wgen, result>>
Return(w, err) == /\ wpc' = [wpc EXCEPT ![w] = "done"]
                  /\ result' = [result EXCEPT ![w] = err]
                  /\ UNCHANGED <<wtok, wgen>>
Capture(w, p, t, g) == /\ wpc' = [wpc EXCEPT ![w] = p]
                       /\ wtok' = [wtok EXCEPT ![w] = t]
                       /\ wgen' = [wgen EXCEPT ![w] = g]
                       /\ UNCHANGED result

\* leaseCtx.Err() # nil: it is derived from the exposure's context.
leaseCtxDone == leaseDone \/ ctxDone

----------------------------------------------------------------------------
(* run: bootstrap and registration.                                        *)

notRun == <<leaseVars, relayVars, workVars, dgVars, clockVars, ctxDone, status>>

\* initializeControl succeeds; fails transiently (resetControl, wait, retry);
\* or fails terminally.  A failure resets the control client.
initializeControl ==
    /\ pc = "init"
    /\ \/ ~ctxDone /\ pc' = "challenge" /\ control' = TRUE /\ UNCHANGED runErr
       \/ pc' = "init" /\ control' = FALSE /\ UNCHANGED runErr
       \/ ~ctxDone /\ pc' = "shutdown" /\ control' = FALSE /\ runErr' = "terminal"
    /\ UNCHANGED <<reply, leaseDone, cleanupErr, notRun>>

\* The context ends before, during or between the requests of run.
runCancelled ==
    /\ ctxDone
    /\ pc \in {"init", "challenge", "submit", "reply"}
    /\ pc' = "shutdown" /\ runErr' = "ctx"
    /\ UNCHANGED <<control, reply, leaseDone, cleanupErr, notRun>>

\* The challenge is signed, its request fails and is retried after a delay, or
\* the relay fails.
requestRegisterChallenge ==
    /\ pc = "challenge"
    /\ \/ pc' = "submit" /\ UNCHANGED runErr
       \/ pc' = "challenge" /\ UNCHANGED runErr
       \/ ~ctxDone /\ pc' = "shutdown" /\ runErr' = "terminal"
    /\ UNCHANGED <<control, reply, leaseDone, cleanupErr, notRun>>

\* The relay processes /register: a new lease replaces the one it may hold.
relayRegister ==
    /\ pc = "submit"
    /\ issued < MaxTokens
    /\ issued' = issued + 1 /\ srv' = issued + 1 /\ reply' = issued + 1
    /\ pc' = "reply"
    /\ UNCHANGED <<control, leaseDone, runErr, cleanupErr, leaseVars, workVars, dgVars,
                   clockVars, ctxDone, status>>

\* The request or its answer is lost or throttled: retry, with the signed
\* challenge while it is valid, with a fresh one otherwise.  Or the answer is a
\* terminal code, or malformed: the relay fails.
submitFailed ==
    /\ pc \in {"submit", "reply"}
    /\ \/ pc' \in {"challenge", "submit"} /\ UNCHANGED runErr
       \/ ~ctxDone /\ pc' = "shutdown" /\ runErr' = "terminal"
    /\ UNCHANGED <<control, reply, leaseDone, cleanupErr, notRun>>

\* An answer that is invalid, or for which buildTenantTLS fails (after it was
\* given a generation): the token is unregistered at once, if the relay can be
\* reached, and the relay fails.
submitInvalid ==
    /\ pc = "reply"
    /\ \/ srv' = IF srv = reply THEN NoToken ELSE srv
       \/ srv' = srv
    /\ nextGeneration' \in {nextGeneration, nextGeneration + 1}
    /\ pc' = "shutdown" /\ runErr' = "terminal"
    /\ UNCHANGED <<control, reply, leaseDone, cleanupErr, token, generation, renewing,
                   tokenUncertain, tenant, signers, issued, workVars, dgVars, clockVars, ctxDone,
                   status>>

\* submitRegistration installs the lease, and runLease starts the workers.
submitRegistration ==
    /\ pc = "reply"
    /\ token' = reply /\ generation' = nextGeneration + 1
    /\ nextGeneration' = nextGeneration + 1
    /\ renewing' = FALSE /\ tokenUncertain' = FALSE
    /\ tenant' = nextGeneration + 1
    /\ signers' = signers \cup {nextGeneration + 1}
    /\ expired' = FALSE /\ capExpired' = FALSE
    /\ pc' = "lease" /\ leaseDone' = FALSE
    /\ wpc' = [w \in Workers |-> "top"]
    /\ result' = [w \in Workers |-> "none"]
    /\ UNCHANGED <<control, reply, runErr, cleanupErr, relayVars, wtok, wgen, dgVars, ctxDone,
                   status>>

----------------------------------------------------------------------------
(* runLease's own goroutine, and the end of run.                           *)

\* Mutant: runLease waits for its context only.
runLeaseWaitsForContext ==
    /\ pc = "lease"
    /\ ctxDone
    /\ leaseDone' = TRUE /\ pc' = "drain"
    /\ UNCHANGED <<control, reply, runErr, cleanupErr, notRun>>

\* The first result, or the end of the context, cancels the lease context.
runLeaseCancel ==
    /\ pc = "lease"
    /\ ctxDone \/ \E w \in Workers : result[w] # "none"
    /\ leaseDone' = TRUE /\ pc' = "drain"
    /\ UNCHANGED <<control, reply, runErr, cleanupErr, notRun>>

\* Mutant: the tenant signer is not closed.
clearLeaseLeaks ==
    /\ token' = NoToken /\ generation' = 0 /\ renewing' = FALSE /\ tokenUncertain' = FALSE
    /\ tenant' = 0
    /\ UNCHANGED <<nextGeneration, signers>>

\* clearLease, with the tenant signer closed by the caller.
clearLease ==
    /\ token' = NoToken /\ generation' = 0 /\ renewing' = FALSE /\ tokenUncertain' = FALSE
    /\ tenant' = 0 /\ signers' = signers \ {tenant}
    /\ UNCHANGED nextGeneration

\* clearDatagramConn(nil): close and forget whatever connection is installed.
clearDatagramConn == datagramConn' = NoToken
                     /\ dgOpen' = (dgOpen /\ datagramConn = NoToken)

discardLostLease == clearDatagramConn /\ clearLease

\* wg.Wait and the priorities of runLease's results: the context, then a
\* terminal error, then a refresh; run acts on it.
runLeaseCollect ==
    /\ pc = "drain"
    /\ \A w \in Workers : At(w, "done")
    /\ LET results == {result[w] : w \in Workers} IN
       \/ /\ ctxDone \/ "terminal" \in results
          /\ pc' = "shutdown"
          /\ runErr' = IF ctxDone THEN "ctx" ELSE "terminal"
          /\ UNCHANGED <<control, leaseVars, dgVars>>
       \/ /\ ~ctxDone /\ "terminal" \notin results /\ "refresh" \in results
          /\ discardLostLease
          /\ control' = FALSE
          /\ pc' = "init"
          /\ UNCHANGED runErr
       \/ /\ ~ctxDone /\ results \cap {"terminal", "refresh"} = {}
          /\ pc' = "shutdown" /\ runErr' = "canceled"
          /\ UNCHANGED <<control, leaseVars, dgVars>>
    /\ UNCHANGED <<reply, leaseDone, cleanupErr, relayVars, workVars, clockVars, ctxDone, status>>

\* Mutant: the control client is reset before the token is unregistered.
shutdownResetsFirst ==
    /\ pc = "shutdown"
    /\ pc' = "done" /\ control' = FALSE
    /\ clearDatagramConn /\ clearLease
    /\ UNCHANGED <<srv, cleanupErr, reply, leaseDone, runErr, issued, workVars, clockVars, ctxDone, status>>

\* shutdown: unregister the held token (silently skipped without a control
\* client), close the signer, reset the control client.
shutdown ==
    /\ pc = "shutdown"
    /\ pc' = "done" /\ control' = FALSE
    /\ clearDatagramConn /\ clearLease
    /\ \E unregisterErr, signerErr \in BOOLEAN :
          /\ unregisterErr => token # NoToken /\ control
          /\ signerErr => tenant # 0
          /\ srv' = IF control /\ ~unregisterErr /\ srv = token THEN NoToken ELSE srv
          /\ cleanupErr' = (unregisterErr \/ signerErr)
    /\ UNCHANGED <<reply, leaseDone, runErr, issued, workVars, clockVars, ctxDone, status>>

----------------------------------------------------------------------------
(* The reverse slots.  wtok holds the capability of the connect request or *)
(* the token of the sign request; wgen the generation captured with it.    *)

notSlot == <<runVars, leaseVars, relayVars, dgVars, clockVars, ctxDone>>

\* openReverseSession reads the endpoint of the current lease.  A capability that
\* has run out costs the lease, even one that is still valid.
slotTop(s) ==
    /\ At(s, "top") /\ ~leaseCtxDone
    /\ IF token = NoToken \/ capExpired THEN Return(s, "refresh")
       ELSE Capture(s, "connect", token, generation)
    /\ UNCHANGED <<notSlot, status>>

\* The relay upgrades a connect request that carries the current capability, and
\* may refuse it once that has expired.
relayConnect(s) ==
    /\ At(s, "connect")
    /\ \/ wtok[s] = srv /\ Goto(s, "accepted")
       \/ (wtok[s] # srv \/ capExpired) /\ Goto(s, "rejected")
    /\ UNCHANGED <<notSlot, status>>

\* A transport error, an idle session, or a public client's TLS failure: the
\* slot starts over.
slotRetry(s) ==
    /\ wpc[s] \in {"connect", "session", "signing"}
    /\ Goto(s, "top")
    /\ UNCHANGED <<notSlot, status>>

\* A protocol violation of the relay: bad upgrade headers, an unknown marker,
\* a terminal error code.
slotTerminal(s) ==
    /\ wpc[s] \in {"connect", "session"}
    /\ ~leaseCtxDone
    /\ Return(s, "terminal")
    /\ UNCHANGED <<notSlot, status>>

\* Mutant: a rejection during a renewal counts as a lost lease.
reverseConnectNeverRenewing(s) == token # wtok[s] \/ generation # wgen[s]

reverseConnectRequestStale(s) == token # wtok[s] \/ generation # wgen[s] \/ renewing

\* The connect request was refused with a lost-lease code.
slotRejected(s) ==
    /\ At(s, "rejected") /\ ~leaseCtxDone
    /\ IF reverseConnectRequestStale(s) THEN Goto(s, "top") ELSE Return(s, "refresh")
    /\ UNCHANGED <<notSlot, status>>

\* ready(), at most once per lease, then wait for a marker.
slotReady(s) ==
    /\ At(s, "accepted")
    /\ Goto(s, "session")
    /\ status' = "ready"
    /\ UNCHANGED notSlot

\* A tenant connection is routed here: currentTenantTLS pins the generation,
\* the signer reads the current token when it sends /v1/sign.
slotClaimed(s) ==
    /\ At(s, "session")
    /\ Capture(s, "claimed", NoToken, generation)
    /\ UNCHANGED <<notSlot, status>>

slotSign(s) ==
    /\ At(s, "claimed")
    /\ Capture(s, "signing", token, wgen[s])
    /\ UNCHANGED <<notSlot, status>>

\* The relay signs for the current token: the handshake completes, the connection
\* is offered to the exposure and the slot starts over.  It may refuse any token.
relaySign(s) ==
    /\ At(s, "signing")
    /\ \/ wtok[s] = srv /\ Goto(s, "top")
       \/ Goto(s, "signRejected")
    /\ UNCHANGED <<notSlot, status>>

\* Mutant: a renewal whose answer was lost is forgotten.
signerNeverUncertain(s) == generation # wgen[s] \/ renewing

signerGenerationStale(s) == generation # wgen[s] \/ renewing \/ tokenUncertain

\* A refused signature is terminal unless the token may have rotated.
slotSignRejected(s) ==
    /\ At(s, "signRejected") /\ ~leaseCtxDone
    /\ IF signerGenerationStale(s) THEN Goto(s, "top") ELSE Return(s, "terminal")
    /\ UNCHANGED <<notSlot, status>>

slotCancelled(s) ==
    /\ leaseCtxDone
    /\ wpc[s] \in {"top", "connect", "rejected", "session", "signing", "signRejected"}
    /\ Return(s, "canceled")
    /\ UNCHANGED <<notSlot, status>>

slotProgress(s) == \/ slotTop(s) \/ slotRejected(s) \/ slotReady(s) \/ slotSign(s)
                   \/ slotSignRejected(s) \/ slotCancelled(s)
slotWorld(s)    == relayConnect(s) \/ relaySign(s) \/ slotRetry(s) \/ slotTerminal(s) \/ slotClaimed(s)

----------------------------------------------------------------------------
(* The renewal loop.  wtok and wgen hold the token and generation it       *)
(* renews; once the relay has answered, reply holds the new token.         *)

notRenew == <<pc, control, leaseDone, runErr, cleanupErr, ctxDone, status>>

renewTop ==
    /\ At(Renew, "top")
    /\ IF token = NoToken \/ expired THEN Return(Renew, "refresh")
       ELSE Capture(Renew, "wait", token, generation)
    /\ UNCHANGED <<notRenew, reply, leaseVars, relayVars, dgVars, clockVars>>

\* Mutant: the token is taken to be certain while a renewal is in flight.
beginRenewalCertain ==
    /\ At(Renew, "wait")
    /\ IF token # wtok[Renew] \/ generation # wgen[Renew] \/ renewing
       THEN Return(Renew, "refresh") /\ UNCHANGED renewing
       ELSE Goto(Renew, "sent") /\ renewing' = TRUE
    /\ UNCHANGED <<notRenew, reply, token, generation, tokenUncertain, tenant, nextGeneration,
                   signers, relayVars, dgVars, clockVars>>

\* The renewal time has come.  A lease shorter than renewBefore gets here
\* without looking at the context.
beginRenewal ==
    /\ At(Renew, "wait")
    /\ IF token # wtok[Renew] \/ generation # wgen[Renew] \/ renewing
       THEN Return(Renew, "refresh") /\ UNCHANGED <<renewing, tokenUncertain>>
       ELSE Goto(Renew, "sent") /\ renewing' = TRUE /\ tokenUncertain' = TRUE
    /\ UNCHANGED <<notRenew, reply, token, generation, tenant, nextGeneration, signers, relayVars,
                   dgVars, clockVars>>

\* The relay processes /renew.
relayRenew ==
    /\ At(Renew, "sent")
    /\ \/ /\ wtok[Renew] = srv /\ issued < MaxTokens
          /\ issued' = issued + 1 /\ srv' = issued + 1 /\ reply' = issued + 1
          /\ Goto(Renew, "renewed")
       \/ /\ wtok[Renew] # srv
          /\ Goto(Renew, "lost")
          /\ UNCHANGED <<relayVars, reply>>
    /\ UNCHANGED <<notRenew, leaseVars, dgVars, clockVars>>

\* The request or its answer is lost, cancelled or answered with a 5xx.
renewFails ==
    /\ wpc[Renew] \in {"sent", "renewed"}
    /\ Goto(Renew, "failed")
    /\ UNCHANGED <<notRenew, reply, leaseVars, relayVars, dgVars, clockVars>>

endRenewal == renewing' = FALSE

\* Mutant: a failed renewal is retried without looking at the context.
renewErrorIgnoresContext ==
    /\ wpc[Renew] \in {"lost", "failed"}
    /\ endRenewal
    /\ \/ At(Renew, "lost") /\ Return(Renew, "refresh")
       \/ At(Renew, "failed") /\ Goto(Renew, "backoff")
    /\ UNCHANGED <<notRenew, reply, token, generation, tokenUncertain, tenant, nextGeneration,
                   signers, relayVars, dgVars, clockVars>>

\* Mutant: an expired lease is reported as the context's error.
renewErrorBlamesContext ==
    /\ wpc[Renew] \in {"lost", "failed"}
    /\ endRenewal
    /\ \/ At(Renew, "lost") /\ Return(Renew, "refresh")
       \/ At(Renew, "failed") /\ (expired \/ leaseCtxDone) /\ Return(Renew, "canceled")
       \/ At(Renew, "failed") /\ ~expired /\ ~leaseCtxDone /\ Goto(Renew, "backoff")
    /\ UNCHANGED <<notRenew, reply, token, generation, tokenUncertain, tenant, nextGeneration,
                   signers, relayVars, dgVars, clockVars>>

\* A refused renewal is a lost lease, a terminal code fails the relay, an expired
\* lease is given up, and any other error is retried after a delay, which a context
\* that has ended does not even begin.
renewError ==
    /\ wpc[Renew] \in {"lost", "failed"}
    /\ endRenewal
    /\ \/ At(Renew, "lost") /\ Return(Renew, "refresh")
       \/ At(Renew, "failed") /\ Return(Renew, "terminal")
       \/ At(Renew, "failed") /\ expired /\ Return(Renew, "refresh")
       \/ At(Renew, "failed") /\ ~expired /\ leaseCtxDone /\ Return(Renew, "canceled")
       \/ At(Renew, "failed") /\ ~expired /\ ~leaseCtxDone /\ Goto(Renew, "backoff")
    /\ UNCHANGED <<notRenew, reply, token, generation, tokenUncertain, tenant, nextGeneration,
                   signers, relayVars, dgVars, clockVars>>

\* The delay is over; or the lease context ended during it, another worker's result
\* included; or the lease ran out before the timer was set.
renewBackoff ==
    /\ At(Renew, "backoff")
    /\ \/ Goto(Renew, "top")
       \/ leaseCtxDone /\ Return(Renew, "canceled")
       \/ expired /\ ~leaseCtxDone /\ Return(Renew, "refresh")
    /\ UNCHANGED <<notRenew, reply, leaseVars, relayVars, dgVars, clockVars>>

\* An answer without a token, expired, or with an unusable endpoint.
renewInvalid ==
    /\ At(Renew, "renewed")
    /\ Return(Renew, "terminal")
    /\ UNCHANGED <<notRenew, reply, leaseVars, relayVars, dgVars, clockVars>>

\* Mutant: the generation is not counted.
renewInstallUncounted ==
    /\ At(Renew, "renewed")
    /\ Goto(Renew, "clear")
    /\ token' = reply /\ generation' = nextGeneration + 1
    /\ renewing' = FALSE /\ tokenUncertain' = FALSE /\ expired' = FALSE /\ capExpired' = FALSE
    /\ UNCHANGED <<notRenew, reply, relayVars, dgVars, nextGeneration, tenant, signers>>

\* The answer is installed, if the lease is still the one that was renewed.
renewInstall ==
    /\ At(Renew, "renewed")
    /\ IF token # wtok[Renew] \/ generation # wgen[Renew]
       THEN Return(Renew, "refresh") /\ UNCHANGED <<leaseVars, clockVars>>
       ELSE /\ Goto(Renew, "clear")
            /\ token' = reply /\ generation' = nextGeneration + 1
            /\ nextGeneration' = nextGeneration + 1
            /\ renewing' = FALSE /\ tokenUncertain' = FALSE
            /\ expired' = FALSE /\ capExpired' = FALSE
            /\ UNCHANGED <<tenant, signers>>
    /\ UNCHANGED <<notRenew, reply, relayVars, dgVars>>

\* clearDatagramConn(nil, "lease renewed"), outside leaseMu.
renewClear ==
    /\ At(Renew, "clear")
    /\ Goto(Renew, "top")
    /\ clearDatagramConn
    /\ UNCHANGED <<notRenew, reply, leaseVars, relayVars, clockVars>>

renewCancelled ==
    /\ leaseCtxDone /\ At(Renew, "wait")
    /\ Return(Renew, "canceled")
    /\ UNCHANGED <<notRenew, reply, leaseVars, relayVars, dgVars, clockVars>>

renewProgress == \/ renewTop \/ beginRenewal \/ renewFails \/ renewError \/ renewBackoff \/ renewClear
                 \/ renewInstall \/ renewCancelled
renewWorld    == relayRenew \/ renewInvalid

----------------------------------------------------------------------------
(* The datagram loop.                                                      *)

notDg == <<runVars, leaseVars, relayVars, clockVars, ctxDone, status>>

dgTop ==
    /\ At(Datagram, "top") /\ ~leaseCtxDone
    /\ IF token = NoToken THEN Return(Datagram, "refresh")
       ELSE Capture(Datagram, "dial", token, generation)
    /\ UNCHANGED <<notDg, dgVars>>

\* dialQUICBackhaul: the relay authenticates the token.
relayDial ==
    /\ At(Datagram, "dial")
    /\ Goto(Datagram, IF wtok[Datagram] = srv THEN "dialed" ELSE "rejected")
    /\ UNCHANGED <<notDg, dgVars>>

dgDialFails ==
    /\ At(Datagram, "dial") /\ ~leaseCtxDone
    /\ Goto(Datagram, "top") \/ Return(Datagram, "terminal")
    /\ UNCHANGED <<notDg, dgVars>>

datagramTokenStale ==
    token # wtok[Datagram] \/ generation # wgen[Datagram] \/ renewing

dgRejected ==
    /\ At(Datagram, "rejected") /\ ~leaseCtxDone
    /\ IF datagramTokenStale THEN Goto(Datagram, "top") ELSE Return(Datagram, "refresh")
    /\ UNCHANGED <<notDg, dgVars>>

\* installDatagramConn and ready(udpAddr).
installDatagramConn ==
    /\ At(Datagram, "dialed")
    /\ Goto(Datagram, "receive")
    /\ datagramConn' = wtok[Datagram] /\ dgOpen' = TRUE
    /\ UNCHANGED notDg

\* ReceiveDatagram fails: the connection was closed here or by the relay.
dgDisconnected ==
    /\ At(Datagram, "receive")
    /\ datagramConn' = NoToken /\ dgOpen' = FALSE
    /\ IF leaseCtxDone THEN Return(Datagram, "canceled") ELSE Goto(Datagram, "top")
    /\ UNCHANGED notDg

dgCancelled ==
    /\ leaseCtxDone
    /\ wpc[Datagram] \in {"top", "dial", "rejected"}
    /\ IF At(Datagram, "top") THEN clearDatagramConn ELSE UNCHANGED dgVars
    /\ Return(Datagram, "canceled")
    /\ UNCHANGED notDg

\* The disconnection is certain once the connection is closed or the context
\* ended; otherwise it is the relay's doing.
dgProgress == \/ dgTop \/ dgRejected \/ installDatagramConn \/ dgCancelled
              \/ (~dgOpen \/ leaseCtxDone) /\ dgDisconnected
dgWorld    == relayDial \/ dgDialFails \/ dgDisconnected

----------------------------------------------------------------------------
(* The relay, the clock and the exposure.                                  *)

relayForgets ==
    /\ srv # NoToken
    /\ srv' = NoToken
    /\ UNCHANGED <<runVars, leaseVars, issued, workVars, dgVars, clockVars, ctxDone, status>>

leaseExpires ==
    /\ pc = "lease" /\ ~expired
    /\ expired' = TRUE /\ capExpired' = TRUE
    /\ UNCHANGED <<runVars, leaseVars, relayVars, workVars, dgVars, ctxDone, status>>

\* validateReverseEndpoint lets the capability run out before the lease does.
capabilityExpires ==
    /\ pc = "lease" /\ ~capExpired
    /\ capExpired' = TRUE
    /\ UNCHANGED <<runVars, leaseVars, relayVars, workVars, dgVars, expired, ctxDone, status>>

cancel ==
    /\ ~ctxDone
    /\ ctxDone' = TRUE
    /\ UNCHANGED <<runVars, leaseVars, relayVars, workVars, dgVars, clockVars, status>>

Init ==
    /\ pc = "init" /\ control = FALSE /\ reply = NoToken /\ leaseDone = FALSE
    /\ runErr = "none" /\ cleanupErr = FALSE
    /\ token = NoToken /\ generation = 0 /\ renewing = FALSE /\ tokenUncertain = FALSE
    /\ tenant = 0 /\ nextGeneration = 0 /\ signers = {}
    /\ srv = NoToken /\ issued = 0
    /\ wpc = [w \in Workers |-> "done"]
    /\ wtok = [w \in Workers |-> NoToken]
    /\ wgen = [w \in Workers |-> 0]
    /\ result = [w \in Workers |-> "none"]
    /\ datagramConn = NoToken /\ dgOpen = FALSE
    /\ expired = FALSE /\ capExpired = FALSE /\ ctxDone = FALSE
    /\ status = "connecting"

runProgress == \/ runCancelled \/ submitRegistration \/ runLeaseCancel \/ runLeaseCollect
               \/ shutdown

datagramLoop == UDPEnabled /\ (dgProgress \/ dgWorld)

Next ==
    \/ initializeControl \/ requestRegisterChallenge \/ relayRegister \/ submitFailed
    \/ submitInvalid \/ runProgress
    \/ \E s \in Slots : slotProgress(s) \/ slotWorld(s)
    \/ renewProgress \/ renewWorld
    \/ datagramLoop
    \/ relayForgets \/ leaseExpires \/ capabilityExpires \/ cancel

Fairness ==
    /\ WF_vars(runProgress)
    /\ \A s \in Slots : WF_vars(slotProgress(s))
    /\ \A s \in Slots : WF_vars(relaySign(s) \/ slotRetry(s))
    /\ WF_vars(renewProgress)
    /\ WF_vars(UDPEnabled /\ dgProgress)
    /\ WF_vars(UDPEnabled /\ (relayDial \/ dgDialFails))
    /\ WF_vars(srv # token /\ leaseExpires)

Spec == Init /\ [][Next]_vars /\ Fairness

----------------------------------------------------------------------------
(* Properties.                                                             *)

\* The type of every variable; generations are handed out once, so no worker has
\* captured one that is still to come; a capability does not outlive its lease.
TypeOK ==
    /\ pc \in {"init", "challenge", "submit", "reply", "lease", "drain", "shutdown", "done"}
    /\ control \in BOOLEAN /\ leaseDone \in BOOLEAN /\ cleanupErr \in BOOLEAN
    /\ runErr \in {"none", "ctx", "terminal", "canceled"}
    /\ reply \in 0..MaxTokens /\ token \in 0..MaxTokens /\ srv \in 0..MaxTokens
    /\ issued \in 0..MaxTokens
    /\ nextGeneration \in Nat
    /\ generation \in 0..nextGeneration /\ tenant \in 0..generation
    /\ signers \subseteq 0..nextGeneration
    /\ renewing \in BOOLEAN /\ tokenUncertain \in BOOLEAN
    /\ wpc \in [Workers -> {"top", "connect", "accepted", "rejected", "session", "claimed",
                            "signing", "signRejected", "wait", "sent", "renewed", "lost", "failed",
                            "backoff", "clear", "dial", "dialed", "receive", "done"}]
    /\ wtok \in [Workers -> 0..MaxTokens] /\ wgen \in [Workers -> 0..nextGeneration]
    /\ result \in [Workers -> {"none", "refresh", "terminal", "canceled"}]
    /\ datagramConn \in 0..MaxTokens /\ dgOpen \in BOOLEAN
    /\ expired \in BOOLEAN /\ capExpired \in BOOLEAN /\ (expired => capExpired)
    /\ ctxDone \in BOOLEAN
    /\ status \in {"connecting", "ready"}

\* Unless a renewal is in doubt, the relay's lease is the one held here or
\* none: the meaning of tokenUncertain, across lost answers and retries.
TokenCertain ==
    token # NoToken /\ ~tokenUncertain => srv \in {token, NoToken}

\* Every signer is owned by the current lease, so re-registration and
\* shutdown leave none open.
SignersOwned == signers = IF tenant = 0 THEN {} ELSE {tenant}

\* run never fails a relay with the context.Canceled of its own lease context.
NoBogusFailure == runErr # "canceled"

\* A worker gives the lease up only if it or its capability expired, or if the relay
\* holds neither the token held here nor one whose renewal answer is on its way: a
\* rejection of a token that has just been rotated never costs the lease.
RefreshJustified ==
    [][ \A w \in Workers :
          result[w] = "none" /\ result'[w] = "refresh" =>
              capExpired \/ srv = NoToken \/ (srv # token /\ ~At(Renew, "renewed")) ]_vars

\* A refused signature fails the relay (docs/usage.md:308), but only a refusal of the
\* token that is held here and that the relay has not rotated: what it answers to an
\* older token, or while a renewal is in doubt, does not count.
SignFailureIsCurrent ==
    [][ \A s \in Slots :
          At(s, "signRejected") /\ result'[s] = "terminal" =>
              wtok[s] = token /\ srv \in {token, NoToken} ]_vars

\* A shutdown that reports no cleanup error leaves no lease behind, as long as
\* no renewal was in doubt.
CertainLeaseReleased ==
    [][ pc = "shutdown" /\ pc' = "done" /\ token # NoToken /\ ~tokenUncertain /\ ~cleanupErr'
          => srv' = NoToken ]_vars

\* Once a renewal has been dealt with, the installed backhaul carries the
\* current token.
BackhaulHasCurrentToken ==
    UDPEnabled /\ At(Renew, "wait") => datagramConn \in {NoToken, token}

\* What does not depend on the state is evaluated where run begins.
AtStart == pc = "init" /\ issued = 0 /\ ~ctxDone

\* From the relay's answer through doAPI to the decision, "the code decides, not the
\* status range" (relay.go:1555-1557): a terminal code is terminal under a 429 or a
\* 503 too, a throttle is retried at any status and a capacity code under 503, answers
\* that broke off are retried, and a worker answers a lost lease, at any status, by
\* registering again.
DecisionContract ==
    \A s \in Statuses, c \in Codes, h \in RetryAfters, refresh \in BOOLEAN :
        LET decision == classifyRelayError(doAPI(s, "error", c, h), refresh)
            cutOff   == classifyRelayError(doAPI(s, "broken", c, h), refresh)
        IN  /\ c \in terminalAPIErrorCodes => decision = "terminal"
            /\ c = "rate_limited" \/ (c \in capacityCodes /\ s = 503) => decision = "retry"
            /\ c \in lostLeaseCodes /\ refresh <=> decision = "refresh"
            /\ success(s) \/ s \in {429, 500, 503} => cutOff = "retry"

\* Whatever Retry-After a relay sends, a retry waits at least the supervisor's
\* own interval, as long as the relay asks for, and never longer than five minutes;
\* the renewal loop sleeps, but never past its lease.
DelayContract ==
    LET asked    == {parseRetryAfter(h) : h \in RetryAfters}
        err(n)   == APIError(429, "rate_limited", n)
        delay(n) == relayRetryDelay(RetryWait, err(n))
    IN  \A n \in asked :
            /\ delay(n) \in RetryWait..maxRelayRetryDelay
            /\ delay(n) >= Lesser(n, maxRelayRetryDelay)
            /\ \A left \in Remaining : renewRetryDelay(err(n), left) \in 1..left

\* Decisions and delays, for every answer of a relay.
RetryDecisions == AtStart => DecisionContract /\ DelayContract

\* When the exposure's context ends, run ends, whatever the workers wait for.
CancelTerminates == ctxDone ~> pc = "done"

\* A lease the relay has dropped is given up: the supervisor does not go on
\* serving a dead lease.
LostLeaseGivenUp ==
    (pc = "lease" /\ srv # token) ~> (pc # "lease" \/ srv = token)
=============================================================================
