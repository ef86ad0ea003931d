-------------------------- MODULE RelayLeaseProofs --------------------------
(***************************************************************************)
(* Proofs about one relay supervisor: the types of its state, the meaning  *)
(* of tokenUncertain, the ownership of signers, the reasons for which a    *)
(* worker may give the lease up or fail the relay, the lease left behind   *)
(* at the end, and the retry policy.                                       *)
(***************************************************************************)
EXTENDS RelayLease, TLAPS

----------------------------------------------------------------------------
(* Delays.                                                                 *)

\* Whatever header a relay sends, parseRetryAfter makes a number of seconds
\* of it.
LEMMA ParsedSeconds == \A h \in RetryAfters : parseRetryAfter(h) \in Nat
<1> SUFFICES ASSUME NEW h \in RetryAfters PROVE parseRetryAfter(h) \in Nat
  OBVIOUS
<1>1. CASE h \in {Header("none", 0), Header("overflow", 0)}
  BY <1>1 DEF Header, parseRetryAfter
<1>2. CASE h \in {Header("seconds", n) : n \in {0, 3, 4, 300, 301, 2147483647}}
  BY <1>2 DEF Header, parseRetryAfter
<1>3. CASE h \in {Header("date", n) : n \in {-60, 90, 86400}}
  BY <1>3 DEF Header, parseRetryAfter, Greater
<1> QED
  BY <1>1, <1>2, <1>3 DEF RetryAfters

----------------------------------------------------------------------------
(* Types.                                                                  *)

WorkerStates == {"top", "connect", "accepted", "rejected", "session", "claimed",
                 "signing", "signRejected", "wait", "sent", "renewed", "lost", "failed",
                 "backoff", "clear", "dial", "dialed", "receive", "done"}
Errors       == {"none", "refresh", "terminal", "canceled"}

WorkType ==
    /\ wpc \in [Workers -> WorkerStates]
    /\ wtok \in [Workers -> 0..MaxTokens] /\ wgen \in [Workers -> 0..nextGeneration]
    /\ result \in [Workers -> Errors]

LeaseType ==
    /\ token \in 0..MaxTokens /\ nextGeneration \in Nat
    /\ generation \in 0..nextGeneration /\ tenant \in 0..generation
    /\ signers \subseteq 0..nextGeneration
    /\ renewing \in BOOLEAN /\ tokenUncertain \in BOOLEAN

RunType ==
    /\ pc \in {"init", "challenge", "submit", "reply", "lease", "drain", "shutdown", "done"}
    /\ control \in BOOLEAN /\ leaseDone \in BOOLEAN /\ cleanupErr \in BOOLEAN
    /\ runErr \in {"none", "ctx", "terminal", "canceled"}
    /\ reply \in 0..MaxTokens

RelayType == srv \in 0..MaxTokens /\ issued \in 0..MaxTokens

RestType ==
    /\ datagramConn \in 0..MaxTokens /\ dgOpen \in BOOLEAN
    /\ expired \in BOOLEAN /\ capExpired \in BOOLEAN /\ (expired => capExpired)
    /\ ctxDone \in BOOLEAN /\ status \in {"connecting", "ready"}

\* The type invariant, by the part of the program that writes the variables.
LEMMA TypeParts == TypeOK <=> RunType /\ LeaseType /\ RelayType /\ WorkType /\ RestType
BY DEF TypeOK, RunType, LeaseType, RelayType, WorkType, RestType, WorkerStates, Errors

\* Who the workers are.
LEMMA WorkerNames ==
    /\ Renew \in Workers /\ Slots \subseteq Workers /\ (UDPEnabled => Datagram \in Workers)
    /\ Renew \notin Slots /\ Datagram \notin Slots /\ Renew # Datagram
BY LeaseAssumption DEF Workers, Renew, Datagram

\* A worker that moves, captures or returns stays well typed.
LEMMA WorkMoves ==
    ASSUME WorkType, LeaseType, NEW w \in Workers, nextGeneration' \in Nat,
           nextGeneration <= nextGeneration',
           \/ \E p \in WorkerStates : Goto(w, p)
           \/ \E e \in Errors : Return(w, e)
           \/ \E p \in WorkerStates, t \in 0..MaxTokens, g \in 0..nextGeneration :
                 Capture(w, p, t, g)
    PROVE  WorkType'
<1>1. 0..nextGeneration \subseteq 0..nextGeneration'
  BY DEF LeaseType
<1>2. wgen \in [Workers -> 0..nextGeneration'] /\ "done" \in WorkerStates
  BY <1>1 DEF WorkType, WorkerStates
<1>3. ASSUME NEW p \in WorkerStates, Goto(w, p) PROVE WorkType'
  BY <1>2, <1>3 DEF WorkType, Goto
<1>4. ASSUME NEW e \in Errors, Return(w, e) PROVE WorkType'
  BY <1>2, <1>4 DEF WorkType, Return
<1>5. ASSUME NEW p \in WorkerStates, NEW t \in 0..MaxTokens, NEW g \in 0..nextGeneration,
             Capture(w, p, t, g)
      PROVE  WorkType'
  BY <1>1, <1>2, <1>5 DEF WorkType, Capture
<1> QED
  BY <1>3, <1>4, <1>5

----------------------------------------------------------------------------
(* The steps of the slots and of the datagram loop have the same shapes.   *)

\* Worker w takes position p with token t, generation g and result r, and no
\* other worker moves.
Became(w, p, t, g, r) ==
    /\ wpc'[w] = p /\ wtok'[w] = t /\ wgen'[w] = g /\ result'[w] = r
    /\ \A u \in Workers \ {w} : /\ wpc'[u] = wpc[u] /\ wtok'[u] = wtok[u]
                                /\ wgen'[u] = wgen[u] /\ result'[u] = result[u]

\* What Goto, Return and Capture do, worker by worker.
LEMMA Becomes ==
    ASSUME WorkType, NEW w \in Workers, NEW p, NEW t, NEW g
    PROVE  /\ Goto(w, p) => Became(w, p, wtok[w], wgen[w], result[w])
           /\ Return(w, p) => Became(w, "done", wtok[w], wgen[w], p)
           /\ Capture(w, p, t, g) => Became(w, p, t, g, result[w])
<1>1. Goto(w, p) => Became(w, p, wtok[w], wgen[w], result[w])
  BY DEF WorkType, Goto, Became
<1>2. Return(w, p) => Became(w, "done", wtok[w], wgen[w], p)
  BY DEF WorkType, Return, Became
<1>3. Capture(w, p, t, g) => Became(w, p, t, g, result[w])
  BY DEF WorkType, Capture, Became
<1> QED
  BY <1>1, <1>2, <1>3

\* What a rejection says, and to whom.
Rejected(w, p) ==
    /\ p = "rejected" => (wtok[w] # srv \/ capExpired) /\ wpc[w] \in {"connect", "dial"}
    /\ p = "signRejected" => wpc[w] = "signing"

WorkerMove(w) ==
    \E p \in {"top", "accepted", "rejected", "session", "signRejected", "dialed", "receive"} :
        Goto(w, p) /\ Rejected(w, p)

WorkerCapture(w) ==
    \/ token # NoToken /\ \E p \in {"connect", "dial"} : Capture(w, p, token, generation)
    \/ Capture(w, "claimed", NoToken, generation)
    \/ Capture(w, "signing", token, wgen[w])

WorkerReturn(w) ==
    \/ /\ Return(w, "refresh") /\ ~leaseCtxDone
       /\ \/ token = NoToken \/ capExpired
          \/ /\ wpc[w] = "rejected" /\ ~renewing
             /\ token = wtok[w] /\ generation = wgen[w]
    \/ /\ Return(w, "terminal") /\ ~leaseCtxDone
       /\ wpc[w] = "signRejected" => generation = wgen[w] /\ ~renewing /\ ~tokenUncertain
    \/ Return(w, "canceled") /\ leaseCtxDone

WorkerStep(w) ==
    /\ w \in Workers \ {Renew} /\ wpc[w] # "done"
    /\ WorkerMove(w) \/ WorkerCapture(w) \/ WorkerReturn(w)
    /\ UNCHANGED <<runVars, leaseVars, relayVars, clockVars, ctxDone>>
    /\ status' \in {status, "ready"}
    /\ datagramConn' \in {datagramConn, NoToken, wtok[w]}
    /\ dgOpen' \in BOOLEAN

\* A slot takes worker steps.
LEMMA SlotSteps ==
    ASSUME TypeOK, NEW s \in Slots, slotProgress(s) \/ slotWorld(s)
    PROVE  WorkerStep(s)
<1> USE WorkerNames
<1> DEFINE rest == /\ UNCHANGED <<runVars, leaseVars, relayVars, clockVars, ctxDone>>
                   /\ status' \in {status, "ready"}
                   /\ datagramConn' \in {datagramConn, NoToken, wtok[s]} /\ dgOpen' \in BOOLEAN
<1>a. ASSUME UNCHANGED notSlot, status' \in {status, "ready"} PROVE rest
  BY <1>a DEF notSlot, dgVars, TypeOK
<1>b. ASSUME rest, wpc[s] # "done", WorkerMove(s) \/ WorkerCapture(s) \/ WorkerReturn(s)
      PROVE  WorkerStep(s)
  BY <1>b DEF WorkerStep
<1> HIDE DEF rest
<1>1. CASE slotTop(s)
  BY <1>1, <1>a, <1>b DEF slotTop, At, WorkerCapture, WorkerReturn
<1>2. CASE relayConnect(s)
  BY <1>2, <1>a, <1>b DEF relayConnect, At, WorkerMove, Rejected
<1>3. CASE slotRetry(s)
  BY <1>3, <1>a, <1>b DEF slotRetry, WorkerMove, Rejected
<1>4. CASE slotTerminal(s)
  BY <1>4, <1>a, <1>b DEF slotTerminal, WorkerReturn
<1>5. CASE slotRejected(s)
  <2>1. CASE reverseConnectRequestStale(s)
    BY <1>5, <2>1, <1>a, <1>b DEF slotRejected, At, WorkerMove, Rejected
  <2>2. CASE ~reverseConnectRequestStale(s)
    BY <1>5, <2>2, <1>a, <1>b DEF slotRejected, reverseConnectRequestStale, At, WorkerReturn
  <2> QED
    BY <2>1, <2>2
<1>6. CASE slotReady(s)
  BY <1>6, <1>a, <1>b DEF slotReady, At, WorkerMove, Rejected
<1>7. CASE slotClaimed(s)
  BY <1>7, <1>a, <1>b DEF slotClaimed, At, WorkerCapture
<1>8. CASE slotSign(s)
  BY <1>8, <1>a, <1>b DEF slotSign, At, WorkerCapture
<1>9. CASE relaySign(s)
  BY <1>9, <1>a, <1>b DEF relaySign, At, WorkerMove, Rejected
<1>10. CASE slotSignRejected(s)
  <2>1. CASE signerGenerationStale(s)
    BY <1>10, <2>1, <1>a, <1>b DEF slotSignRejected, At, WorkerMove, Rejected
  <2>2. CASE ~signerGenerationStale(s)
    BY <1>10, <2>2, <1>a, <1>b DEF slotSignRejected, signerGenerationStale, At, WorkerReturn
  <2> QED
    BY <2>1, <2>2
<1>11. CASE slotCancelled(s)
  BY <1>11, <1>a, <1>b DEF slotCancelled, WorkerReturn
<1> QED
  BY <1>1, <1>2, <1>3, <1>4, <1>5, <1>6, <1>7, <1>8, <1>9, <1>10, <1>11
  DEF slotProgress, slotWorld

\* The datagram loop takes worker steps.
LEMMA DatagramSteps ==
    ASSUME TypeOK, datagramLoop
    PROVE  WorkerStep(Datagram)
<1> USE WorkerNames
<1> DEFINE rest == /\ UNCHANGED <<runVars, leaseVars, relayVars, clockVars, ctxDone>>
                   /\ status' \in {status, "ready"}
                   /\ datagramConn' \in {datagramConn, NoToken, wtok[Datagram]}
                   /\ dgOpen' \in BOOLEAN
<1>a. ASSUME UNCHANGED notDg,
             \/ UNCHANGED dgVars \/ clearDatagramConn
             \/ datagramConn' \in {NoToken, wtok[Datagram]} /\ dgOpen' \in BOOLEAN
      PROVE  rest
  BY <1>a DEF notDg, dgVars, clearDatagramConn, TypeOK
<1>b. ASSUME rest, wpc[Datagram] # "done",
             WorkerMove(Datagram) \/ WorkerCapture(Datagram) \/ WorkerReturn(Datagram)
      PROVE  WorkerStep(Datagram)
  BY <1>b DEF WorkerStep, datagramLoop
<1> HIDE DEF rest
<1>1. CASE dgTop
  BY <1>1, <1>a, <1>b DEF dgTop, At, WorkerCapture, WorkerReturn
<1>2. CASE relayDial
  BY <1>2, <1>a, <1>b DEF relayDial, At, WorkerMove, Rejected
<1>3. CASE dgDialFails
  BY <1>3, <1>a, <1>b DEF dgDialFails, At, WorkerMove, Rejected, WorkerReturn
<1>4. CASE dgRejected
  BY <1>4, <1>a, <1>b
  DEF dgRejected, datagramTokenStale, At, WorkerMove, Rejected, WorkerReturn
<1>5. CASE installDatagramConn
  BY <1>5, <1>a, <1>b DEF installDatagramConn, At, WorkerMove, Rejected
<1>6. CASE dgDisconnected
  BY <1>6, <1>a, <1>b DEF dgDisconnected, At, WorkerMove, Rejected, WorkerReturn
<1>7. CASE dgCancelled
  BY <1>7, <1>a, <1>b DEF dgCancelled, At, WorkerReturn
<1> QED
  BY <1>1, <1>2, <1>3, <1>4, <1>5, <1>6, <1>7 DEF datagramLoop, dgProgress, dgWorld

\* What a step is, with the slots and the datagram loop taken together.
LEMMA StepCases ==
    ASSUME TypeOK, Next
    PROVE  \/ initializeControl \/ requestRegisterChallenge \/ relayRegister \/ submitFailed
           \/ submitInvalid \/ runCancelled \/ submitRegistration \/ runLeaseCancel
           \/ runLeaseCollect \/ shutdown
           \/ \E w \in Workers : WorkerStep(w)
           \/ renewTop \/ beginRenewal \/ renewFails \/ renewError \/ renewBackoff \/ renewClear
           \/ renewInstall \/ renewCancelled \/ relayRenew \/ renewInvalid
           \/ relayForgets \/ leaseExpires \/ capabilityExpires \/ cancel
<1>1. ASSUME NEW s \in Slots, slotProgress(s) \/ slotWorld(s)
      PROVE  \E w \in Workers : WorkerStep(w)
  BY <1>1, SlotSteps, WorkerNames
<1>2. ASSUME datagramLoop PROVE \E w \in Workers : WorkerStep(w)
  BY <1>2, DatagramSteps, WorkerNames DEF datagramLoop
<1> QED
  BY <1>1, <1>2 DEF Next, runProgress, renewProgress, renewWorld

----------------------------------------------------------------------------
(* Type correctness.                                                       *)

\* The initial state is well typed.
LEMMA TypeInit == Init => TypeOK
<1> SUFFICES ASSUME Init PROVE RunType /\ LeaseType /\ RelayType /\ WorkType /\ RestType
  BY TypeParts
<1>1. MaxTokens \in Nat /\ NoToken \in 0..MaxTokens /\ 0 \in 0..0
  BY LeaseAssumption DEF NoToken
<1>2. RunType /\ RelayType /\ RestType
  BY <1>1 DEF Init, RunType, RelayType, RestType, NoToken
<1>3. LeaseType
  BY <1>1 DEF Init, LeaseType
<1>4. WorkType
  BY <1>1 DEF Init, WorkType, WorkerStates, Errors
<1> QED
  BY <1>2, <1>3, <1>4

\* A step of the renewal loop that only moves it keeps the types.
LEMMA RenewMoves ==
    ASSUME TypeOK, UNCHANGED <<notRenew, reply, token, generation, tenant, nextGeneration, signers>>,
           renewing' \in BOOLEAN, tokenUncertain' \in BOOLEAN,
           UNCHANGED <<dgVars, clockVars>>, RelayType',
           \/ \E p \in WorkerStates : Goto(Renew, p)
           \/ \E e \in Errors : Return(Renew, e)
           \/ \E p \in WorkerStates : Capture(Renew, p, token, generation)
    PROVE  TypeOK'
<1>1. WorkType /\ LeaseType
  BY TypeParts
<1>2. WorkType'
  <2>1. token \in 0..MaxTokens /\ generation \in 0..nextGeneration
        /\ nextGeneration' \in Nat /\ nextGeneration <= nextGeneration'
    BY <1>1 DEF LeaseType
  <2> QED
    BY <1>1, <2>1, WorkMoves, WorkerNames
<1>3. RunType' /\ LeaseType' /\ RestType'
  BY DEF TypeOK, RunType, LeaseType, RestType, notRenew, dgVars, clockVars
<1> QED
  BY <1>2, <1>3 DEF TypeOK, RunType, LeaseType, RelayType, WorkType, RestType, WorkerStates, Errors

\* A step keeps the types.
LEMMA TypeNext == ASSUME TypeOK, [Next]_vars PROVE TypeOK'
<1> DEFINE Whole == RunType' /\ LeaseType' /\ RelayType' /\ WorkType' /\ RestType'
<1>a. Whole => TypeOK'
  BY DEF TypeOK, RunType, LeaseType, RelayType, WorkType, RestType, WorkerStates, Errors
<1>b. RunType /\ LeaseType /\ RelayType /\ WorkType /\ RestType
  BY TypeParts
<1>c. ASSUME UNCHANGED leaseVars PROVE LeaseType'
  BY <1>b, <1>c DEF LeaseType, leaseVars
<1>d. ASSUME UNCHANGED relayVars PROVE RelayType'
  BY <1>b, <1>d DEF RelayType, relayVars
<1>e. ASSUME UNCHANGED <<workVars, nextGeneration>> PROVE WorkType'
  BY <1>b, <1>e DEF WorkType, workVars
<1>f. ASSUME UNCHANGED <<dgVars, clockVars, ctxDone, status>> PROVE RestType'
  BY <1>b, <1>f DEF RestType, dgVars, clockVars
<1>g. ASSUME UNCHANGED runVars PROVE RunType'
  BY <1>b, <1>g DEF RunType, runVars
<1>h. ASSUME UNCHANGED notRun, RunType' PROVE Whole
  BY <1>h, <1>c, <1>d, <1>e, <1>f DEF notRun, leaseVars
<1>j. ASSUME clearLease PROVE LeaseType' /\ UNCHANGED nextGeneration
  <2>1. 0 \in 0..MaxTokens /\ 0 \in 0..nextGeneration /\ 0 \in 0..0
    BY <1>b, LeaseAssumption DEF LeaseType
  <2> QED
    BY <1>j, <1>b, <2>1 DEF clearLease, LeaseType, NoToken
<1>k. ASSUME clearDatagramConn, UNCHANGED <<clockVars, ctxDone, status>> PROVE RestType'
  <2>1. datagramConn' \in 0..MaxTokens
    BY <1>k, LeaseAssumption DEF clearDatagramConn, NoToken
  <2>2. dgOpen' \in BOOLEAN
    BY <1>k, <1>b DEF clearDatagramConn, RestType
  <2> QED
    BY <1>k, <1>b, <2>1, <2>2 DEF RestType, clockVars
<1> HIDE DEF Whole
<1>1. CASE initializeControl
  <2>1. RunType'
    BY <1>1, <1>b DEF initializeControl, RunType
  <2> QED
    BY <1>1, <2>1, <1>h, <1>a DEF initializeControl
<1>2. CASE requestRegisterChallenge
  <2>1. RunType'
    BY <1>2, <1>b DEF requestRegisterChallenge, RunType
  <2> QED
    BY <1>2, <2>1, <1>h, <1>a DEF requestRegisterChallenge
<1>3. CASE relayRegister
  <2>1. issued + 1 \in 0..MaxTokens
    BY <1>3, <1>b, LeaseAssumption DEF relayRegister, RelayType
  <2>2. RunType' /\ RelayType'
    BY <1>3, <1>b, <2>1 DEF relayRegister, RunType, RelayType
  <2> QED
    BY <1>3, <2>2, <1>c, <1>e, <1>f, <1>a DEF relayRegister, leaseVars, Whole
<1>4. CASE submitFailed
  <2>1. RunType'
    BY <1>4, <1>b DEF submitFailed, RunType
  <2> QED
    BY <1>4, <2>1, <1>h, <1>a DEF submitFailed
<1>5. CASE submitInvalid
  <2>1. RunType'
    BY <1>5, <1>b DEF submitInvalid, RunType
  <2>2. RelayType'
    BY <1>5, <1>b, LeaseAssumption DEF submitInvalid, RelayType, NoToken
  <2>3. nextGeneration' \in Nat /\ 0..nextGeneration \subseteq 0..nextGeneration'
    BY <1>5, <1>b DEF submitInvalid, LeaseType
  <2>4. LeaseType' /\ WorkType'
    BY <1>5, <1>b, <2>3 DEF submitInvalid, LeaseType, WorkType, workVars
  <2> QED
    BY <1>5, <2>1, <2>2, <2>4, <1>f, <1>a DEF submitInvalid, Whole
<1>6. CASE runCancelled
  <2>1. RunType'
    BY <1>6, <1>b DEF runCancelled, RunType
  <2> QED
    BY <1>6, <2>1, <1>h, <1>a DEF runCancelled
<1>7. CASE submitRegistration
  <2>1. RunType'
    BY <1>7, <1>b DEF submitRegistration, RunType
  <2>2. nextGeneration' \in Nat /\ 0..nextGeneration \subseteq 0..nextGeneration'
        /\ nextGeneration + 1 \in 0..nextGeneration' /\ nextGeneration + 1 \in 0..(nextGeneration + 1)
    BY <1>7, <1>b DEF submitRegistration, LeaseType
  <2>3. LeaseType'
    BY <1>7, <1>b, <2>2 DEF submitRegistration, LeaseType, RunType
  <2>4. WorkType'
    BY <1>7, <1>b, <2>2 DEF submitRegistration, WorkType, WorkerStates, Errors
  <2>5. RestType'
    BY <1>7, <1>b DEF submitRegistration, RestType, dgVars
  <2> QED
    BY <1>7, <2>1, <2>3, <2>4, <2>5, <1>d, <1>a DEF submitRegistration, Whole
<1>8. CASE runLeaseCancel
  <2>1. RunType'
    BY <1>8, <1>b DEF runLeaseCancel, RunType
  <2> QED
    BY <1>8, <2>1, <1>h, <1>a DEF runLeaseCancel
<1>9. CASE runLeaseCollect
  <2>1. RunType'
    BY <1>9, <1>b DEF runLeaseCollect, RunType
  <2>2. LeaseType' /\ RestType' /\ UNCHANGED nextGeneration
    BY <1>9, <1>c, <1>f, <1>j, <1>k DEF runLeaseCollect, discardLostLease, leaseVars
  <2> QED
    BY <1>9, <2>1, <2>2, <1>d, <1>e, <1>a DEF runLeaseCollect, Whole
<1>10. CASE shutdown
  <2>1. cleanupErr' \in BOOLEAN
    BY <1>10 DEF shutdown
  <2>2. RunType'
    BY <1>10, <1>b, <2>1 DEF shutdown, RunType
  <2>3. RelayType'
    BY <1>10, <1>b, LeaseAssumption DEF shutdown, RelayType, NoToken
  <2> QED
    BY <1>10, <2>2, <2>3, <1>j, <1>k, <1>e, <1>a DEF shutdown, Whole
<1>11. ASSUME NEW w \in Workers, WorkerStep(w) PROVE TypeOK'
  <2>1. WorkType'
    <3>1. token \in 0..MaxTokens /\ NoToken \in 0..MaxTokens /\ generation \in 0..nextGeneration
          /\ wgen[w] \in 0..nextGeneration
      BY <1>b, LeaseAssumption DEF LeaseType, WorkType, NoToken
    <3>2. nextGeneration' \in Nat /\ nextGeneration <= nextGeneration'
      BY <1>11, <1>b DEF WorkerStep, leaseVars, LeaseType
    <3>3. CASE WorkerMove(w)
      BY <3>3, <3>2, <1>b, WorkMoves DEF WorkerMove, WorkerStates
    <3>4. CASE WorkerCapture(w)
      BY <3>4, <3>1, <3>2, <1>b, WorkMoves DEF WorkerCapture, WorkerStates
    <3>5. CASE WorkerReturn(w)
      BY <3>5, <3>2, <1>b, WorkMoves DEF WorkerReturn, Errors
    <3> QED
      BY <1>11, <3>3, <3>4, <3>5 DEF WorkerStep
  <2>2. RestType'
    BY <1>11, <1>b, LeaseAssumption DEF WorkerStep, RestType, WorkType, NoToken, clockVars
  <2> QED
    BY <1>11, <2>1, <2>2, <1>c, <1>d, <1>g, <1>a DEF WorkerStep, Whole
<1>12. CASE renewTop
  BY <1>12, <1>b, <1>d, RenewMoves
  DEF renewTop, TypeOK, WorkerStates, Errors, leaseVars
<1>13. CASE beginRenewal
  BY <1>13, <1>b, <1>d, RenewMoves DEF beginRenewal, TypeOK, WorkerStates, Errors
<1>14. CASE renewFails
  BY <1>14, <1>b, <1>d, RenewMoves DEF renewFails, TypeOK, WorkerStates, leaseVars
<1>15. CASE renewError
  <2>1. (\E p \in WorkerStates : Goto(Renew, p)) \/ (\E e \in Errors : Return(Renew, e))
    BY <1>15 DEF renewError, WorkerStates, Errors
  <2> QED
    BY <1>15, <2>1, <1>d, RenewMoves DEF renewError, endRenewal, TypeOK
<1>16. CASE renewClear
  <2>1. WorkType'
    BY <1>16, <1>b, WorkMoves, WorkerNames DEF renewClear, WorkerStates, leaseVars, LeaseType
  <2>2. RunType'
    BY <1>16, <1>b DEF renewClear, notRenew, RunType
  <2> QED
    BY <1>16, <2>1, <2>2, <1>c, <1>d, <1>k, <1>a DEF renewClear, notRenew, Whole
<1>17. CASE renewInstall
  <2>1. CASE token # wtok[Renew] \/ generation # wgen[Renew]
    BY <1>17, <2>1, <1>b, <1>d, RenewMoves DEF renewInstall, TypeOK, Errors, leaseVars
  <2>2. CASE ~(token # wtok[Renew] \/ generation # wgen[Renew])
    <3>1. nextGeneration' \in Nat /\ 0..nextGeneration \subseteq 0..nextGeneration'
          /\ nextGeneration <= nextGeneration' /\ nextGeneration + 1 \in 0..nextGeneration'
          /\ tenant \in 0..(nextGeneration + 1)
      BY <1>17, <2>2, <1>b DEF renewInstall, LeaseType
    <3>2. LeaseType'
      BY <1>17, <2>2, <1>b, <3>1 DEF renewInstall, LeaseType, RunType
    <3>3. WorkType'
      BY <1>17, <2>2, <1>b, <3>1, WorkMoves, WorkerNames DEF renewInstall, WorkerStates
    <3>4. RunType' /\ RestType'
      BY <1>17, <2>2, <1>b DEF renewInstall, notRenew, RunType, RestType, dgVars
    <3> QED
      BY <1>17, <3>2, <3>3, <3>4, <1>d, <1>a DEF renewInstall, Whole
  <2> QED
    BY <2>1, <2>2
<1>18. CASE renewCancelled
  BY <1>18, <1>b, <1>d, RenewMoves DEF renewCancelled, TypeOK, Errors, leaseVars
<1>19. CASE relayRenew
  <2>1. RelayType' /\ reply' \in 0..MaxTokens
    BY <1>19, <1>b, LeaseAssumption DEF relayRenew, RelayType, RunType, relayVars
  <2>2. RunType'
    BY <1>19, <2>1, <1>b DEF relayRenew, notRenew, RunType
  <2>3. WorkType'
    BY <1>19, <1>b, WorkMoves, WorkerNames DEF relayRenew, WorkerStates, leaseVars, LeaseType
  <2> QED
    BY <1>19, <2>1, <2>2, <2>3, <1>c, <1>f, <1>a DEF relayRenew, notRenew, Whole
<1>25. CASE renewBackoff
  BY <1>25, <1>b, <1>d, RenewMoves DEF renewBackoff, TypeOK, WorkerStates, Errors, leaseVars
<1>20. CASE renewInvalid
  BY <1>20, <1>b, <1>d, RenewMoves DEF renewInvalid, TypeOK, Errors, leaseVars
<1>21. CASE relayForgets
  <2>1. RelayType'
    BY <1>21, <1>b, LeaseAssumption DEF relayForgets, RelayType, NoToken
  <2> QED
    BY <1>21, <2>1, <1>c, <1>e, <1>f, <1>g, <1>a DEF relayForgets, leaseVars, Whole
<1>22. CASE leaseExpires \/ capabilityExpires
  <2>1. RestType'
    BY <1>22, <1>b DEF leaseExpires, capabilityExpires, RestType, dgVars
  <2> QED
    BY <1>22, <2>1, <1>c, <1>d, <1>e, <1>g, <1>a DEF leaseExpires, capabilityExpires, leaseVars, Whole
<1>23. CASE cancel
  <2>1. RestType'
    BY <1>23, <1>b DEF cancel, RestType, dgVars, clockVars
  <2> QED
    BY <1>23, <2>1, <1>c, <1>d, <1>e, <1>g, <1>a DEF cancel, leaseVars, Whole
<1>24. CASE UNCHANGED vars
  BY <1>24, <1>c, <1>d, <1>e, <1>f, <1>g, <1>a DEF vars, leaseVars, Whole
<1> QED
  BY <1>1, <1>2, <1>3, <1>4, <1>5, <1>6, <1>7, <1>8, <1>9, <1>10, <1>11, <1>12, <1>13, <1>14,
     <1>15, <1>16, <1>17, <1>18, <1>19, <1>20, <1>21, <1>22, <1>23, <1>24, <1>25, StepCases

\* The state of a relay supervisor is well typed, and no worker has captured a
\* generation that is still to be given out (registerLease, runRenewLoop).
THEOREM TypeCorrect == Spec => []TypeOK
BY TypeInit, TypeNext, PTL DEF Spec

----------------------------------------------------------------------------
(* The inductive invariant.                                                *)

Registering == {"init", "challenge", "submit", "reply"}
Leased      == {"lease", "drain"}
InRenewal   == {"sent", "renewed", "lost", "failed"}
Asked       == {"connect", "rejected", "signing", "signRejected", "dial", "sent", "lost", "wait"}

\* Workers run while a lease is held, and whoever holds one has a control client.
Phases ==
    /\ pc \notin Leased => \A w \in Workers : wpc[w] = "done"
    /\ pc \in Registering => token = NoToken /\ tenant = 0
    /\ pc \in Leased => token # NoToken
    /\ pc = "lease" => ~leaseDone
    /\ pc = "drain" => leaseDone
    /\ pc \in {"challenge", "submit", "reply"} \cup Leased \/ token # NoToken => control

\* Whoever cancels the lease context has a reason other than that context.
Results ==
    /\ \A w \in Workers : wpc[w] # "done" => result[w] = "none"
    /\ ~leaseCtxDone => \A w \in Workers : result[w] # "canceled"
    /\ pc = "drain" /\ ~ctxDone => \E w \in Workers : result[w] \in {"refresh", "terminal"}

\* A token is known here only after the relay issued it, and the answer under way
\* carries the newest one.
Issued ==
    /\ srv <= issued /\ reply <= issued /\ token <= issued
    /\ \A w \in Workers : wtok[w] <= issued
    /\ pc = "reply" \/ wpc[Renew] = "renewed" => reply # NoToken /\ srv \in {reply, NoToken}

\* The renewal loop renews the lease that is held, and marks it while it does.
Renewal ==
    /\ wpc[Renew] \in InRenewal \cup {"wait"} => token = wtok[Renew] /\ generation = wgen[Renew]
    /\ wpc[Renew] \in InRenewal => renewing /\ tokenUncertain
    /\ renewing => wpc[Renew] \in InRenewal \cup {"done"}

\* A refused renewal stays refused; a refused connect request too, or its capability
\* has expired since the lease was last renewed; and a handshake of the current
\* generation was signed for with the current token.
Rejections ==
    /\ \A w \in Workers : wpc[w] \in Asked => wtok[w] # NoToken
    /\ \A w \in Workers : wpc[w] = "lost" => srv # wtok[w]
    /\ \A w \in Workers : wpc[w] = "rejected" =>
                              srv # wtok[w] \/ capExpired \/ wgen[w] # generation
    /\ \A w \in Workers : wpc[w] \in {"signing", "signRejected"} /\ wgen[w] = generation =>
                              wtok[w] = token

LeaseInv == /\ TypeOK /\ Phases /\ Results /\ Issued /\ Renewal /\ Rejections
            /\ TokenCertain /\ SignersOwned /\ NoBogusFailure

\* The invariant holds where run begins.
LEMMA InvInit == Init => LeaseInv
<1> SUFFICES ASSUME Init PROVE LeaseInv
  OBVIOUS
<1>1. TypeOK
  BY TypeInit
<1>2. \A w \in Workers : wpc[w] = "done" /\ result[w] = "none" /\ wtok[w] = NoToken
  BY DEF Init
<1>3. Phases /\ Results
  BY <1>2 DEF Init, Phases, Results, Leased
<1>4. Issued
  BY <1>2, WorkerNames DEF Init, Issued, NoToken
<1>5. Renewal /\ Rejections
  BY <1>2, WorkerNames DEF Init, Renewal, Rejections, InRenewal, Asked
<1>6. TokenCertain /\ SignersOwned /\ NoBogusFailure
  BY DEF Init, TokenCertain, SignersOwned, NoBogusFailure
<1> QED
  BY <1>1, <1>3, <1>4, <1>5, <1>6 DEF LeaseInv

----------------------------------------------------------------------------
(* What a step of a worker does, worker by worker.                         *)

Others(w) == \A u \in Workers \ {w} : /\ wpc'[u] = wpc[u] /\ wtok'[u] = wtok[u]
                                      /\ wgen'[u] = wgen[u] /\ result'[u] = result[u]

\* Every worker that is not the renewal loop: what it may return, and what it
\* holds where the relay's answer is awaited or has been read.
LEMMA WorkerShape ==
    ASSUME WorkType, NEW w \in Workers, WorkerStep(w)
    PROVE  /\ Others(w)
           /\ wpc'[w] # "done" => result'[w] = result[w]
           /\ wpc'[w] = "done" => \/ result'[w] \in {"refresh", "terminal"}
                                  \/ result'[w] = "canceled" /\ leaseCtxDone
           /\ wtok'[w] \in {wtok[w], token, NoToken}
           /\ wpc'[w] \in {"connect", "dial"} => wtok'[w] = token /\ token # NoToken
           /\ wpc'[w] = "signing" => wtok'[w] = token
           /\ wpc'[w] \in {"rejected", "signRejected"} =>
                 /\ wtok'[w] = wtok[w] /\ wgen'[w] = wgen[w]
                 /\ wpc[w] \in {"connect", "dial", "signing"}
           /\ wpc'[w] = "rejected" => wtok[w] # srv \/ capExpired
           /\ wpc'[w] = "signRejected" => wpc[w] = "signing"
           /\ wpc'[w] \notin InRenewal \cup {"wait"}
<1>1. CASE WorkerMove(w)
  <2>1. PICK p \in {"top", "accepted", "rejected", "session", "signRejected", "dialed", "receive"} :
            Goto(w, p) /\ Rejected(w, p)
    BY <1>1 DEF WorkerMove
  <2>2. Became(w, p, wtok[w], wgen[w], result[w])
    BY <2>1, Becomes
  <2> QED
    BY <2>1, <2>2 DEF Became, Others, Rejected, InRenewal
<1>2. CASE WorkerCapture(w)
  <2>1. ASSUME token # NoToken, NEW p \in {"connect", "dial"}, Capture(w, p, token, generation)
        PROVE  Became(w, p, token, generation, result[w])
    BY <2>1, Becomes
  <2>2. ASSUME Capture(w, "claimed", NoToken, generation)
        PROVE  Became(w, "claimed", NoToken, generation, result[w])
    BY <2>2, Becomes
  <2>3. ASSUME Capture(w, "signing", token, wgen[w])
        PROVE  Became(w, "signing", token, wgen[w], result[w])
    BY <2>3, Becomes
  <2> QED
    BY <1>2, <2>1, <2>2, <2>3 DEF WorkerCapture, Became, Others, InRenewal
<1>3. CASE WorkerReturn(w)
  <2>1. ASSUME NEW e, Return(w, e) PROVE Became(w, "done", wtok[w], wgen[w], e)
    BY <2>1, Becomes
  <2> QED
    BY <1>3, <2>1 DEF WorkerReturn, Became, Others, InRenewal
<1> QED
  BY <1>1, <1>2, <1>3 DEF WorkerStep

RenewGoes(p) == Became(Renew, p, wtok[Renew], wgen[Renew], result[Renew])
RenewGives(e)  == Became(Renew, "done", wtok[Renew], wgen[Renew], e)

\* The renewal loop: from where it moves, where to, and what it may return.
LEMMA RenewShape ==
    ASSUME WorkType
    PROVE  /\ renewTop => \/ RenewGives("refresh")
                          \/ /\ Became(Renew, "wait", token, generation, result[Renew])
                             /\ token # NoToken /\ ~expired
           /\ beginRenewal =>
                 \/ RenewGives("refresh") /\ UNCHANGED <<renewing, tokenUncertain>>
                 \/ /\ RenewGoes("sent") /\ renewing' = TRUE /\ tokenUncertain' = TRUE
                    /\ token = wtok[Renew] /\ generation = wgen[Renew]
           /\ relayRenew =>
                 \/ /\ RenewGoes("renewed") /\ issued < MaxTokens
                    /\ issued' = issued + 1 /\ srv' = issued + 1 /\ reply' = issued + 1
                 \/ RenewGoes("lost") /\ wtok[Renew] # srv /\ UNCHANGED <<relayVars, reply>>
           /\ renewFails => RenewGoes("failed")
           /\ renewError =>
                 \/ RenewGives("refresh") \/ RenewGives("terminal") \/ RenewGoes("backoff")
                 \/ RenewGives("canceled") /\ leaseCtxDone
           /\ renewBackoff => \/ RenewGoes("top") \/ RenewGives("refresh")
                              \/ RenewGives("canceled") /\ leaseCtxDone
           /\ renewInvalid => RenewGives("terminal")
           /\ renewInstall =>
                 \/ RenewGives("refresh") /\ UNCHANGED <<leaseVars, clockVars>>
                 \/ /\ RenewGoes("clear")
                    /\ token' = reply /\ generation' = nextGeneration + 1
                    /\ nextGeneration' = nextGeneration + 1
                    /\ renewing' = FALSE /\ tokenUncertain' = FALSE
                    /\ UNCHANGED <<tenant, signers>>
           /\ renewClear => RenewGoes("top")
           /\ renewCancelled => RenewGives("canceled") /\ leaseCtxDone
<1>1. \A p : Goto(Renew, p) => RenewGoes(p)
  BY Becomes, WorkerNames DEF RenewGoes
<1>2. \A e : Return(Renew, e) => RenewGives(e)
  BY Becomes, WorkerNames DEF RenewGives
<1>3. \A p, t, g : Capture(Renew, p, t, g) => Became(Renew, p, t, g, result[Renew])
  BY Becomes, WorkerNames
<1>4. renewTop => \/ RenewGives("refresh")
                  \/ /\ Became(Renew, "wait", token, generation, result[Renew])
                     /\ token # NoToken /\ ~expired
  BY <1>2, <1>3 DEF renewTop
<1>5. beginRenewal =>
         \/ RenewGives("refresh") /\ UNCHANGED <<renewing, tokenUncertain>>
         \/ /\ RenewGoes("sent") /\ renewing' = TRUE /\ tokenUncertain' = TRUE
            /\ token = wtok[Renew] /\ generation = wgen[Renew]
  BY <1>1, <1>2 DEF beginRenewal
<1>6. relayRenew =>
         \/ /\ RenewGoes("renewed") /\ issued < MaxTokens
            /\ issued' = issued + 1 /\ srv' = issued + 1 /\ reply' = issued + 1
         \/ RenewGoes("lost") /\ wtok[Renew] # srv /\ UNCHANGED <<relayVars, reply>>
  BY <1>1 DEF relayRenew
<1>7. renewFails => RenewGoes("failed")
  BY <1>1 DEF renewFails
<1>8. renewError =>
         \/ RenewGives("refresh") \/ RenewGives("terminal") \/ RenewGoes("backoff")
         \/ RenewGives("canceled") /\ leaseCtxDone
  BY <1>1, <1>2 DEF renewError
<1>9. renewInvalid => RenewGives("terminal")
  BY <1>2 DEF renewInvalid
<1>10. renewInstall =>
         \/ RenewGives("refresh") /\ UNCHANGED <<leaseVars, clockVars>>
         \/ /\ RenewGoes("clear")
            /\ token' = reply /\ generation' = nextGeneration + 1
            /\ nextGeneration' = nextGeneration + 1
            /\ renewing' = FALSE /\ tokenUncertain' = FALSE
            /\ UNCHANGED <<tenant, signers>>
  BY <1>1, <1>2 DEF renewInstall
<1>11. renewClear => RenewGoes("top")
  BY <1>1 DEF renewClear
<1>12. renewCancelled => RenewGives("canceled") /\ leaseCtxDone
  BY <1>2 DEF renewCancelled
<1>13. renewBackoff => \/ RenewGoes("top") \/ RenewGives("refresh")
                       \/ RenewGives("canceled") /\ leaseCtxDone
  BY <1>1, <1>2 DEF renewBackoff
<1> QED
  BY <1>4, <1>5, <1>6, <1>7, <1>8, <1>9, <1>10, <1>11, <1>12, <1>13

\* Any step of the renewal loop.
renewStep == \/ renewTop \/ beginRenewal \/ renewFails \/ renewError \/ renewBackoff \/ renewClear
             \/ renewInstall \/ renewCancelled \/ relayRenew \/ renewInvalid

\* Whatever the renewal loop does, it was running, it leaves the other workers,
\* run and the exposure alone, and it returns a reason.
LEMMA RenewFrame ==
    ASSUME WorkType, renewStep
    PROVE  /\ wpc[Renew] # "done" /\ Others(Renew)
           /\ UNCHANGED <<pc, control, leaseDone, runErr, cleanupErr, ctxDone, tenant, signers>>
           /\ wpc'[Renew] # "done" => result'[Renew] = result[Renew]
           /\ wpc'[Renew] = "done" => \/ result'[Renew] \in {"refresh", "terminal"}
                                      \/ result'[Renew] = "canceled" /\ leaseCtxDone
<1>1. wpc[Renew] # "done"
  BY DEF renewStep, renewTop, beginRenewal, renewFails, renewError, renewBackoff, renewClear, renewInstall,
         renewCancelled, relayRenew, renewInvalid, At
<1>2. UNCHANGED <<pc, control, leaseDone, runErr, cleanupErr, ctxDone>>
  BY DEF renewStep, renewTop, beginRenewal, renewFails, renewError, renewBackoff, renewClear, renewInstall,
         renewCancelled, relayRenew, renewInvalid, notRenew
<1>3. UNCHANGED <<tenant, signers>>
  BY DEF renewStep, renewTop, beginRenewal, renewFails, renewError, renewBackoff, renewClear, renewInstall,
         renewCancelled, relayRenew, renewInvalid, leaseVars
<1>4. \/ \E p \in {"sent", "renewed", "lost", "failed", "backoff", "top", "clear"} : RenewGoes(p)
      \/ \E t, g : Became(Renew, "wait", t, g, result[Renew])
      \/ RenewGives("refresh") \/ RenewGives("terminal")
      \/ RenewGives("canceled") /\ leaseCtxDone
  BY RenewShape DEF renewStep
<1> QED
  BY <1>1, <1>2, <1>3, <1>4 DEF RenewGoes, RenewGives, Became, Others

----------------------------------------------------------------------------
(* Each part of the invariant is preserved.                                *)

\* Phases: run starts the workers with a lease and waits for all of them.
LEMMA PhasesNext == ASSUME LeaseInv, [Next]_vars PROVE Phases'
<1> USE DEF Leased, Registering
<1>a. TypeOK /\ WorkType /\ Phases
  BY TypeParts DEF LeaseInv
<1>b. ASSUME UNCHANGED <<pc, token, tenant, leaseDone, control, wpc>> PROVE Phases'
  BY <1>a, <1>b DEF Phases
<1>c. ASSUME UNCHANGED <<pc, tenant, leaseDone, control>>, token # NoToken => token' # NoToken,
             token = NoToken => token' = NoToken,
             NEW w \in Workers, wpc[w] # "done"
      PROVE  Phases'
  BY <1>a, <1>c DEF Phases
<1>1. CASE initializeControl
  BY <1>1, <1>a DEF initializeControl, Phases, notRun, leaseVars, workVars
<1>2. CASE requestRegisterChallenge
  BY <1>2, <1>a DEF requestRegisterChallenge, Phases, notRun, leaseVars, workVars
<1>3. CASE relayRegister
  BY <1>3, <1>a DEF relayRegister, Phases, leaseVars, workVars
<1>4. CASE submitFailed
  BY <1>4, <1>a DEF submitFailed, Phases, notRun, leaseVars, workVars
<1>5. CASE submitInvalid
  BY <1>5, <1>a DEF submitInvalid, Phases, workVars
<1>6. CASE runCancelled
  BY <1>6, <1>a DEF runCancelled, Phases, notRun, leaseVars, workVars
<1>7. CASE submitRegistration
  <2>1. reply # NoToken
    BY <1>7 DEF submitRegistration, LeaseInv, Issued
  <2> QED
    BY <1>7, <1>a, <2>1 DEF submitRegistration, Phases
<1>8. CASE runLeaseCancel
  BY <1>8, <1>a DEF runLeaseCancel, Phases, notRun, leaseVars, workVars
<1>9. CASE runLeaseCollect
  BY <1>9, <1>a DEF runLeaseCollect, discardLostLease, clearLease, Phases, leaseVars, workVars, At
<1>10. CASE shutdown
  BY <1>10, <1>a DEF shutdown, clearLease, Phases, workVars
<1>11. ASSUME NEW w \in Workers, WorkerStep(w) PROVE Phases'
  BY <1>11, <1>c DEF WorkerStep, runVars, leaseVars
<1>12. CASE renewStep
  <2>1. wpc[Renew] # "done" /\ UNCHANGED <<pc, tenant, leaseDone, control>>
    BY <1>12, <1>a, RenewFrame
  <2>2. token' = token \/ (token' = reply /\ wpc[Renew] = "renewed")
    BY <1>12 DEF renewStep, renewTop, beginRenewal, renewFails, renewError, renewBackoff, renewClear,
                 renewInstall, renewCancelled, relayRenew, renewInvalid, leaseVars, At
  <2>3. wpc[Renew] = "renewed" => reply # NoToken /\ token # NoToken
    BY <1>a, WorkerNames DEF LeaseInv, Issued, Phases
  <2> QED
    BY <2>1, <2>2, <2>3, <1>c, WorkerNames
<1>13. CASE relayForgets \/ leaseExpires \/ capabilityExpires \/ cancel \/ UNCHANGED vars
  BY <1>13, <1>b DEF relayForgets, leaseExpires, capabilityExpires, cancel, vars, runVars, leaseVars, workVars
<1> QED
  BY <1>1, <1>2, <1>3, <1>4, <1>5, <1>6, <1>7, <1>8, <1>9, <1>10, <1>11, <1>12, <1>13, <1>a,
     StepCases DEF renewStep

\* Results: the first worker to return did not return the end of the context that
\* its own return will cause.
LEMMA ResultsNext == ASSUME LeaseInv, [Next]_vars PROVE Results'
<1> USE DEF leaseCtxDone
<1>a. TypeOK /\ WorkType /\ Phases /\ Results
  BY TypeParts DEF LeaseInv
<1>b. ASSUME UNCHANGED <<workVars, leaseDone, ctxDone>>, pc' # "drain" \/ pc' = pc PROVE Results'
  BY <1>a, <1>b DEF Results, workVars
<1>c. ASSUME NEW w \in Workers, wpc[w] # "done", Others(w), UNCHANGED <<pc, leaseDone, ctxDone>>,
             wpc'[w] # "done" => result'[w] = result[w],
             wpc'[w] = "done" => \/ result'[w] \in {"refresh", "terminal"}
                                 \/ result'[w] = "canceled" /\ leaseCtxDone
      PROVE  Results'
  <2>1. result[w] = "none"
    BY <1>a, <1>c DEF Results
  <2>2. \A u \in Workers : wpc'[u] # "done" => result'[u] = "none"
    BY <1>a, <1>c, <2>1 DEF Results, Others
  <2>3. ~leaseCtxDone => \A u \in Workers : result'[u] # "canceled"
    BY <1>a, <1>c, <2>1 DEF Results, Others
  <2>4. pc = "drain" /\ ~ctxDone => \E u \in Workers : result'[u] \in {"refresh", "terminal"}
    <3>1. SUFFICES ASSUME pc = "drain", ~ctxDone
                   PROVE  \E u \in Workers : result'[u] \in {"refresh", "terminal"}
      OBVIOUS
    <3>2. PICK u \in Workers : result[u] \in {"refresh", "terminal"}
      BY <1>a, <3>1 DEF Results
    <3>3. u # w
      BY <3>2, <2>1
    <3> QED
      BY <3>2, <3>3, <1>c DEF Others
  <2> QED
    BY <2>2, <2>3, <2>4, <1>c DEF Results
<1>1. CASE initializeControl \/ requestRegisterChallenge \/ submitFailed \/ runCancelled
  BY <1>1, <1>b DEF initializeControl, requestRegisterChallenge, submitFailed, runCancelled, notRun
<1>2. CASE relayRegister \/ submitInvalid \/ shutdown \/ relayForgets \/ leaseExpires \/ capabilityExpires
  BY <1>2, <1>b DEF relayRegister, submitInvalid, shutdown, relayForgets, leaseExpires, capabilityExpires, runVars
<1>3. CASE submitRegistration
  BY <1>3 DEF submitRegistration, Results
<1>4. CASE runLeaseCancel
  <2>1. UNCHANGED <<workVars, ctxDone>> /\ pc = "lease" /\ pc' = "drain" /\ leaseDone' = TRUE
    BY <1>4 DEF runLeaseCancel, notRun
  <2>2. ~ctxDone => \E w \in Workers : result[w] \in {"refresh", "terminal"}
    <3>1. SUFFICES ASSUME ~ctxDone PROVE \E w \in Workers : result[w] \in {"refresh", "terminal"}
      OBVIOUS
    <3>2. PICK w \in Workers : result[w] # "none"
      BY <1>4, <3>1 DEF runLeaseCancel
    <3>3. result[w] # "canceled"
      BY <1>a, <2>1, <3>1 DEF Results, Phases
    <3> QED
      BY <1>a, <3>2, <3>3 DEF WorkType, Errors
  <2> QED
    BY <1>a, <2>1, <2>2 DEF Results, workVars
<1>5. CASE runLeaseCollect
  BY <1>5, <1>b DEF runLeaseCollect
<1>6. ASSUME NEW w \in Workers, WorkerStep(w) PROVE Results'
  BY <1>6, <1>a, <1>c, WorkerShape DEF WorkerStep, runVars
<1>7. CASE renewStep
  BY <1>7, <1>a, <1>c, RenewFrame, WorkerNames
<1>8. CASE cancel
  BY <1>8, <1>a DEF cancel, Results, workVars, runVars
<1>9. CASE UNCHANGED vars
  BY <1>9, <1>b DEF vars, runVars
<1> QED
  BY <1>1, <1>2, <1>3, <1>4, <1>5, <1>6, <1>7, <1>8, <1>9, <1>a, StepCases DEF renewStep

\* run never ends with the error of its own lease context.
LEMMA FailureNext == ASSUME LeaseInv, [Next]_vars PROVE NoBogusFailure'
<1>a. TypeOK /\ WorkType /\ Results /\ NoBogusFailure
  BY TypeParts DEF LeaseInv
<1>1. CASE initializeControl \/ requestRegisterChallenge \/ submitFailed \/ runCancelled
  BY <1>1, <1>a DEF initializeControl, requestRegisterChallenge, submitFailed, runCancelled,
                    NoBogusFailure
<1>2. CASE \/ relayRegister \/ submitInvalid \/ shutdown \/ relayForgets \/ leaseExpires \/ capabilityExpires \/ cancel
           \/ submitRegistration \/ runLeaseCancel \/ UNCHANGED vars
  BY <1>2, <1>a DEF relayRegister, submitInvalid, shutdown, relayForgets, leaseExpires, capabilityExpires, cancel,
                    submitRegistration, runLeaseCancel, vars, runVars, NoBogusFailure
<1>3. CASE runLeaseCollect
  <2>1. ~ctxDone => \E w \in Workers : result[w] \in {"refresh", "terminal"}
    BY <1>3, <1>a DEF runLeaseCollect, Results
  <2> QED
    BY <1>3, <1>a, <2>1 DEF runLeaseCollect, NoBogusFailure
<1>4. ASSUME NEW w \in Workers, WorkerStep(w) PROVE NoBogusFailure'
  BY <1>4, <1>a DEF WorkerStep, runVars, NoBogusFailure
<1>5. CASE renewStep
  BY <1>5, <1>a, RenewFrame DEF NoBogusFailure
<1> QED
  BY <1>1, <1>2, <1>3, <1>4, <1>5, <1>a, StepCases DEF renewStep

\* Issued: tokens come from the relay only.
LEMMA IssuedNext == ASSUME LeaseInv, [Next]_vars PROVE Issued'
<1> USE WorkerNames
<1>a. TypeOK /\ WorkType /\ LeaseType /\ RunType /\ RelayType /\ Phases /\ Issued
  BY TypeParts DEF LeaseInv
<1>b. ASSUME UNCHANGED <<relayVars, reply, token, wpc, wtok>>, pc' # "reply" \/ pc' = pc PROVE Issued'
  BY <1>a, <1>b DEF Issued, relayVars
<1>c. wpc[Renew] # "done" => pc \in Leased
  BY <1>a DEF Phases
<1>d. ASSUME NEW w \in Workers, wtok'[w] \in {wtok[w], token, NoToken}, Others(w),
             UNCHANGED <<relayVars, reply, pc>>, token' \in {token, reply},
             wpc'[Renew] = "renewed" => wpc[Renew] = "renewed"
      PROVE  Issued'
  BY <1>a, <1>d DEF Issued, Others, relayVars, NoToken, RelayType
<1>1. CASE initializeControl \/ requestRegisterChallenge \/ submitFailed \/ runCancelled
  BY <1>1, <1>b DEF initializeControl, requestRegisterChallenge, submitFailed, runCancelled,
                    notRun, leaseVars, workVars
<1>2. CASE relayRegister
  <2>1. issued < issued + 1 /\ issued + 1 # NoToken
    BY <1>a DEF RelayType, NoToken
  <2>2. \A t \in Nat : t <= issued => t <= issued + 1
    BY <1>a DEF RelayType
  <2> QED
    BY <1>2, <1>a, <2>1, <2>2 DEF relayRegister, Issued, leaseVars, workVars, WorkType, LeaseType,
                                  RelayType
<1>3. CASE submitInvalid
  <2>1. wpc[Renew] = "done" /\ srv' \in {srv, NoToken}
    BY <1>3, <1>a DEF submitInvalid, Phases, Leased
  <2> QED
    BY <1>3, <1>a, <2>1 DEF submitInvalid, Issued, workVars, RelayType, NoToken
<1>4. CASE submitRegistration
  BY <1>4, <1>a DEF submitRegistration, Issued, relayVars
<1>5. CASE runLeaseCancel
  BY <1>5, <1>b DEF runLeaseCancel, notRun, leaseVars, workVars
<1>6. CASE runLeaseCollect
  <2>1. token' \in {token, NoToken} /\ pc' # "reply" /\ wpc[Renew] = "done"
    BY <1>6 DEF runLeaseCollect, leaseVars, discardLostLease, clearLease, At
  <2> QED
    BY <1>6, <1>a, <2>1 DEF runLeaseCollect, Issued, workVars, relayVars, RelayType, NoToken
<1>7. CASE shutdown
  <2>1. token' = NoToken /\ pc' # "reply" /\ wpc[Renew] = "done" /\ srv' \in {srv, NoToken}
    BY <1>7, <1>a DEF shutdown, clearLease, Phases, Leased
  <2> QED
    BY <1>7, <1>a, <2>1 DEF shutdown, Issued, workVars, RelayType, NoToken
<1>8. ASSUME NEW w \in Workers, WorkerStep(w) PROVE Issued'
  <2>1. w # Renew /\ Others(w) /\ wtok'[w] \in {wtok[w], token, NoToken}
    BY <1>8, <1>a, WorkerShape DEF WorkerStep
  <2>2. wpc'[Renew] = wpc[Renew]
    BY <2>1 DEF Others
  <2> QED
    BY <1>8, <1>d, <2>1, <2>2 DEF WorkerStep, runVars, leaseVars
<1>9. CASE renewTop
  BY <1>9, <1>a, <1>d, RenewShape
  DEF renewTop, RenewGives, Became, Others, notRenew, leaseVars
<1>10. CASE beginRenewal
  BY <1>10, <1>a, <1>d, RenewShape DEF beginRenewal, RenewGives, RenewGoes, Became, Others, notRenew
<1>11. CASE renewFails \/ renewBackoff \/ renewInvalid \/ renewCancelled
  BY <1>11, <1>a, <1>d, RenewShape
  DEF renewFails, renewBackoff, renewInvalid, renewCancelled, RenewGives, RenewGoes, Became, Others, notRenew,
      leaseVars
<1>12. CASE renewError
  BY <1>12, <1>a, <1>d, RenewShape DEF renewError, RenewGives, RenewGoes, Became, Others, notRenew
<1>13. CASE renewClear
  BY <1>13, <1>a, <1>d, RenewShape DEF renewClear, RenewGoes, Became, Others, notRenew, leaseVars
<1>14. CASE renewInstall
  BY <1>14, <1>a, <1>d, RenewShape
  DEF renewInstall, RenewGives, RenewGoes, Became, Others, notRenew, leaseVars
<1>15. CASE relayRenew
  <2>1. pc # "reply" /\ UNCHANGED <<pc, token>>
    BY <1>15, <1>c DEF relayRenew, notRenew, leaseVars, At, Leased
  <2>2. CASE RenewGoes("renewed") /\ issued' = issued + 1 /\ srv' = issued + 1 /\ reply' = issued + 1
    <3>1. \A w \in Workers : wtok'[w] = wtok[w]
      BY <2>2 DEF RenewGoes, Became
    <3>2. \A t \in Nat : t <= issued => t <= issued + 1
      BY <1>a DEF RelayType
    <3>3. issued + 1 # NoToken /\ issued + 1 <= issued'
      BY <1>a, <2>2 DEF RelayType, NoToken
    <3> QED
      BY <2>1, <2>2, <3>1, <3>2, <3>3, <1>a DEF Issued, WorkType, LeaseType
  <2>3. CASE RenewGoes("lost") /\ UNCHANGED <<relayVars, reply>>
    BY <2>1, <2>3, <1>a, <1>d DEF RenewGoes, Became, Others
  <2> QED
    BY <1>15, <1>a, <2>2, <2>3, RenewShape
<1>16. CASE relayForgets
  BY <1>16, <1>a DEF relayForgets, Issued, runVars, leaseVars, workVars, RelayType, NoToken
<1>17. CASE leaseExpires \/ capabilityExpires \/ cancel \/ UNCHANGED vars
  BY <1>17, <1>b DEF leaseExpires, capabilityExpires, cancel, vars, runVars, leaseVars, workVars
<1> QED
  BY <1>1, <1>2, <1>3, <1>4, <1>5, <1>6, <1>7, <1>8, <1>9, <1>10, <1>11, <1>12, <1>13, <1>14,
     <1>15, <1>16, <1>17, <1>a, StepCases

\* Renewal: the lease does not change under a renewal.
LEMMA RenewalNext == ASSUME LeaseInv, [Next]_vars PROVE Renewal'
<1> USE WorkerNames DEF InRenewal
<1>a. TypeOK /\ WorkType /\ Phases /\ Renewal
  BY TypeParts DEF LeaseInv
<1>b. ASSUME wpc'[Renew] = wpc[Renew], wtok'[Renew] = wtok[Renew], wgen'[Renew] = wgen[Renew],
             UNCHANGED <<token, generation, renewing, tokenUncertain>>
      PROVE  Renewal'
  BY <1>a, <1>b DEF Renewal
<1>c. ASSUME UNCHANGED <<workVars, token, generation, renewing, tokenUncertain>> PROVE Renewal'
  BY <1>b, <1>c DEF workVars
<1>d. ASSUME wpc'[Renew] = "done" PROVE Renewal'
  BY <1>d DEF Renewal
<1>1. CASE \/ initializeControl \/ requestRegisterChallenge \/ submitFailed \/ runCancelled
           \/ runLeaseCancel
  BY <1>1, <1>c DEF initializeControl, requestRegisterChallenge, submitFailed, runCancelled,
                    runLeaseCancel, notRun, leaseVars
<1>2. CASE relayRegister \/ submitInvalid \/ relayForgets \/ leaseExpires \/ capabilityExpires \/ cancel \/ UNCHANGED vars
  BY <1>2, <1>c DEF relayRegister, submitInvalid, relayForgets, leaseExpires, capabilityExpires, cancel, vars, leaseVars
<1>3. CASE submitRegistration
  BY <1>3 DEF submitRegistration, Renewal
<1>4. CASE runLeaseCollect
  BY <1>4, <1>d DEF runLeaseCollect, At, workVars
<1>5. CASE shutdown
  BY <1>5, <1>a, <1>d DEF shutdown, Phases, Leased, workVars
<1>6. ASSUME NEW w \in Workers, WorkerStep(w) PROVE Renewal'
  BY <1>6, <1>a, <1>b, WorkerShape DEF WorkerStep, Others, leaseVars
<1>7. CASE renewTop
  <2>1. ~renewing /\ UNCHANGED <<token, generation, renewing, tokenUncertain>>
    BY <1>7, <1>a DEF renewTop, At, Renewal, leaseVars
  <2> QED
    BY <1>7, <1>a, <1>d, <2>1, RenewShape DEF RenewGives, Became, Renewal
<1>8. CASE beginRenewal
  BY <1>8, <1>a, <1>d, RenewShape DEF beginRenewal, RenewGives, RenewGoes, Became, Renewal
<1>9. CASE renewFails
  BY <1>9, <1>a, RenewShape DEF renewFails, RenewGoes, Became, Renewal, leaseVars
<1>10. CASE renewError
  BY <1>10, <1>a, <1>d, RenewShape DEF renewError, endRenewal, RenewGives, RenewGoes, Became, Renewal
<1>11. CASE renewClear
  <2>1. ~renewing' /\ wpc'[Renew] = "top"
    BY <1>11, <1>a, RenewShape DEF renewClear, RenewGoes, Became, Renewal, leaseVars, At
  <2> QED
    BY <2>1 DEF Renewal
<1>15. CASE renewBackoff
  <2>1. ~renewing /\ UNCHANGED <<token, generation, renewing, tokenUncertain>>
    BY <1>15, <1>a DEF renewBackoff, At, Renewal, leaseVars
  <2> QED
    BY <1>15, <1>a, <1>d, <2>1, RenewShape DEF RenewGives, RenewGoes, Became, Renewal
<1>12. CASE renewInstall
  BY <1>12, <1>a, <1>d, RenewShape DEF RenewGives, RenewGoes, Became, Renewal
<1>13. CASE renewCancelled \/ renewInvalid
  BY <1>13, <1>a, <1>d, RenewShape DEF RenewGives, Became
<1>14. CASE relayRenew
  <2>1. wpc[Renew] = "sent" /\ UNCHANGED <<token, generation, renewing, tokenUncertain>>
    BY <1>14 DEF relayRenew, At, leaseVars
  <2>2. RenewGoes("renewed") \/ RenewGoes("lost")
    BY <1>14, <1>a, RenewShape
  <2> QED
    BY <1>a, <2>1, <2>2 DEF RenewGoes, Became, Renewal
<1> QED
  BY <1>1, <1>2, <1>3, <1>4, <1>5, <1>6, <1>7, <1>8, <1>9, <1>10, <1>11, <1>12, <1>13, <1>14, <1>15,
     <1>a, StepCases

\* Rejections: a refused token stays refused, since the relay only issues new ones,
\* and a new capability comes with a new generation.
LEMMA RejectionsNext == ASSUME LeaseInv, [Next]_vars PROVE Rejections'
<1> USE DEF Asked
<1>a. TypeOK /\ WorkType /\ LeaseType /\ RelayType /\ Phases /\ Issued /\ Renewal /\ Rejections
  BY TypeParts DEF LeaseInv
<1>b. ASSUME UNCHANGED <<workVars, srv, token, generation>>, capExpired => capExpired' PROVE Rejections'
  BY <1>a, <1>b DEF Rejections, workVars
<1>c. ASSUME \A w \in Workers : wpc'[w] \in {"done", "top"} PROVE Rejections'
  BY <1>c DEF Rejections
<1>d. ASSUME pc \notin Leased, UNCHANGED workVars PROVE Rejections'
  BY <1>a, <1>c, <1>d DEF Phases, workVars
<1>e. ASSUME Others(Renew), UNCHANGED <<srv, token, generation, capExpired>>,
             wpc'[Renew] \in Asked => wtok'[Renew] # NoToken,
             wpc'[Renew] = "lost" => wtok'[Renew] # srv,
             wpc'[Renew] \notin {"rejected", "signing", "signRejected"}
      PROVE  Rejections'
  BY <1>a, <1>e DEF Rejections, Others
<1>f. wpc[Renew] # "done" => token # NoToken
  BY <1>a, WorkerNames DEF Phases
<1>1. CASE \/ initializeControl \/ requestRegisterChallenge \/ submitFailed \/ runCancelled
           \/ runLeaseCancel
  BY <1>1, <1>b DEF initializeControl, requestRegisterChallenge, submitFailed, runCancelled,
                    runLeaseCancel, notRun, leaseVars, relayVars, clockVars
<1>2. CASE relayRegister \/ submitInvalid \/ shutdown
  BY <1>2, <1>d DEF relayRegister, submitInvalid, shutdown, Leased
<1>3. CASE leaseExpires \/ capabilityExpires \/ cancel \/ UNCHANGED vars
  BY <1>3, <1>b DEF leaseExpires, capabilityExpires, cancel, vars, leaseVars, relayVars, clockVars
<1>4. CASE submitRegistration
  BY <1>4, <1>c DEF submitRegistration
<1>5. CASE runLeaseCollect
  BY <1>5, <1>c DEF runLeaseCollect, At, workVars
<1>6. ASSUME NEW w \in Workers, WorkerStep(w) PROVE Rejections'
  <2>1. token # NoToken /\ UNCHANGED <<srv, token, generation, capExpired>>
    BY <1>6, <1>a DEF WorkerStep, Phases, leaseVars, relayVars, clockVars
  <2>2. ASSUME NEW u \in Workers, u # w
        PROVE  /\ wpc'[u] \in Asked => wtok'[u] # NoToken
               /\ wpc'[u] = "lost" => srv # wtok'[u]
               /\ wpc'[u] = "rejected" => srv # wtok'[u] \/ capExpired \/ wgen'[u] # generation
               /\ wpc'[u] \in {"signing", "signRejected"} /\ wgen'[u] = generation => wtok'[u] = token
    BY <1>6, <1>a, <2>2, WorkerShape DEF Others, Rejections
  <2>3. /\ wpc'[w] \in Asked => wtok'[w] # NoToken
        /\ wpc'[w] = "lost" => srv # wtok'[w]
        /\ wpc'[w] = "rejected" => srv # wtok'[w] \/ capExpired \/ wgen'[w] # generation
        /\ wpc'[w] \in {"signing", "signRejected"} /\ wgen'[w] = generation => wtok'[w] = token
    BY <1>6, <1>a, <2>1, WorkerShape DEF Rejections, InRenewal
  <2> QED
    BY <2>1, <2>2, <2>3 DEF Rejections
<1>7. CASE renewTop
  BY <1>7, <1>a, <1>e, RenewShape DEF renewTop, RenewGives, Became, Others, leaseVars, relayVars, clockVars
<1>8. CASE beginRenewal
  <2>1. wtok[Renew] # NoToken /\ UNCHANGED <<srv, token, generation, capExpired>>
    BY <1>8, <1>a, WorkerNames DEF beginRenewal, At, Rejections, relayVars, clockVars
  <2> QED
    BY <1>8, <1>a, <1>e, <2>1, RenewShape DEF RenewGives, RenewGoes, Became, Others
<1>9. CASE renewFails \/ renewBackoff \/ renewInvalid \/ renewCancelled
  BY <1>9, <1>a, <1>e, RenewShape
  DEF renewFails, renewBackoff, renewInvalid, renewCancelled, RenewGives, RenewGoes, Became, Others,
      leaseVars, relayVars, clockVars
<1>10. CASE renewError
  BY <1>10, <1>a, <1>e, RenewShape DEF renewError, RenewGives, RenewGoes, Became, Others, relayVars, clockVars
<1>11. CASE renewClear
  BY <1>11, <1>a, <1>e, RenewShape DEF renewClear, RenewGoes, Became, Others, leaseVars, relayVars, clockVars
<1>12. CASE renewInstall
  <2>1. srv' = srv
    BY <1>12 DEF renewInstall, relayVars
  <2>2. CASE RenewGives("refresh") /\ UNCHANGED <<leaseVars, clockVars>>
    BY <2>1, <2>2, <1>e DEF clockVars, RenewGives, Became, Others, leaseVars
  <2>3. CASE RenewGoes("clear") /\ generation' = nextGeneration + 1
    <3>1. \A u \in Workers : wgen'[u] \in 0..nextGeneration
      BY <2>3, <1>a, WorkerNames DEF RenewGoes, Became, WorkType
    <3>2. \A u \in Workers : wgen'[u] # generation'
      BY <3>1, <2>3, <1>a DEF LeaseType
    <3>3. \A u \in Workers \ {Renew} : wpc'[u] = wpc[u] /\ wtok'[u] = wtok[u]
      BY <2>3 DEF RenewGoes, Became
    <3>4. wpc'[Renew] = "clear"
      BY <2>3 DEF RenewGoes, Became
    <3> QED
      BY <2>1, <3>2, <3>3, <3>4, <1>a DEF Rejections
  <2> QED
    BY <1>12, <1>a, <2>2, <2>3, RenewShape
<1>13. CASE relayRenew
  <2>1. wtok[Renew] # NoToken /\ UNCHANGED <<token, generation, capExpired>>
    BY <1>13, <1>a, WorkerNames DEF relayRenew, At, Rejections, leaseVars, clockVars
  <2>2. CASE RenewGoes("renewed") /\ srv' = issued + 1
    <3>1. \A u \in Workers : wtok'[u] = wtok[u] /\ wgen'[u] = wgen[u] /\ wtok[u] # srv'
      BY <2>2, <1>a DEF RenewGoes, Became, Issued, WorkType, RelayType
    <3>2. wpc'[Renew] = "renewed" /\ \A u \in Workers \ {Renew} : wpc'[u] = wpc[u]
      BY <2>2 DEF RenewGoes, Became
    <3> QED
      BY <2>1, <3>1, <3>2, <1>a DEF Rejections
  <2>3. CASE RenewGoes("lost") /\ wtok[Renew] # srv /\ UNCHANGED relayVars
    BY <2>1, <2>3, <1>e DEF RenewGoes, Became, Others, relayVars
  <2> QED
    BY <1>13, <1>a, <2>2, <2>3, RenewShape
<1>14. CASE relayForgets
  <2>1. UNCHANGED <<workVars, token, generation, capExpired>> /\ srv' = NoToken
    BY <1>14 DEF relayForgets, leaseVars, clockVars
  <2> QED
    BY <2>1, <1>a DEF Rejections, workVars
<1> QED
  BY <1>1, <1>2, <1>3, <1>4, <1>5, <1>6, <1>7, <1>8, <1>9, <1>10, <1>11, <1>12, <1>13, <1>14, <1>a,
     StepCases

\* TokenCertain: the doubt is raised before the renewal request leaves and is
\* lifted only by the answer.
LEMMA CertainNext == ASSUME LeaseInv, [Next]_vars PROVE TokenCertain'
<1> USE WorkerNames
<1>a. TypeOK /\ WorkType /\ LeaseType /\ Phases /\ Issued /\ Renewal /\ TokenCertain
  BY TypeParts DEF LeaseInv
<1>b. ASSUME UNCHANGED <<token, tokenUncertain>>, srv' \in {srv, NoToken} PROVE TokenCertain'
  BY <1>a, <1>b DEF TokenCertain
<1>c. ASSUME token' = NoToken PROVE TokenCertain'
  BY <1>c DEF TokenCertain
<1>1. CASE \/ initializeControl \/ requestRegisterChallenge \/ submitFailed \/ runCancelled
           \/ runLeaseCancel
  BY <1>1, <1>b DEF initializeControl, requestRegisterChallenge, submitFailed, runCancelled,
                    runLeaseCancel, notRun, leaseVars, relayVars
<1>2. CASE relayRegister \/ submitInvalid
  BY <1>2, <1>a, <1>c DEF relayRegister, submitInvalid, Phases, Registering, leaseVars
<1>3. CASE submitRegistration
  BY <1>3, <1>a DEF submitRegistration, Issued, TokenCertain, relayVars
<1>4. CASE runLeaseCollect
  BY <1>4, <1>b, <1>c DEF runLeaseCollect, discardLostLease, clearLease, leaseVars, relayVars
<1>5. CASE shutdown
  BY <1>5, <1>c DEF shutdown, clearLease
<1>6. ASSUME NEW w \in Workers, WorkerStep(w) PROVE TokenCertain'
  BY <1>6, <1>b DEF WorkerStep, leaseVars, relayVars
<1>7. CASE renewTop \/ renewFails \/ renewBackoff \/ renewInvalid \/ renewClear \/ renewCancelled
  BY <1>7, <1>b DEF renewTop, renewFails, renewBackoff, renewInvalid, renewClear, renewCancelled, leaseVars,
                    relayVars
<1>8. CASE renewError
  BY <1>8, <1>b DEF renewError, relayVars
<1>9. CASE beginRenewal
  BY <1>9, <1>b DEF beginRenewal, relayVars, TokenCertain
<1>10. CASE relayRenew
  BY <1>10, <1>a DEF relayRenew, At, Renewal, InRenewal, TokenCertain, leaseVars
<1>11. CASE renewInstall
  <2>1. srv' = srv /\ srv \in {reply, NoToken}
    BY <1>11, <1>a DEF renewInstall, At, Issued, relayVars
  <2> QED
    BY <1>11, <2>1, <1>b DEF renewInstall, leaseVars, TokenCertain
<1>12. CASE relayForgets \/ leaseExpires \/ capabilityExpires \/ cancel \/ UNCHANGED vars
  BY <1>12, <1>b DEF relayForgets, leaseExpires, capabilityExpires, cancel, vars, leaseVars, relayVars
<1> QED
  BY <1>1, <1>2, <1>3, <1>4, <1>5, <1>6, <1>7, <1>8, <1>9, <1>10, <1>11, <1>12, <1>a, StepCases

\* A signer is opened when none is, and closed with its lease.
LEMMA SignersNext == ASSUME LeaseInv, [Next]_vars PROVE SignersOwned'
<1>a. TypeOK /\ WorkType /\ LeaseType /\ Phases /\ SignersOwned
  BY TypeParts DEF LeaseInv
<1>b. ASSUME UNCHANGED <<tenant, signers>> PROVE SignersOwned'
  BY <1>a, <1>b DEF SignersOwned
<1>c. ASSUME clearLease PROVE SignersOwned'
  BY <1>a, <1>c DEF SignersOwned, clearLease
<1>1. CASE \/ initializeControl \/ requestRegisterChallenge \/ submitFailed \/ runCancelled
           \/ runLeaseCancel
  BY <1>1, <1>b DEF initializeControl, requestRegisterChallenge, submitFailed, runCancelled,
                    runLeaseCancel, notRun, leaseVars
<1>2. CASE relayRegister \/ submitInvalid
  BY <1>2, <1>b DEF relayRegister, submitInvalid, leaseVars
<1>3. CASE submitRegistration
  <2>1. tenant = 0 /\ nextGeneration + 1 # 0
    BY <1>3, <1>a DEF submitRegistration, Phases, Registering, LeaseType
  <2> QED
    BY <1>3, <1>a, <2>1 DEF submitRegistration, SignersOwned
<1>4. CASE runLeaseCollect
  BY <1>4, <1>b, <1>c DEF runLeaseCollect, discardLostLease, leaseVars
<1>5. CASE shutdown
  BY <1>5, <1>c DEF shutdown
<1>6. ASSUME NEW w \in Workers, WorkerStep(w) PROVE SignersOwned'
  BY <1>6, <1>b DEF WorkerStep, leaseVars
<1>7. CASE renewStep
  BY <1>7, <1>a, <1>b, RenewFrame
<1>8. CASE relayForgets \/ leaseExpires \/ capabilityExpires \/ cancel \/ UNCHANGED vars
  BY <1>8, <1>b DEF relayForgets, leaseExpires, capabilityExpires, cancel, vars, leaseVars
<1> QED
  BY <1>1, <1>2, <1>3, <1>4, <1>5, <1>6, <1>7, <1>8, <1>a, StepCases DEF renewStep

\* The invariant is inductive.
LEMMA LeaseInvariant == Spec => []LeaseInv
<1>1. ASSUME LeaseInv, [Next]_vars PROVE LeaseInv'
  <2>1. TypeOK'
    BY <1>1, TypeNext DEF LeaseInv
  <2> QED
    BY <1>1, <2>1, PhasesNext, ResultsNext, IssuedNext, RenewalNext, RejectionsNext,
       CertainNext, SignersNext, FailureNext DEF LeaseInv
<1> QED
  BY <1>1, InvInit, PTL DEF Spec

----------------------------------------------------------------------------
(* The safety of a relay supervisor.                                       *)

\* Whenever tokenUncertain is unset, the relay holds the lease that is held here,
\* or none, whatever answers were lost and whoever retried (runRenewLoop).
THEOREM TokenCertainAlways == Spec => []TokenCertain
BY LeaseInvariant, PTL DEF LeaseInv

\* Every open tenant signer belongs to the current lease (submitRegistration,
\* discardLostLease, shutdown).
THEOREM SignersNeverLeak == Spec => []SignersOwned
BY LeaseInvariant, PTL DEF LeaseInv

\* run never reports the cancellation of its own lease context as the failure of
\* the relay (runLease).
THEOREM FailuresAreReal == Spec => []NoBogusFailure
BY LeaseInvariant, PTL DEF LeaseInv

----------------------------------------------------------------------------
(* What a step of a relay supervisor may never do.                         *)

\* Where a result is written.
LEMMA ResultWritten ==
    ASSUME LeaseInv, [Next]_vars, NEW w \in Workers, result'[w] # result[w], result'[w] # "none"
    PROVE  (w # Renew /\ WorkerStep(w)) \/ (w = Renew /\ renewStep)
<1>a. TypeOK /\ WorkType
  BY TypeParts DEF LeaseInv
<1>1. ASSUME NEW u \in Workers, WorkerStep(u) PROVE w # Renew /\ WorkerStep(w)
  BY <1>1, <1>a, WorkerShape DEF Others, WorkerStep
<1>2. CASE renewStep
  BY <1>2, <1>a, RenewFrame DEF Others
<1>3. CASE \/ initializeControl \/ requestRegisterChallenge \/ submitFailed \/ runCancelled
           \/ runLeaseCancel
  BY <1>3 DEF initializeControl, requestRegisterChallenge, submitFailed, runCancelled,
              runLeaseCancel, notRun, workVars
<1>4. CASE \/ relayRegister \/ submitInvalid \/ runLeaseCollect \/ shutdown \/ relayForgets
           \/ leaseExpires \/ capabilityExpires \/ cancel \/ UNCHANGED vars
  BY <1>4 DEF relayRegister, submitInvalid, runLeaseCollect, shutdown, relayForgets, leaseExpires, capabilityExpires,
              cancel, vars, workVars
<1>5. CASE submitRegistration
  BY <1>5 DEF submitRegistration
<1> QED
  BY <1>1, <1>2, <1>3, <1>4, <1>5, <1>a, StepCases DEF renewStep

\* A worker gives the lease up only if it or its capability expired or the relay has
\* really dropped it (runReverseSlot, runRenewLoop, runDatagramLoop).
THEOREM RefreshesJustified == Spec => RefreshJustified
<1>1. ASSUME LeaseInv, [Next]_vars
      PROVE  [ \A w \in Workers :
                 result[w] = "none" /\ result'[w] = "refresh" =>
                     capExpired \/ srv = NoToken \/ (srv # token /\ ~At(Renew, "renewed")) ]_vars
  <2> SUFFICES ASSUME NEW w \in Workers, result[w] = "none", result'[w] = "refresh"
               PROVE  capExpired \/ srv = NoToken \/ (srv # token /\ ~At(Renew, "renewed"))
    OBVIOUS
  <2>a. WorkType /\ Phases /\ Renewal /\ Rejections /\ (expired => capExpired)
    BY <1>1, TypeParts DEF LeaseInv, RestType
  <2>1. (w # Renew /\ WorkerStep(w)) \/ (w = Renew /\ renewStep)
    BY <1>1, ResultWritten
  <2>2. CASE w # Renew /\ WorkerStep(w)
    <3>1. token # NoToken
      BY <2>2, <2>a DEF WorkerStep, Phases
    <3>2. Return(w, "refresh")
          /\ \/ token = NoToken \/ capExpired
             \/ wpc[w] = "rejected" /\ ~renewing /\ token = wtok[w] /\ generation = wgen[w]
      <4>1. ASSUME WorkerMove(w) \/ WorkerCapture(w) PROVE result'[w] = result[w]
        BY <4>1 DEF WorkerMove, WorkerCapture, Goto, Capture
      <4>2. WorkerReturn(w)
        BY <2>2, <4>1 DEF WorkerStep
      <4>3. \A e : Return(w, e) => result'[w] = e
        BY <2>a DEF Return, WorkType
      <4> QED
        BY <4>2, <4>3 DEF WorkerReturn
    <3>3. ASSUME wpc[w] = "rejected", token = wtok[w], generation = wgen[w], ~renewing
          PROVE  capExpired \/ (srv # token /\ ~At(Renew, "renewed"))
      BY <3>3, <2>a DEF Rejections, Renewal, InRenewal, At
    <3> QED
      BY <3>1, <3>2, <3>3
  <2>3. CASE w = Renew /\ renewStep
    <3>1. token # NoToken
      BY <2>3, <2>a, RenewFrame DEF Phases
    <3>2. \A p : ~Goto(Renew, p) /\ \A t, g : ~Capture(Renew, p, t, g)
      BY <2>3 DEF Goto, Capture
    <3>3. \A e : Return(Renew, e) => e = "refresh"
      BY <2>3, <2>a DEF Return, WorkType
    <3>4. CASE renewTop
      BY <3>4, <3>1, <3>2, <2>a DEF renewTop
    <3>5. CASE beginRenewal
      BY <3>5, <3>2, <2>a DEF beginRenewal, At, Renewal, InRenewal
    <3>6. CASE renewError
      <4>1. At(Renew, "lost") \/ expired
        BY <3>6, <3>2, <3>3 DEF renewError
      <4>2. At(Renew, "lost") => srv # token
        BY <2>3, <2>a DEF At, Rejections, Renewal, InRenewal
      <4> QED
        BY <4>1, <4>2, <2>a DEF At
    <3>7. CASE renewInstall
      BY <3>7, <3>2, <2>a DEF renewInstall, At, Renewal, InRenewal
    <3>8. CASE renewFails \/ renewClear \/ relayRenew
      BY <3>8, <3>2 DEF renewFails, renewClear, relayRenew
    <3>9. CASE renewCancelled \/ renewInvalid
      BY <3>9, <3>3 DEF renewCancelled, renewInvalid
    <3>10. CASE renewBackoff
      BY <3>10, <3>2, <3>3, <2>a DEF renewBackoff
    <3> QED
      BY <2>3, <3>4, <3>5, <3>6, <3>7, <3>8, <3>9, <3>10 DEF renewStep
  <2> QED
    BY <2>1, <2>2, <2>3
<1> QED
  BY <1>1, LeaseInvariant, PTL DEF Spec, RefreshJustified

\* A refused signature fails the relay only if the token refused is the one held here
\* and the relay has not rotated it (slotSign, signerGenerationStale).
THEOREM SignFailuresCurrent == Spec => SignFailureIsCurrent
<1>1. ASSUME LeaseInv, [Next]_vars
      PROVE  [ \A s \in Slots :
                 At(s, "signRejected") /\ result'[s] = "terminal" =>
                     wtok[s] = token /\ srv \in {token, NoToken} ]_vars
  <2> SUFFICES ASSUME NEW s \in Slots, At(s, "signRejected"), result'[s] = "terminal"
               PROVE  wtok[s] = token /\ srv \in {token, NoToken}
    OBVIOUS
  <2>a. WorkType /\ Phases /\ Results /\ Rejections /\ TokenCertain
    BY <1>1, TypeParts DEF LeaseInv
  <2>1. s \in Workers /\ s # Renew /\ wpc[s] = "signRejected"
    BY WorkerNames DEF At
  <2>2. result[s] = "none" /\ token # NoToken
    BY <2>a, <2>1 DEF Results, Phases
  <2>3. WorkerStep(s)
    BY <1>1, <2>1, <2>2, ResultWritten
  <2>4. generation = wgen[s] /\ ~tokenUncertain
    <3>1. ASSUME WorkerMove(s) \/ WorkerCapture(s) PROVE result'[s] = result[s]
      BY <3>1 DEF WorkerMove, WorkerCapture, Goto, Capture
    <3>2. WorkerReturn(s)
      BY <2>2, <2>3, <3>1 DEF WorkerStep
    <3>3. \A e : Return(s, e) => e = "terminal"
      BY <2>a, <2>1 DEF Return, WorkType
    <3> QED
      BY <2>1, <3>2, <3>3 DEF WorkerReturn
  <2>5. wtok[s] = token
    BY <2>a, <2>1, <2>4 DEF Rejections
  <2> QED
    BY <2>a, <2>2, <2>4, <2>5 DEF TokenCertain
<1> QED
  BY <1>1, LeaseInvariant, PTL DEF Spec, SignFailureIsCurrent

\* A shutdown that reports no cleanup error leaves no lease at the relay, unless a
\* renewal was in doubt (shutdown, unregisterToken).
THEOREM LeaseReleased == Spec => CertainLeaseReleased
<1>1. ASSUME LeaseInv, [Next]_vars
      PROVE  [ pc = "shutdown" /\ pc' = "done" /\ token # NoToken /\ ~tokenUncertain /\ ~cleanupErr'
                 => srv' = NoToken ]_vars
  <2> SUFFICES ASSUME pc = "shutdown", pc' = "done", token # NoToken, ~tokenUncertain, ~cleanupErr'
               PROVE  srv' = NoToken
    OBVIOUS
  <2>a. TypeOK /\ WorkType /\ Phases /\ TokenCertain
    BY <1>1, TypeParts DEF LeaseInv
  <2>1. shutdown
    <3>1. ~(\E w \in Workers : WorkerStep(w))
      BY DEF WorkerStep, runVars
    <3>2. ~renewStep
      BY <2>a, RenewFrame
    <3>3. ~(initializeControl \/ requestRegisterChallenge \/ relayRegister \/ submitFailed
            \/ submitInvalid \/ runCancelled \/ submitRegistration \/ runLeaseCancel
            \/ runLeaseCollect)
      BY DEF initializeControl, requestRegisterChallenge, relayRegister, submitFailed,
             submitInvalid, runCancelled, submitRegistration, runLeaseCancel, runLeaseCollect
    <3>4. ~(relayForgets \/ leaseExpires \/ capabilityExpires \/ cancel \/ UNCHANGED vars)
      BY DEF relayForgets, leaseExpires, capabilityExpires, cancel, vars, runVars
    <3> QED
      BY <1>1, <2>a, <3>1, <3>2, <3>3, <3>4, StepCases DEF renewStep
  <2>2. control /\ srv \in {token, NoToken}
    BY <2>a DEF Phases, TokenCertain
  <2> QED
    BY <2>1, <2>2 DEF shutdown
<1> QED
  BY <1>1, LeaseInvariant, PTL DEF Spec, CertainLeaseReleased

----------------------------------------------------------------------------
(* The retry policy, for every status, code and delay.                     *)

\* What classifyRelayError decides about an APIError, whatever its status, its
\* code and the delay that it asks for.
LEMMA APIDecisions ==
    ASSUME NEW s \in Int, NEW c, NEW n, NEW refresh \in BOOLEAN
    PROVE  LET decision == classifyRelayError(APIError(s, c, n), refresh) IN
           /\ c \in terminalAPIErrorCodes => decision = "terminal"
           /\ c = "rate_limited" \/ (c \in capacityCodes /\ s = 503) => decision = "retry"
           /\ c \in lostLeaseCodes /\ refresh <=> decision = "refresh"
           /\ c = NoCode /\ s \in {429, 500, 503} => decision = "retry"
<1> DEFINE e == APIError(s, c, n)
           lost == refresh /\ c \in lostLeaseCodes
           throttled == s = 429 \/ c = "rate_limited" \/ s >= 500
<1>1. e.kind = "api" /\ e.status = s /\ e.code = c
  BY DEF APIError
<1>2. e \notin TransportErrors
  BY <1>1 DEF TransportErrors, Plain
<1> HIDE DEF e
<1>3. classifyRelayError(e, refresh) =
         IF lost THEN "refresh"
         ELSE IF c \in terminalAPIErrorCodes THEN "terminal"
         ELSE IF throttled THEN "retry" ELSE "terminal"
  BY <1>1, <1>2 DEF classifyRelayError, isLostLeaseError, isRateLimitedAPIError
<1> DEFINE decision == classifyRelayError(e, refresh)
<1>4. decision = IF lost THEN "refresh"
                 ELSE IF c \in terminalAPIErrorCodes THEN "terminal"
                 ELSE IF throttled THEN "retry" ELSE "terminal"
  BY <1>3
<1> HIDE DEF decision
<1>5. c \in terminalAPIErrorCodes => decision = "terminal"
  BY <1>4 DEF terminalAPIErrorCodes, lostLeaseCodes
<1>6. c = "rate_limited" \/ (c \in capacityCodes /\ s = 503) => decision = "retry"
  BY <1>4 DEF terminalAPIErrorCodes, lostLeaseCodes, capacityCodes
<1>7. c \in lostLeaseCodes /\ refresh <=> decision = "refresh"
  BY <1>4
<1>8. c = NoCode /\ s \in {429, 500, 503} => decision = "retry"
  <2>1. NoCode \notin terminalAPIErrorCodes \cup lostLeaseCodes
    BY Zenon DEF NoCode, terminalAPIErrorCodes, lostLeaseCodes
  <2>2. \A k \in {429, 500, 503} : k = 429 \/ k >= 500
    OBVIOUS
  <2> QED
    BY <1>4, <2>1, <2>2
<1> QED
  BY <1>5, <1>6, <1>7, <1>8 DEF e, decision

\* An answer that breaks off is retried when its status is a success, a throttle
\* or a failure of the server.
LEMMA CutOffDecision ==
    ASSUME NEW s \in Int, NEW c, NEW h, NEW refresh \in BOOLEAN,
           success(s) \/ s \in {429, 500, 503}
    PROVE  classifyRelayError(doAPI(s, "broken", c, h), refresh) = "retry"
<1>1. CASE success(s)
  <2>1. doAPI(s, "broken", c, h) = Plain("network")
    BY <1>1 DEF doAPI
  <2> QED
    BY <2>1 DEF classifyRelayError, Plain, TransportErrors, isLostLeaseError
<1>2. CASE ~success(s)
  <2>1. doAPI(s, "broken", c, h) = APIError(s, NoCode, parseRetryAfter(h))
    BY <1>2 DEF doAPI
  <2> QED
    BY <1>2, <2>1, APIDecisions
<1> QED
  BY <1>1, <1>2

\* What relayRetryDelay and the clamp of runRenewLoop make of any delay: never
\* less than the supervisor's own interval or, up to five minutes, than the relay asks
\* for, never more than five minutes, and never past the end of the lease.
LEMMA DelayBounds ==
    ASSUME NEW n \in Nat, NEW left \in Nat \ {0}
    PROVE  LET err(k)   == APIError(429, "rate_limited", k)
               delay(k) == relayRetryDelay(RetryWait, err(k))
           IN  /\ delay(n) \in RetryWait..maxRelayRetryDelay
               /\ delay(n) >= Lesser(n, maxRelayRetryDelay)
               /\ renewRetryDelay(err(n), left) \in 1..left
<1>1. \A k : retryAfterOf(APIError(429, "rate_limited", k)) = k
  BY DEF retryAfterOf, APIError
<1> QED
  BY <1>1 DEF relayRetryDelay, renewRetryDelay, Lesser, RetryWait, maxRelayRetryDelay

\* The code of an error decides, not the status range (relay.go:1555-1557), and a retry
\* waits at least as long as the relay asks for and at most five minutes (doAPI,
\* classifyRelayError, parseRetryAfter, relayRetryDelay, runRenewLoop).
THEOREM RetryDecided == Spec => []RetryDecisions
<1>1. DecisionContract
  <2> SUFFICES ASSUME NEW s \in Statuses, NEW c \in Codes, NEW h \in RetryAfters,
                      NEW refresh \in BOOLEAN
               PROVE  LET decision == classifyRelayError(doAPI(s, "error", c, h), refresh)
                          cutOff   == classifyRelayError(doAPI(s, "broken", c, h), refresh)
                      IN  /\ c \in terminalAPIErrorCodes => decision = "terminal"
                          /\ c = "rate_limited" \/ (c \in capacityCodes /\ s = 503) =>
                                decision = "retry"
                          /\ c \in lostLeaseCodes /\ refresh <=> decision = "refresh"
                          /\ success(s) \/ s \in {429, 500, 503} => cutOff = "retry"
    BY DEF DecisionContract
  <2>1. s \in Int
    BY DEF Statuses
  <2>2. doAPI(s, "error", c, h) = APIError(s, c, parseRetryAfter(h))
    BY DEF doAPI
  <2> QED
    BY <2>1, <2>2, APIDecisions, CutOffDecision
<1>2. DelayContract
  <2>1. {parseRetryAfter(h) : h \in RetryAfters} \subseteq Nat
    BY ParsedSeconds
  <2>2. Remaining \subseteq Nat \ {0}
    BY DEF Remaining
  <2> DEFINE asked    == {parseRetryAfter(h) : h \in RetryAfters}
             err(n)   == APIError(429, "rate_limited", n)
             delay(n) == relayRetryDelay(RetryWait, err(n))
  <2>3. ASSUME NEW n \in asked PROVE delay(n) \in RetryWait..maxRelayRetryDelay
    BY <2>1, DelayBounds, 1 \in Nat \ {0}
  <2>4. ASSUME NEW n \in asked PROVE delay(n) >= Lesser(n, maxRelayRetryDelay)
    BY <2>1, DelayBounds, 1 \in Nat \ {0}
  <2>5. ASSUME NEW n \in asked, NEW left \in Remaining
        PROVE  renewRetryDelay(err(n), left) \in 1..left
    BY <2>1, <2>2, DelayBounds
  <2> QED
    BY <2>3, <2>4, <2>5 DEF DelayContract
<1>3. RetryDecisions
  BY <1>1, <1>2 DEF RetryDecisions
<1> QED
  BY <1>3, PTL

=============================================================================
