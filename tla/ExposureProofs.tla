--------------------------- MODULE ExposureProofs ---------------------------
(***************************************************************************)
(* Machine-checked proofs about Exposure, for every set of relays, every   *)
(* cap and every number of callers: the types of its state, that its       *)
(* counters are its membership, and that with discovery the all-failed     *)
(* signal is never left closed while a relay is alive.                     *)
(***************************************************************************)
EXTENDS Exposure, FiniteSetTheorems, TLAPS

----------------------------------------------------------------------------
(* Type correctness.                                                       *)

\* The initial state is well typed.
LEMMA TypeInit == Init => TypeOK
<1> SUFFICES ASSUME Init PROVE TypeOK
  OBVIOUS
<1>1. MemberType
  BY DEF Init, MemberType
<1>2. SignalType
  BY DEF Init, SignalType, FreshOnce, ExStates
<1>3. WorkerType
  BY DEF Init, WorkerType, SupStates
<1>4. ConnType
  BY BoundsAssumption DEF Init, ConnType
<1>5. CallType
  BY DEF Init, CallType, AcceptReturns, WaitReturns
<1>6. DiscType
  BY ExplicitAssumption DEF Init, DiscType, DiscStates
<1>7. CloseType
  BY DEF Init, CloseType, CloseStates
<1> QED
  BY <1>1, <1>2, <1>3, <1>4, <1>5, <1>6, <1>7 DEF TypeOK

\* A notification leaves every captured channel open or closed.
LEMMA TypeNotify == notifyStateChangedLocked => changed' \in [Callers -> BOOLEAN]
BY DEF notifyStateChangedLocked, Armed

\* addRelay keeps the membership, the signals and the supervisors well typed.
LEMMA TypeAdd ==
    ASSUME TypeOK, NEW r \in Relays, NEW e \in BOOLEAN, addRelay(r, e), UNCHANGED <<crash, pub, cleanupErrs>>
    PROVE  MemberType' /\ SignalType' /\ WorkerType'
<1>1. CASE AddRefused(r, e)
  BY <1>1 DEF TypeOK, MemberType, SignalType, WorkerType, addRelay, memberVars, signalVars
<1>2. CASE ~AddRefused(r, e)
  <2>1. MemberType'
    BY <1>2 DEF TypeOK, MemberType, addRelay, discoveredAfter
  <2>2. SignalType'
    <3>1. rearmAllFailedLocked /\ notifyStateChangedLocked /\ UNCHANGED <<ex, crash>>
      BY <1>2 DEF addRelay
    <3>2. changed' \in [Callers -> BOOLEAN]
      BY <3>1, TypeNotify
    <3>3. allFailed' \in BOOLEAN /\ once' \in [done : BOOLEAN, locked : BOOLEAN]
      BY <3>1 DEF rearmAllFailedLocked, FreshOnce, TypeOK, SignalType
    <3> QED
      BY <3>1, <3>2, <3>3 DEF TypeOK, SignalType
  <2>3. WorkerType'
    BY <1>2 DEF TypeOK, WorkerType, addRelay, SupStates
  <2> QED
    BY <2>1, <2>2, <2>3
<1> QED
  BY <1>1, <1>2

\* Taking the head of the accepted queue.
LEMMA TypeDequeue ==
    ASSUME ConnType, accepted # <<>>
    PROVE  /\ Head(accepted) \in Conns
           /\ Tail(accepted) \in Seq(Conns)
           /\ Len(Tail(accepted)) <= AcceptCap
<1>1. accepted \in Seq(Conns) /\ Len(accepted) \in Nat /\ Len(accepted) <= AcceptCap
  BY DEF ConnType
<1>2. Head(accepted) \in Conns /\ Tail(accepted) \in Seq(Conns)
  BY <1>1
<1>3. Len(Tail(accepted)) = Len(accepted) - 1
  BY <1>1
<1> QED
  BY <1>1, <1>2, <1>3, BoundsAssumption

\* Closing the head of the queue, as both drains do.
LEMMA TypeDrainOne ==
    ASSUME ConnType, accepted # <<>>,
           conn' = [conn EXCEPT ![Head(accepted)] = "closed"], accepted' = Tail(accepted)
    PROVE  ConnType'
BY TypeDequeue DEF ConnType

\* A part of the type invariant whose variables stay put holds afterwards.
LEMMA TypeSame ==
    /\ MemberType /\ UNCHANGED memberVars => MemberType'
    /\ SignalType /\ UNCHANGED <<signalVars, crash, changed>> => SignalType'
    /\ WorkerType /\ UNCHANGED <<pub, sup, cleanupErrs>> => WorkerType'
    /\ ConnType /\ UNCHANGED connVars => ConnType'
    /\ CallType /\ UNCHANGED callVars => CallType'
    /\ DiscType /\ UNCHANGED discVars => DiscType'
    /\ CloseType /\ UNCHANGED closeVars => CloseType'
BY DEF MemberType, SignalType, WorkerType, ConnType, CallType, DiscType, CloseType,
       memberVars, signalVars, connVars, callVars, discVars, closeVars

\* A notification that leaves the other signals alone.
LEMMA TypeNotified ==
    ASSUME SignalType, notifyStateChangedLocked, UNCHANGED <<signalVars, crash>>
    PROVE  SignalType'
BY TypeNotify DEF SignalType, signalVars

\* Another status on its way to the updates channel.
LEMMA TypePublish ==
    ASSUME WorkerType, NEW r \in Relays, NEW k \in WorkerKinds,
           pub' = [pub EXCEPT ![r] = @ \cup {k}], UNCHANGED <<sup, cleanupErrs>>
    PROVE  WorkerType'
BY DEF WorkerType

\* A ready callback.
LEMMA TypeMarkReady ==
    ASSUME TypeOK, NEW r \in Relays, markReady(r)
    PROVE  TypeOK'
<1>1. MemberType'
  BY DEF TypeOK, MemberType, markReady
<1>2. SignalType'
  BY TypeNotified DEF TypeOK, markReady
<1>3. WorkerType'
  BY TypeSame, TypePublish DEF TypeOK, markReady, WorkerKinds
<1> QED
  BY <1>1, <1>2, <1>3, TypeSame DEF TypeOK, markReady

\* A backhaul that came up, moved or went away.
LEMMA TypeMarkDatagramReady ==
    ASSUME TypeOK, NEW r \in Relays, NEW p \in BOOLEAN, NEW m \in BOOLEAN,
           markDatagramReady(r, p, m)
    PROVE  TypeOK'
<1>1. MemberType'
  BY DEF TypeOK, MemberType, markDatagramReady
<1>2. SignalType'
  BY TypeNotified DEF TypeOK, markDatagramReady
<1>3. WorkerType'
  BY TypeSame, TypePublish DEF TypeOK, markDatagramReady, WorkerKinds
<1> QED
  BY <1>1, <1>2, <1>3, TypeSame DEF TypeOK, markDatagramReady

\* A terminal failure of one relay.
LEMMA TypeMarkFailed ==
    ASSUME TypeOK, NEW r \in Relays, markFailed(r)
    PROVE  TypeOK'
<1>1. CASE Closed \/ statuses[r] \in {"absent", "failed"}
  <2>1. WorkerType' /\ UNCHANGED <<memberVars, signalVars, crash, changed>>
    BY <1>1 DEF TypeOK, WorkerType, SupStates, markFailed
  <2> QED
    BY <2>1, TypeSame DEF TypeOK, markFailed
<1>2. CASE ~(Closed \/ statuses[r] \in {"absent", "failed"})
  <2>1. MemberType'
    <3>1. statuses' \in [Relays -> {"absent", "connecting", "ready", "failed"}]
      BY <1>2 DEF TypeOK, MemberType, markFailed
    <3>2. failedCount' \in Nat
      BY <1>2 DEF TypeOK, MemberType, markFailed
    <3>3. rejectedRelays' \in SUBSET Relays
      BY <1>2 DEF TypeOK, MemberType, markFailed
    <3> QED
      BY <1>2, <3>1, <3>2, <3>3 DEF TypeOK, MemberType, markFailed
  <2>2. SignalType'
    BY <1>2, TypeNotified DEF TypeOK, markFailed
  <2>3. WorkerType'
    BY <1>2 DEF TypeOK, WorkerType, SupStates, markFailed
  <2> QED
    BY <2>1, <2>2, <2>3, TypeSame DEF TypeOK, markFailed
<1> QED
  BY <1>1, <1>2

\* The accepted channel takes a connection within its capacity.
LEMMA TypeEnqueue ==
    ASSUME ConnType, NEW c \in Conns, Len(accepted) < AcceptCap,
           accepted' = Append(accepted, c), conn' = [conn EXCEPT ![c] = "queued"]
    PROVE  ConnType'
<1>1. accepted \in Seq(Conns) /\ Len(accepted) \in Nat
  BY DEF ConnType
<1>2. accepted' \in Seq(Conns) /\ Len(accepted') = Len(accepted) + 1
  BY <1>1
<1>3. Len(accepted') <= AcceptCap
  BY <1>1, <1>2, BoundsAssumption
<1>4. conn' \in [Conns -> {"none", "offering", "queued", "held", "delivered", "closed"}]
  BY DEF ConnType
<1> QED
  BY <1>2, <1>3, <1>4 DEF ConnType

\* The callbacks of a supervisor, its return and its failure.
LEMMA TypeSupervisor ==
    ASSUME TypeOK, NEW r \in Relays,
           \/ \E k \in WorkerKinds : publishDone(r, k)
           \/ goRunSupervisor(r) \/ markReady(r) \/ markFailed(r) \/ markFailedVerdict(r)
           \/ \E p, m \in BOOLEAN : markDatagramReady(r, p, m)
           \/ \E b, e \in BOOLEAN : runReturn(r, b, e)
    PROVE  TypeOK'
<1> USE DEF TypeOK, MemberType, SignalType, WorkerType, ConnType, CallType, DiscType, CloseType,
            memberVars, signalVars, connVars, callVars, discVars, closeVars
<1>1. ASSUME NEW k \in WorkerKinds, publishDone(r, k) PROVE TypeOK'
  BY <1>1 DEF publishDone, publishUpdate
<1>2. CASE goRunSupervisor(r)
  BY <1>2 DEF goRunSupervisor, publishUpdate, SupStates
<1>3. CASE markReady(r)
  BY <1>3, TypeMarkReady
<1>4. CASE markFailed(r)
  BY <1>4, TypeMarkFailed
<1>5. CASE markFailedVerdict(r)
  <2>1. WorkerType'
    BY <1>5 DEF markFailedVerdict, SupStates
  <2>2. SignalType'
    BY <1>5 DEF markFailedVerdict, publishUpdate, ExStates, Executors
  <2>3. DiscType'
    BY <1>5 DEF markFailedVerdict
  <2>4. UNCHANGED <<memberVars, connVars, callVars, closeVars>>
    BY <1>5 DEF markFailedVerdict
  <2> HIDE DEF TypeOK, MemberType, SignalType, WorkerType, ConnType, CallType, DiscType, CloseType,
               memberVars, signalVars, connVars, callVars, discVars, closeVars
  <2> QED
    BY <2>1, <2>2, <2>3, <2>4, TypeSame DEF TypeOK
<1>6. ASSUME NEW p \in BOOLEAN, NEW m \in BOOLEAN, markDatagramReady(r, p, m) PROVE TypeOK'
  BY <1>6, TypeMarkDatagramReady
<1>7. ASSUME NEW b \in BOOLEAN, NEW e \in BOOLEAN, runReturn(r, b, e) PROVE TypeOK'
  <2>1. sup' \in [Relays -> SupStates] /\ cleanupErrs' \in SUBSET Relays
    BY <1>7 DEF runReturn, SupStates
  <2> QED
    BY <1>7, <2>1 DEF runReturn
<1> QED
  BY <1>1, <1>2, <1>3, <1>4, <1>5, <1>6, <1>7

\* A tenant connection on its way through offer.
LEMMA TypeOffer ==
    ASSUME TypeOK, NEW c \in Conns, OfferBegin(c) \/ offer(c) \/ offerAbandon(c)
    PROVE  TypeOK'
<1>1. CASE OfferBegin(c)
  BY <1>1, TypeSame DEF OfferBegin, TypeOK, ConnType
<1>2. CASE offer(c)
  BY <1>2, TypeSame, TypeEnqueue DEF offer, TypeOK
<1>3. CASE offerAbandon(c)
  BY <1>3, TypeSame DEF offerAbandon, TypeOK, ConnType
<1> QED
  BY <1>1, <1>2, <1>3

\* markExhausted, whoever runs it.
LEMMA TypeExhausted ==
    ASSUME TypeOK, NEW x \in Executors, markExhausted(x)
    PROVE  TypeOK'
<1>0. UNCHANGED <<memberVars, pub, callVars, exposePc, todo, cands, kick, closeVars, cleanupErrs>>
  BY DEF markExhausted
<1>a. UNCHANGED <<connVars, sup, disc>> => MemberType' /\ WorkerType' /\ ConnType' /\ CallType'
                                            /\ DiscType' /\ CloseType'
  BY <1>0, TypeSame DEF TypeOK, discVars
<1>1. CASE exOnce(x)
  BY <1>a, <1>1 DEF exOnce, ExStates, TypeOK, SignalType
<1>2. CASE exClose(x)
  BY <1>a, <1>2 DEF exClose, ExStates, TypeOK, SignalType
<1>3. CASE exLeave(x)
  <2>1. once' \in [done : BOOLEAN, locked : BOOLEAN]
    <3>1. once' = [done |-> TRUE, locked |-> FALSE] \/ once' = once
      BY <1>3 DEF exLeave
    <3>2. [done |-> TRUE, locked |-> FALSE] \in [done : BOOLEAN, locked : BOOLEAN]
      OBVIOUS
    <3>3. once \in [done : BOOLEAN, locked : BOOLEAN]
      BY DEF TypeOK, SignalType
    <3> QED
      BY <3>1, <3>2, <3>3, Zenon
  <2>2. ex' \in [Executors -> ExStates]
    BY <1>3 DEF exLeave, ExStates, TypeOK, SignalType
  <2> QED
    BY <1>a, <1>3, <2>1, <2>2 DEF exLeave, TypeOK, SignalType
<1>4. CASE exNotify(x)
  <2>1. changed' \in [Callers -> BOOLEAN]
    BY <1>4, TypeNotify DEF exNotify
  <2>2. SignalType'
    BY <1>4, <2>1 DEF exNotify, ExStates, TypeOK, SignalType
  <2> QED
    BY <1>a, <1>4, <2>2 DEF exNotify, TypeOK
<1>5. CASE exDrain(x)
  <2>1. CASE accepted # <<>>
    <3>1. ConnType' /\ UNCHANGED <<signalVars, crash, changed, sup, disc>>
      BY <1>5, <2>1, TypeDrainOne DEF exDrain, TypeOK, signalVars
    <3> QED
      BY <1>0, <3>1, TypeSame DEF TypeOK, discVars
  <2>2. CASE accepted = <<>>
    <3>1. SignalType'
      BY <1>5, <2>2 DEF exDrain, ExStates, TypeOK, SignalType
    <3>2. WorkerType'
      BY <1>0, <1>5, <2>2 DEF exDrain, SupStates, TypeOK, WorkerType
    <3>3. DiscType'
      BY <1>0, <1>5, <2>2 DEF exDrain, DiscStates, TypeOK, DiscType
    <3> QED
      BY <1>0, <1>5, <2>2, <3>1, <3>2, <3>3, TypeSame DEF exDrain, TypeOK
  <2> QED
    BY <2>1, <2>2
<1> QED
  BY <1>1, <1>2, <1>3, <1>4, <1>5 DEF markExhausted

\* The adds of Expose and of discovery, and the rest of discovery.
LEMMA TypeDiscovery ==
    ASSUME TypeOK, ExposeAdd \/ ExposeReturn \/ discoveryStep \/ discoveryTick \/ discoveryExit
    PROVE  TypeOK'
<1> USE DEF TypeOK, MemberType, SignalType, WorkerType, ConnType, CallType, DiscType, CloseType,
            memberVars, signalVars, connVars, callVars, discVars, closeVars
<1>1. CASE ExposeAdd
  <2> PICK r \in todo : addRelay(r, TRUE) /\ todo' = todo \ {r}
    BY <1>1 DEF ExposeAdd
  <2>1. MemberType' /\ SignalType' /\ WorkerType'
    BY <1>1, TypeAdd DEF ExposeAdd
  <2> QED
    BY <1>1, <2>1 DEF ExposeAdd
<1>2. CASE ExposeReturn
  BY <1>2 DEF ExposeReturn, DiscStates
<1>3. CASE refreshDiscovery
  BY <1>3 DEF refreshDiscovery, DiscStates
<1>4. CASE adoptDiscoveredRelays
  BY <1>4 DEF adoptDiscoveredRelays, DiscStates
<1>5. CASE discoveryAdd
  <2>1. CASE todo = {} \/ ctxDone
    BY <1>5, <2>1 DEF discoveryAdd, DiscStates
  <2>2. CASE ~(todo = {} \/ ctxDone)
    <3> PICK r \in todo : addRelay(r, FALSE) /\ todo' = todo \ {r}
      BY <1>5, <2>2 DEF discoveryAdd
    <3>1. MemberType' /\ SignalType' /\ WorkerType'
      BY <1>5, TypeAdd DEF discoveryAdd
    <3> QED
      BY <1>5, <2>2, <3>1 DEF discoveryAdd
  <2> QED
    BY <2>1, <2>2
<1>6. CASE discoveryVerdict
  BY <1>6 DEF discoveryVerdict, DiscStates, ExStates, Executors, Disc
<1>7. CASE discoveryTick
  BY <1>7 DEF discoveryTick, DiscStates
<1>8. CASE discoveryKicked
  BY <1>8 DEF discoveryKicked, DiscStates
<1>9. CASE discoveryExit
  BY <1>9 DEF discoveryExit, DiscStates
<1> QED
  BY <1>1, <1>2, <1>3, <1>4, <1>5, <1>6, <1>7, <1>8, <1>9 DEF discoveryStep

\* Each case of Accept's select.
LEMMA TypeAcceptSelect ==
    ASSUME TypeOK, NEW a \in Acceptors, acceptSelect(a)
    PROVE  TypeOK'
<1>0. UNCHANGED <<memberVars, signalVars, crash, pub, sup, wait, discVars, closeVars, cleanupErrs>>
  BY DEF acceptSelect, acceptUnchanged
<1>1. SignalType'
  BY <1>0 DEF acceptSelect, TypeOK, SignalType, signalVars, Callers
<1>2. acc' \in [Acceptors -> AcceptReturns \cup {"term", "fail", "armChanged", "armExhausted",
                                    "select", "exTerm", "gotTerm", "gotFail"}]
      /\ exh' \in [Acceptors -> BOOLEAN]
  BY DEF acceptSelect, TypeOK, CallType, AcceptReturns
<1>3. ConnType' /\ held' \in [Acceptors -> SUBSET Conns]
      /\ \A b \in Acceptors : held'[b] # {} => acc'[b] \in {"gotTerm", "gotFail"}
  <2>0. acc[a] = "select" /\ held[a] = {} /\ (\A b \in Acceptors : b # a => acc'[b] = acc[b])
    BY DEF acceptSelect, TypeOK, CallType
  <2>1. CASE UNCHANGED <<accepted, conn, held>>
    BY <2>0, <2>1, TypeSame DEF TypeOK, CallType, connVars
  <2>2. CASE /\ accepted # <<>>
             /\ held' = [held EXCEPT ![a] = {Head(accepted)}]
             /\ conn' = [conn EXCEPT ![Head(accepted)] = "held"]
             /\ accepted' = Tail(accepted)
             /\ acc' = [acc EXCEPT ![a] = "gotTerm"]
    BY <2>0, <2>2, TypeDequeue DEF TypeOK, ConnType, CallType
  <2> QED
    BY <2>1, <2>2 DEF acceptSelect
<1>4. CallType'
  BY <1>0, <1>2, <1>3 DEF TypeOK, CallType
<1> QED
  BY <1>0, <1>1, <1>3, <1>4, TypeSame DEF TypeOK

\* Accept's second look at the exposure with a connection in its hands.
LEMMA TypeAcceptGotTerm ==
    ASSUME TypeOK, NEW a \in Acceptors, acceptGotTerm(a)
    PROVE  TypeOK'
<1>0. UNCHANGED <<acceptUnchanged, changed, accepted, exh>>
  BY DEF acceptGotTerm
<1>1. conn' \in [Conns -> {"none", "offering", "queued", "held", "delivered", "closed"}]
  <2>1. CASE Closed
    <3>1. conn' = [c \in Conns |-> IF c \in held[a] THEN "closed" ELSE conn[c]]
      BY <2>1 DEF acceptGotTerm
    <3> QED
      BY <3>1 DEF TypeOK, ConnType
  <2>2. CASE ~Closed
    BY <2>2 DEF acceptGotTerm, TypeOK, ConnType
  <2> QED
    BY <2>1, <2>2
<1>2. ConnType'
  BY <1>0, <1>1 DEF TypeOK, ConnType
<1>3. CallType'
  BY <1>0 DEF acceptGotTerm, acceptUnchanged, AcceptReturns, TypeOK, CallType
<1> QED
  BY <1>0, <1>2, <1>3, TypeSame DEF acceptUnchanged, TypeOK

\* Accept.
LEMMA TypeAccept ==
    ASSUME TypeOK, NEW a \in Acceptors, acceptCall(a) \/ acceptStep(a)
    PROVE  TypeOK'
<1> USE DEF TypeOK, MemberType, SignalType, WorkerType, ConnType, CallType, DiscType, CloseType,
            memberVars, signalVars, connVars, callVars, discVars, closeVars, acceptUnchanged, AcceptReturns, Callers
<1>1. CASE acceptCall(a)
  BY <1>1 DEF acceptCall
<1>2. CASE acceptTerm(a)
  BY <1>2 DEF acceptTerm
<1>3. CASE acceptFail(a)
  BY <1>3 DEF acceptFail
<1>4. CASE acceptArmChanged(a)
  BY <1>4 DEF acceptArmChanged
<1>5. CASE acceptArmExhausted(a)
  BY <1>5 DEF acceptArmExhausted, exhausted
<1>6. CASE acceptSelect(a)
  BY <1>6, TypeAcceptSelect
<1>7. CASE acceptExTerm(a)
  BY <1>7 DEF acceptExTerm
<1>8. CASE acceptGotTerm(a)
  BY <1>8, TypeAcceptGotTerm
<1>9. CASE acceptGotFail(a)
  BY <1>9 DEF acceptGotFail
<1> QED
  BY <1>1, <1>2, <1>3, <1>4, <1>5, <1>6, <1>7, <1>8, <1>9 DEF acceptStep

\* WaitReady and WaitDatagramReady.
LEMMA TypeWait ==
    ASSUME TypeOK, NEW w \in Waiters, waitCall(w) \/ waitSnap(w) \/ waitSelect(w) \/ waitCtx(w)
    PROVE  TypeOK'
<1>0. UNCHANGED waitUnchanged
  BY DEF waitCall, waitSnap, waitSelect, waitCtx
<1>1. changed' \in [Callers -> BOOLEAN]
  BY DEF waitCall, waitSnap, waitSelect, waitCtx, TypeOK, SignalType, Callers
<1>2. wait' \in [Waiters -> WaitReturns \cup {"snap", "select"}]
  BY DEF waitCall, waitSnap, waitSelect, waitCtx, TypeOK, CallType, WaitReturns
<1>3. SignalType'
  BY <1>0, <1>1 DEF waitUnchanged, TypeOK, SignalType, signalVars
<1>4. CallType'
  BY <1>0, <1>2 DEF waitUnchanged, TypeOK, CallType
<1> QED
  BY <1>0, <1>3, <1>4, TypeSame DEF waitUnchanged, TypeOK

\* Close and the parent context.
LEMMA TypeClose ==
    ASSUME TypeOK, closeBegin \/ closeStep \/ parentCancel \/ parentWatch
    PROVE  TypeOK'
<1> USE DEF TypeOK, MemberType, SignalType, WorkerType, ConnType, CallType, DiscType, CloseType,
            memberVars, signalVars, connVars, callVars, discVars, closeVars, closeRest, CloseStates
<1>1. CASE closeBegin \/ parentWatch
  BY <1>1 DEF closeBegin, parentWatch
<1>2. CASE closeCancel
  BY <1>2 DEF closeCancel
<1>3. CASE closeWaitSup
  BY <1>3 DEF closeWaitSup
<1>4. CASE closeWaitDisc
  BY <1>4 DEF closeWaitDisc
<1>5. CASE closeDrain
  <2>1. CASE accepted # <<>>
    BY <1>5, <2>1, TypeDrainOne DEF closeDrain
  <2>2. CASE accepted = <<>>
    BY <1>5, <2>2 DEF closeDrain
  <2> QED
    BY <2>1, <2>2
<1>6. CASE closeFinish
  BY <1>6 DEF closeFinish
<1>7. CASE parentCancel
  BY <1>7 DEF parentCancel
<1> QED
  BY <1>1, <1>2, <1>3, <1>4, <1>5, <1>6, <1>7 DEF closeStep

\* Every step keeps every variable in its type.
LEMMA TypeNext == TypeOK /\ [Next]_vars => TypeOK'
<1> SUFFICES ASSUME TypeOK, [Next]_vars PROVE TypeOK'
  OBVIOUS
<1>1. CASE UNCHANGED vars
  BY <1>1 DEF vars, TypeOK, MemberType, SignalType, WorkerType, ConnType, CallType, DiscType, CloseType,
              memberVars, signalVars, connVars, callVars, discVars, closeVars
<1>2. CASE ProgramStep
  BY <1>2, TypeDiscovery, TypeSupervisor, TypeExhausted, TypeAccept, TypeWait, TypeClose
     DEF ProgramStep
<1>3. CASE EnvironmentStep
  BY <1>3, TypeSupervisor, TypeOffer, TypeAccept, TypeWait, TypeClose DEF EnvironmentStep
<1> QED
  BY <1>1, <1>2, <1>3 DEF Next

\* Type correctness of the exposure: whatever the relays, the application and
\* the scheduler do, every variable keeps its type and the accepted channel
\* stays within its capacity.
THEOREM TypeCorrect == Spec => []TypeOK
<1>1. Init => TypeOK
  BY TypeInit
<1>2. TypeOK /\ [Next]_vars => TypeOK'
  BY TypeNext
<1> QED
  BY <1>1, <1>2, PTL DEF Spec

----------------------------------------------------------------------------
(* Counters and the all-failed signal.                                     *)

\* Who may still add what: the explicit relays are added before discovery
\* starts, and one of them is missing later only if the exposure has ended, in
\* which case nothing is added any more.
AddOrder ==
    /\ disc # "off" => exposePc = "returned"
    /\ exposePc = "adding" => todo \subseteq Explicit
    /\ ~Closed => Explicit \subseteq Members \cup (IF exposePc = "adding" THEN todo ELSE {})

\* Discovery is inside markExhausted only after its own verdict.
DiscExhausts == ex[Disc] # "idle" => disc = "exhausting"

CountInv == TypeOK /\ CountsMatch /\ AddOrder /\ DiscExhausts

\* With discovery, only discovery exhausts the exposure, and from its verdict
\* to the next adoption every member is failed.
SignalInv ==
    DiscoveryEnabled =>
        /\ \A r \in Relays : ex[r] = "idle"
        /\ allFailed \/ disc = "exhausting" => Members = FailedSet

----------------------------------------------------------------------------
(* The counters.                                                           *)

\* Membership is finite.
LEMMA MembersFinite ==
    /\ IsFiniteSet(Members) /\ IsFiniteSet(FailedSet) /\ IsFiniteSet(Members \ Explicit)
    /\ FailedSet \subseteq Members
<1>1. Members \in SUBSET Relays /\ FailedSet \in SUBSET Relays
      /\ Members \ Explicit \in SUBSET Relays
  BY DEF Members, FailedSet
<1>2. FailedSet \subseteq Members
  BY DEF Members, FailedSet
<1> QED
  BY <1>1, <1>2, FS_Subset, RelaysAssumption

\* The counters depend on the membership only.
LEMMA CountsSame == CountsMatch /\ UNCHANGED memberVars => CountsMatch'
BY DEF CountsMatch, Members, FailedSet, memberVars

\* An add counts the new member once, and against the cap unless it is explicit.
LEMMA CountsAdd ==
    ASSUME TypeOK, CountsMatch, NEW r \in Relays, NEW e \in BOOLEAN, addRelay(r, e),
           ~Closed => (e <=> r \in Explicit)
    PROVE  CountsMatch'
<1>1. CASE AddRefused(r, e)
  BY <1>1, CountsSame DEF addRelay
<1>2. CASE ~AddRefused(r, e)
  <2>1. /\ ~Closed /\ r \notin Members
        /\ ~e => ~(discoveredCount >= MaxDiscovered)
    BY <1>2 DEF AddRefused
  <2>2. /\ statuses' = [statuses EXCEPT ![r] = "connecting"]
        /\ relayCount' = relayCount + 1
        /\ discoveredCount' = discoveredAfter(e)
        /\ UNCHANGED <<failedCount, rejectedRelays>>
    BY <1>2 DEF addRelay
  <2>3. Members' = Members \cup {r} /\ FailedSet' = FailedSet
    BY <2>1, <2>2 DEF TypeOK, MemberType, Members, FailedSet
  <2>4. relayCount' = Cardinality(Members')
    BY <2>1, <2>2, <2>3, MembersFinite, FS_AddElement DEF CountsMatch
  <2>5. discoveredCount' = Cardinality(Members' \ Explicit) /\ discoveredCount' <= MaxDiscovered
    <3>1. CASE e
      <4>1. Members' \ Explicit = Members \ Explicit
        BY <2>1, <2>3, <3>1
      <4> QED
        BY <2>2, <3>1, <4>1 DEF discoveredAfter, CountsMatch
    <3>2. CASE ~e
      <4>1. Members' \ Explicit = (Members \ Explicit) \cup {r} /\ r \notin Members \ Explicit
        BY <2>1, <2>3, <3>2
      <4>2. Cardinality(Members' \ Explicit) = Cardinality(Members \ Explicit) + 1
        BY <4>1, MembersFinite, FS_AddElement
      <4>3. discoveredCount' = discoveredCount + 1
        BY <2>2, <3>2 DEF discoveredAfter
      <4>4. discoveredCount' <= MaxDiscovered
        BY <2>1, <3>2, <4>3, BoundsAssumption DEF TypeOK, MemberType
      <4> QED
        BY <4>2, <4>3, <4>4 DEF CountsMatch
    <3> QED
      BY <3>1, <3>2
  <2> QED
    BY <2>2, <2>3, <2>4, <2>5 DEF CountsMatch
<1> QED
  BY <1>1, <1>2

\* markFailed counts each failure once and records the relay as rejected.
LEMMA CountsFailed ==
    ASSUME TypeOK, CountsMatch, NEW r \in Relays, markFailed(r)
    PROVE  CountsMatch'
<1>1. CASE Closed \/ statuses[r] \in {"absent", "failed"}
  BY <1>1, CountsSame DEF markFailed
<1>2. CASE ~(Closed \/ statuses[r] \in {"absent", "failed"})
  <2>1. /\ statuses' = [statuses EXCEPT ![r] = "failed"]
        /\ failedCount' = failedCount + 1
        /\ rejectedRelays' = rejectedRelays \cup {r}
        /\ UNCHANGED <<relayCount, discoveredCount>>
    BY <1>2 DEF markFailed
  <2>2. Members' = Members /\ FailedSet' = FailedSet \cup {r} /\ r \notin FailedSet
    BY <1>2, <2>1 DEF TypeOK, MemberType, Members, FailedSet
  <2>3. failedCount' = Cardinality(FailedSet')
    BY <2>1, <2>2, MembersFinite, FS_AddElement DEF CountsMatch
  <2> QED
    BY <2>1, <2>2, <2>3 DEF CountsMatch
<1> QED
  BY <1>1, <1>2

\* markReady moves a member between two states that are not counted.
LEMMA ReadyKeepsSets ==
    ASSUME TypeOK, NEW r \in Relays, markReady(r)
    PROVE  UNCHANGED <<Members, FailedSet, relayCount, failedCount, discoveredCount, rejectedRelays>>
BY DEF markReady, TypeOK, MemberType, Members, FailedSet

----------------------------------------------------------------------------
(* Discovery inside markExhausted.                                         *)

\* Every step keeps discovery's position and its markExhausted in line.
LEMMA DiscExhaustsNext ==
    ASSUME TypeOK, AddOrder, DiscExhausts, [Next]_vars
    PROVE  DiscExhausts'
<1> USE DEF memberVars, signalVars, connVars, callVars, discVars, closeVars
<1>0. ex \in [Executors -> ExStates] /\ Disc \in Executors /\ Disc \notin Relays
  BY RelaysAssumption DEF TypeOK, SignalType, Executors, Disc
<1>1. ASSUME UNCHANGED <<ex, disc>> PROVE DiscExhausts'
  BY <1>1 DEF DiscExhausts
<1>2. ASSUME UNCHANGED ex, disc # "exhausting" PROVE DiscExhausts'
  BY <1>2 DEF DiscExhausts
<1>3. ASSUME NEW r \in Relays, NEW e \in BOOLEAN, addRelay(r, e) PROVE UNCHANGED ex
  BY <1>3 DEF addRelay
<1>4. CASE ExposeAdd
  <2>1. PICK r \in todo : addRelay(r, TRUE)
    BY <1>4 DEF ExposeAdd
  <2> QED
    BY <1>1, <1>3, <1>4, <2>1 DEF ExposeAdd, TypeOK, DiscType
<1>5. CASE ExposeReturn
  <2>1. UNCHANGED ex /\ exposePc = "adding"
    BY <1>5 DEF ExposeReturn
  <2>2. disc # "exhausting"
    BY <2>1 DEF AddOrder
  <2> QED
    BY <1>2, <2>1, <2>2
<1>6. ASSUME NEW r \in Relays, NEW k \in WorkerKinds, publishDone(r, k) PROVE DiscExhausts'
  BY <1>1, <1>6 DEF publishDone
<1>7. ASSUME NEW r \in Relays, goRunSupervisor(r) \/ markFailed(r) \/ markReady(r)
      PROVE  DiscExhausts'
  BY <1>1, <1>7 DEF goRunSupervisor, markFailed, markReady
<1>8. ASSUME NEW r \in Relays, markFailedVerdict(r) PROVE DiscExhausts'
  <2>1. ex'[Disc] = ex[Disc] /\ disc' = disc
    BY <1>0, <1>8 DEF markFailedVerdict
  <2> QED
    BY <2>1 DEF DiscExhausts
<1>9. ASSUME NEW x \in Executors, markExhausted(x) PROVE DiscExhausts'
  <2>1. CASE x = Disc
    <3>1. disc = "exhausting"
      BY <1>9, <2>1 DEF DiscExhausts, markExhausted, exOnce, exClose, exLeave, exNotify, exDrain
    <3>2. UNCHANGED disc \/ ex'[Disc] = "idle"
      BY <1>0, <1>9, <2>1 DEF markExhausted, exOnce, exClose, exLeave, exNotify, exDrain
    <3> QED
      BY <3>1, <3>2 DEF DiscExhausts
  <2>2. CASE x # Disc
    <3>1. ex'[Disc] = ex[Disc] /\ disc' = disc
      BY <1>0, <1>9, <2>2 DEF markExhausted, exOnce, exClose, exLeave, exNotify, exDrain
    <3> QED
      BY <3>1 DEF DiscExhausts
  <2> QED
    BY <2>1, <2>2
<1>10. CASE refreshDiscovery \/ adoptDiscoveredRelays \/ discoveryTick \/ discoveryKicked
            \/ discoveryExit
  BY <1>2, <1>10 DEF refreshDiscovery, adoptDiscoveredRelays, discoveryTick, discoveryKicked,
                     discoveryExit
<1>11. CASE discoveryAdd
  <2>1. disc = "adding" /\ (UNCHANGED ex \/ \E r \in todo : addRelay(r, FALSE))
    BY <1>11 DEF discoveryAdd
  <2>2. UNCHANGED ex
    BY <1>3, <2>1 DEF TypeOK, DiscType
  <2> QED
    BY <1>2, <2>1, <2>2
<1>12. CASE discoveryVerdict
  BY <1>12 DEF discoveryVerdict, DiscExhausts
<1>13. ASSUME NEW r \in Relays, NEW p \in BOOLEAN, NEW m \in BOOLEAN, markDatagramReady(r, p, m)
       PROVE  DiscExhausts'
  BY <1>1, <1>13 DEF markDatagramReady
<1>14. ASSUME NEW r \in Relays, NEW b \in BOOLEAN, NEW e \in BOOLEAN, runReturn(r, b, e)
       PROVE  DiscExhausts'
  BY <1>1, <1>14 DEF runReturn
<1>15. ASSUME NEW c \in Conns, OfferBegin(c) \/ offer(c) \/ offerAbandon(c) PROVE DiscExhausts'
  BY <1>1, <1>15 DEF OfferBegin, offer, offerAbandon
<1>16. ASSUME NEW a \in Acceptors, acceptCall(a) \/ acceptStep(a) PROVE DiscExhausts'
  <2>1. UNCHANGED acceptUnchanged
    BY <1>16 DEF acceptCall, acceptStep, acceptTerm, acceptFail, acceptArmChanged,
                 acceptArmExhausted, acceptSelect, acceptExTerm, acceptGotTerm, acceptGotFail
  <2> QED
    BY <1>1, <2>1 DEF acceptUnchanged
<1>17. ASSUME NEW w \in Waiters, waitCall(w) \/ waitSnap(w) \/ waitSelect(w) \/ waitCtx(w)
       PROVE  DiscExhausts'
  BY <1>1, <1>17 DEF waitCall, waitSnap, waitSelect, waitCtx, waitUnchanged
<1>18. CASE closeBegin \/ closeStep \/ parentWatch \/ parentCancel
  BY <1>1, <1>18 DEF closeBegin, closeStep, parentWatch, parentCancel, closeCancel, closeWaitSup,
                     closeWaitDisc, closeDrain, closeFinish, closeRest
<1>19. CASE UNCHANGED vars
  BY <1>1, <1>19 DEF vars
<1> QED
  BY <1>4, <1>5, <1>6, <1>7, <1>8, <1>9, <1>10, <1>11, <1>12, <1>13, <1>14, <1>15, <1>16, <1>17,
     <1>18, <1>19 DEF Next, ProgramStep, EnvironmentStep, discoveryStep

----------------------------------------------------------------------------
(* Steps that leave the membership alone.                                  *)

Quiet ==
    /\ UNCHANGED <<statuses, relayCount, failedCount, discoveredCount, rejectedRelays, exposePc>>
    /\ Closed => Closed'
    /\ disc' # "off" => disc # "off"
    /\ UNCHANGED todo \/ disc # "off"

\* The steps of the callers, of the connections, of markExhausted and of Close
\* are quiet, and so are those of discovery that add nothing.
LEMMA QuietSteps ==
    ASSUME DiscExhausts,
           \/ \E r \in Relays, k \in WorkerKinds : publishDone(r, k)
           \/ \E r \in Relays : goRunSupervisor(r) \/ markFailedVerdict(r)
           \/ \E r \in Relays, p, m \in BOOLEAN : markDatagramReady(r, p, m)
           \/ \E r \in Relays, b, e \in BOOLEAN : runReturn(r, b, e)
           \/ \E c \in Conns : OfferBegin(c) \/ offer(c) \/ offerAbandon(c)
           \/ \E x \in Executors : markExhausted(x)
           \/ refreshDiscovery \/ adoptDiscoveredRelays \/ discoveryVerdict
           \/ discoveryTick \/ discoveryKicked \/ discoveryExit
           \/ \E a \in Acceptors : acceptCall(a) \/ acceptStep(a)
           \/ \E w \in Waiters : waitCall(w) \/ waitSnap(w) \/ waitSelect(w) \/ waitCtx(w)
           \/ closeBegin \/ closeStep \/ parentWatch \/ parentCancel
           \/ UNCHANGED vars
    PROVE  Quiet
<1> USE DEF memberVars, signalVars, connVars, callVars, discVars, closeVars, Quiet, Closed
<1>1. ASSUME NEW r \in Relays, NEW k \in WorkerKinds, publishDone(r, k) PROVE Quiet
  BY <1>1 DEF publishDone
<1>2. ASSUME NEW r \in Relays, goRunSupervisor(r) \/ markFailedVerdict(r) PROVE Quiet
  BY <1>2 DEF goRunSupervisor, markFailedVerdict
<1>3. ASSUME NEW r \in Relays, NEW p \in BOOLEAN, NEW m \in BOOLEAN, markDatagramReady(r, p, m)
      PROVE  Quiet
  BY <1>3 DEF markDatagramReady
<1>4. ASSUME NEW r \in Relays, NEW b \in BOOLEAN, NEW e \in BOOLEAN, runReturn(r, b, e)
      PROVE  Quiet
  BY <1>4 DEF runReturn
<1>5. ASSUME NEW c \in Conns, OfferBegin(c) \/ offer(c) \/ offerAbandon(c) PROVE Quiet
  BY <1>5 DEF OfferBegin, offer, offerAbandon
<1>6. ASSUME NEW x \in Executors, markExhausted(x) PROVE Quiet
  <2>1. UNCHANGED <<statuses, relayCount, failedCount, discoveredCount, rejectedRelays,
                    exposePc, todo, closing, ctxDone>>
    BY <1>6 DEF markExhausted
  <2>2. ex[x] # "idle"
    BY <1>6 DEF markExhausted, exOnce, exClose, exLeave, exNotify, exDrain
  <2>3. disc' = disc \/ x = Disc
    BY <1>6 DEF markExhausted, exOnce, exClose, exLeave, exNotify, exDrain
  <2> QED
    BY <2>1, <2>2, <2>3 DEF DiscExhausts
<1>7. CASE refreshDiscovery
  BY <1>7 DEF refreshDiscovery
<1>8. CASE adoptDiscoveredRelays
  BY <1>8 DEF adoptDiscoveredRelays
<1>9. CASE discoveryVerdict
  BY <1>9 DEF discoveryVerdict
<1>10. CASE discoveryTick \/ discoveryKicked \/ discoveryExit
  BY <1>10 DEF discoveryTick, discoveryKicked, discoveryExit
<1>11. ASSUME NEW a \in Acceptors, acceptCall(a) \/ acceptStep(a) PROVE Quiet
  <2>1. UNCHANGED acceptUnchanged
    BY <1>11 DEF acceptCall, acceptStep, acceptTerm, acceptFail, acceptArmChanged,
                 acceptArmExhausted, acceptSelect, acceptExTerm, acceptGotTerm, acceptGotFail
  <2> QED
    BY <2>1 DEF acceptUnchanged
<1>12. ASSUME NEW w \in Waiters, waitCall(w) \/ waitSnap(w) \/ waitSelect(w) \/ waitCtx(w)
       PROVE  Quiet
  <2>1. UNCHANGED waitUnchanged
    BY <1>12 DEF waitCall, waitSnap, waitSelect, waitCtx
  <2> QED
    BY <2>1 DEF waitUnchanged
<1>13. CASE closeBegin \/ closeStep \/ parentWatch \/ parentCancel
  BY <1>13 DEF closeBegin, closeStep, parentWatch, parentCancel, closeCancel, closeWaitSup,
               closeWaitDisc, closeDrain, closeFinish, closeRest
<1>14. CASE UNCHANGED vars
  BY <1>14 DEF vars
<1> QED
  BY <1>1, <1>2, <1>3, <1>4, <1>5, <1>6, <1>7, <1>8, <1>9, <1>10, <1>11, <1>12, <1>13, <1>14

\* A quiet step disturbs neither the counters nor the order of the adds.
LEMMA QuietKeeps == CountsMatch /\ AddOrder /\ Quiet => CountsMatch' /\ AddOrder'
<1> SUFFICES ASSUME CountsMatch, AddOrder, Quiet PROVE CountsMatch' /\ AddOrder'
  OBVIOUS
<1>1. Members' = Members /\ FailedSet' = FailedSet
  BY DEF Quiet, Members, FailedSet
<1>2. CountsMatch'
  BY <1>1 DEF Quiet, CountsMatch
<1>3. exposePc = "adding" => todo' = todo
  BY DEF AddOrder, Quiet
<1> QED
  BY <1>1, <1>2, <1>3 DEF Quiet, AddOrder

----------------------------------------------------------------------------
(* The invariant.                                                          *)

\* An exposure starts without members and with every counter at zero.
LEMMA CountInit == Init => CountInv
<1> SUFFICES ASSUME Init PROVE CountInv
  OBVIOUS
<1>1. Members = {} /\ FailedSet = {} /\ Members \ Explicit = {}
  BY DEF Init, Members, FailedSet
<1>2. CountsMatch
  BY <1>1, FS_EmptySet, BoundsAssumption DEF Init, CountsMatch
<1>3. AddOrder
  BY DEF Init, AddOrder
<1>4. DiscExhausts
  BY DEF Init, DiscExhausts, Executors
<1> QED
  BY <1>2, <1>3, <1>4, TypeInit DEF CountInv

\* Every step preserves the counters and the facts they rest on.
LEMMA CountNext == CountInv /\ [Next]_vars => CountInv'
<1> SUFFICES ASSUME CountInv, [Next]_vars PROVE CountsMatch' /\ AddOrder'
  BY TypeNext, DiscExhaustsNext DEF CountInv
<1>0. TypeOK /\ CountsMatch /\ AddOrder /\ DiscExhausts
  BY DEF CountInv
<1>1. CASE ExposeAdd
  <2> PICK r \in todo : addRelay(r, TRUE) /\ todo' = todo \ {r}
    BY <1>1 DEF ExposeAdd
  <2>1. r \in Explicit /\ r \in Relays /\ exposePc = "adding"
        /\ UNCHANGED <<exposePc, disc, closing, ctxDone>>
    BY <1>0, <1>1, ExplicitAssumption DEF ExposeAdd, AddOrder, closeVars
  <2>2. CountsMatch'
    BY <1>0, <2>1, CountsAdd
  <2>3. ~Closed => Members' = Members \cup {r}
    <3>1. CASE r \in Members \/ r \in rejectedRelays
      BY <1>0, <3>1, MembersFinite DEF addRelay, AddRefused, CountsMatch, Members, memberVars
    <3>2. CASE r \notin Members /\ r \notin rejectedRelays
      BY <1>0, <2>1, <3>2 DEF addRelay, AddRefused, TypeOK, MemberType, Members
    <3> QED
      BY <3>1, <3>2
  <2>4. AddOrder'
    BY <1>0, <2>1, <2>3 DEF AddOrder, Closed
  <2> QED
    BY <2>2, <2>4
<1>2. CASE ExposeReturn
  <2>1. CountsMatch'
    BY <1>0, <1>2, CountsSame DEF ExposeReturn
  <2>2. Members' = Members /\ exposePc = "adding" /\ exposePc' = "returned" /\ todo = {}
        /\ UNCHANGED <<closing, ctxDone>>
    BY <1>2 DEF ExposeReturn, memberVars, closeVars, Members
  <2>3. AddOrder'
    BY <1>0, <2>2 DEF AddOrder, Closed
  <2> QED
    BY <2>1, <2>3
<1>3. CASE discoveryAdd
  <2>0. disc = "adding" /\ exposePc = "returned" /\ UNCHANGED <<exposePc, closing, ctxDone>>
    BY <1>0, <1>3 DEF discoveryAdd, AddOrder, closeVars
  <2>1. CASE todo = {} \/ ctxDone
    <3>1. CountsMatch' /\ Members' = Members
      BY <1>0, <1>3, <2>1, CountsSame DEF discoveryAdd, memberVars, Members
    <3> QED
      BY <1>0, <2>0, <3>1 DEF AddOrder, Closed
  <2>2. CASE ~(todo = {} \/ ctxDone)
    <3> PICK r \in todo : addRelay(r, FALSE)
      BY <1>3, <2>2 DEF discoveryAdd
    <3>1. r \in Relays
      BY <1>0 DEF TypeOK, DiscType
    <3>2. CASE AddRefused(r, FALSE)
      <4>1. CountsMatch' /\ Members' = Members
        BY <1>0, <3>2, CountsSame DEF addRelay, memberVars, Members
      <4> QED
        BY <1>0, <2>0, <4>1 DEF AddOrder, Closed
    <3>3. CASE ~AddRefused(r, FALSE)
      <4>1. ~Closed /\ r \notin Explicit
        BY <1>0, <2>0, <3>3 DEF AddRefused, AddOrder
      <4>2. CountsMatch'
        BY <1>0, <3>1, <4>1, CountsAdd
      <4>3. Members \subseteq Members'
        BY <1>0, <3>1, <3>3 DEF addRelay, TypeOK, MemberType, Members
      <4> QED
        BY <1>0, <2>0, <4>2, <4>3 DEF AddOrder, Closed
    <3> QED
      BY <3>2, <3>3
  <2> QED
    BY <2>1, <2>2
<1>4. ASSUME NEW r \in Relays, markReady(r) PROVE CountsMatch' /\ AddOrder'
  <2>1. UNCHANGED <<Members, FailedSet, relayCount, failedCount, discoveredCount, rejectedRelays>>
    BY <1>0, <1>4, ReadyKeepsSets
  <2>2. UNCHANGED <<exposePc, todo, disc, closing, ctxDone>>
    BY <1>4 DEF markReady, discVars, closeVars
  <2> QED
    BY <1>0, <2>1, <2>2 DEF CountsMatch, AddOrder, Closed
<1>5. ASSUME NEW r \in Relays, markFailed(r) PROVE CountsMatch' /\ AddOrder'
  <2>1. CountsMatch'
    BY <1>0, <1>5, CountsFailed
  <2>2. Members' = Members
    BY <1>0, <1>5 DEF markFailed, TypeOK, MemberType, Members, memberVars
  <2>3. UNCHANGED <<exposePc, todo, disc, closing, ctxDone>>
    BY <1>5 DEF markFailed, discVars, closeVars
  <2> QED
    BY <1>0, <2>1, <2>2, <2>3 DEF AddOrder, Closed
<1>6. CASE Quiet
  BY <1>0, <1>6, QuietKeeps
<1> QED
  BY <1>0, <1>1, <1>2, <1>3, <1>4, <1>5, <1>6, QuietSteps
     DEF Next, ProgramStep, EnvironmentStep, discoveryStep

\* The counters on which Accept, discovery and markFailed base "every relay has
\* failed" are the membership they stand for, in every reachable state and for
\* any number of relays: relayCount, failedCount and discoveredCount are
\* cardinalities, the rejected relays are the failed ones, and discovery never
\* exceeds its cap.
THEOREM CountsCorrect == Spec => []CountsMatch
<1>1. CountInv => CountsMatch
  BY DEF CountInv
<1> QED
  BY <1>1, CountInit, CountNext, PTL DEF Spec

----------------------------------------------------------------------------
(* The all-failed signal.                                                  *)

\* When as many relays failed as there are members, every member failed.
LEMMA AllFailedMeansAll ==
    ASSUME CountsMatch, failedCount >= relayCount
    PROVE  Members = FailedSet
<1>1. FailedSet \subseteq Members /\ IsFiniteSet(Members) /\ IsFiniteSet(FailedSet)
  BY MembersFinite
<1>2. Cardinality(FailedSet) <= Cardinality(Members)
  BY <1>1, FS_Subset
<1>3. Cardinality(FailedSet) = Cardinality(Members)
  BY <1>1, <1>2, FS_CardinalityType DEF CountsMatch
<1> QED
  BY <1>1, <1>3, FS_Subset

\* Every step keeps the signal in line with the membership.
LEMMA SignalNext ==
    ASSUME CountInv, SignalInv, [Next]_vars
    PROVE  SignalInv'
<1> USE DEF memberVars, signalVars, connVars, callVars, discVars, closeVars
<1> SUFFICES ASSUME DiscoveryEnabled PROVE SignalInv'
  BY DEF SignalInv
<1>0. /\ TypeOK /\ CountsMatch /\ AddOrder /\ DiscExhausts
      /\ \A r \in Relays : ex[r] = "idle"
      /\ allFailed \/ disc = "exhausting" => Members = FailedSet
      /\ Disc \notin Relays
  BY RelaysAssumption DEF CountInv, SignalInv, Disc
<1>a. ASSUME UNCHANGED <<statuses, allFailed, ex>>, disc' = disc \/ disc' # "exhausting"
      PROVE  SignalInv'
  BY <1>0, <1>a DEF SignalInv, Members, FailedSet
<1>b. ASSUME NEW r \in Relays, NEW e \in BOOLEAN, addRelay(r, e),
             UNCHANGED disc, disc # "exhausting"
      PROVE  SignalInv'
  <2>1. CASE AddRefused(r, e)
    BY <1>a, <1>b, <2>1 DEF addRelay
  <2>2. CASE ~AddRefused(r, e)
    BY <1>0, <1>b, <2>2 DEF addRelay, rearmAllFailedLocked, SignalInv
  <2> QED
    BY <2>1, <2>2
<1>1. CASE ExposeAdd
  <2>1. PICK r \in todo : addRelay(r, TRUE)
    BY <1>1 DEF ExposeAdd
  <2>2. r \in Relays /\ UNCHANGED disc /\ disc # "exhausting"
    BY <1>0, <1>1 DEF ExposeAdd, TypeOK, DiscType, AddOrder
  <2> QED
    BY <1>b, <2>1, <2>2
<1>2. CASE ExposeReturn
  BY <1>2, <1>a DEF ExposeReturn
<1>3. ASSUME NEW r \in Relays, NEW k \in WorkerKinds, publishDone(r, k) PROVE SignalInv'
  BY <1>a, <1>3 DEF publishDone
<1>4. ASSUME NEW r \in Relays, goRunSupervisor(r) PROVE SignalInv'
  BY <1>a, <1>4 DEF goRunSupervisor
<1>5. ASSUME NEW r \in Relays, markFailed(r) PROVE SignalInv'
  <2>1. Members' = Members /\ FailedSet \subseteq FailedSet'
    BY <1>0, <1>5 DEF markFailed, TypeOK, MemberType, Members, FailedSet
  <2>2. FailedSet' \subseteq Members'
    BY DEF Members, FailedSet
  <2>3. UNCHANGED <<allFailed, ex, disc>>
    BY <1>5 DEF markFailed
  <2> QED
    BY <1>0, <2>1, <2>2, <2>3 DEF SignalInv
<1>6. ASSUME NEW r \in Relays, markFailedVerdict(r) PROVE SignalInv'
  BY <1>a, <1>6 DEF markFailedVerdict
<1>7. ASSUME NEW r \in Relays, markReady(r) PROVE SignalInv'
  <2>1. UNCHANGED <<Members, FailedSet>>
    BY <1>0, <1>7, ReadyKeepsSets
  <2>2. UNCHANGED <<allFailed, ex, disc>>
    BY <1>7 DEF markReady
  <2> QED
    BY <1>0, <2>1, <2>2 DEF SignalInv
<1>8. ASSUME NEW x \in Executors, markExhausted(x) PROVE SignalInv'
  <2>1. ex[x] # "idle"
    BY <1>8 DEF markExhausted, exOnce, exClose, exLeave, exNotify, exDrain
  <2>2. x = Disc /\ Members = FailedSet
    BY <1>0, <2>1 DEF Executors, DiscExhausts
  <2>3. Members' = FailedSet'
    BY <1>8, <2>2 DEF markExhausted, Members, FailedSet
  <2>4. \A r \in Relays : ex'[r] = ex[r]
    BY <1>0, <1>8, <2>2 DEF TypeOK, SignalType, Executors, markExhausted, exOnce, exClose, exLeave,
                            exNotify, exDrain
  <2>5. \A r \in Relays : ex'[r] = "idle"
    BY <1>0, <2>4
  <2> QED
    BY <2>3, <2>5 DEF SignalInv
<1>9. CASE refreshDiscovery \/ adoptDiscoveredRelays \/ discoveryTick \/ discoveryKicked
           \/ discoveryExit
  BY <1>a, <1>9 DEF refreshDiscovery, adoptDiscoveredRelays, discoveryTick, discoveryKicked,
                    discoveryExit
<1>10. CASE discoveryAdd
  <2>1. CASE todo = {} \/ ctxDone
    BY <1>a, <1>10, <2>1 DEF discoveryAdd
  <2>2. CASE ~(todo = {} \/ ctxDone)
    <3>1. PICK r \in todo : addRelay(r, FALSE)
      BY <1>10, <2>2 DEF discoveryAdd
    <3>2. r \in Relays /\ UNCHANGED disc /\ disc # "exhausting"
      BY <1>0, <1>10, <2>2 DEF discoveryAdd, TypeOK, DiscType
    <3> QED
      BY <1>b, <3>1, <3>2
  <2> QED
    BY <2>1, <2>2
<1>11. CASE discoveryVerdict
  <2>1. CASE relayCount > 0 /\ failedCount >= relayCount /\ ~Closed
    <3>1. Members = FailedSet
      BY <1>0, <2>1, AllFailedMeansAll
    <3>2. Members' = FailedSet'
      BY <1>11, <3>1 DEF discoveryVerdict, Members, FailedSet
    <3>3. ex' = [ex EXCEPT ![Disc] = "once"]
      BY <1>11, <2>1 DEF discoveryVerdict
    <3>4. \A r \in Relays : ex'[r] = ex[r]
      BY <1>0, <3>3 DEF TypeOK, SignalType, Executors
    <3>5. \A r \in Relays : ex'[r] = "idle"
      BY <1>0, <3>4
    <3> QED
      BY <3>2, <3>5 DEF SignalInv
  <2>2. CASE ~(relayCount > 0 /\ failedCount >= relayCount /\ ~Closed)
    BY <1>a, <1>11, <2>2 DEF discoveryVerdict
  <2> QED
    BY <2>1, <2>2
<1>12. ASSUME NEW r \in Relays, NEW p \in BOOLEAN, NEW m \in BOOLEAN, markDatagramReady(r, p, m)
       PROVE  SignalInv'
  BY <1>a, <1>12 DEF markDatagramReady
<1>13. ASSUME NEW r \in Relays, NEW b \in BOOLEAN, NEW e \in BOOLEAN, runReturn(r, b, e)
       PROVE  SignalInv'
  BY <1>a, <1>13 DEF runReturn
<1>14. ASSUME NEW c \in Conns, OfferBegin(c) \/ offer(c) \/ offerAbandon(c) PROVE SignalInv'
  BY <1>a, <1>14 DEF OfferBegin, offer, offerAbandon
<1>15. ASSUME NEW a \in Acceptors, acceptCall(a) \/ acceptStep(a) PROVE SignalInv'
  <2>1. UNCHANGED acceptUnchanged
    BY <1>15 DEF acceptCall, acceptStep, acceptTerm, acceptFail, acceptArmChanged,
                 acceptArmExhausted, acceptSelect, acceptExTerm, acceptGotTerm, acceptGotFail
  <2> QED
    BY <1>a, <2>1 DEF acceptUnchanged
<1>16. ASSUME NEW w \in Waiters, waitCall(w) \/ waitSnap(w) \/ waitSelect(w) \/ waitCtx(w)
       PROVE  SignalInv'
  BY <1>a, <1>16 DEF waitCall, waitSnap, waitSelect, waitCtx, waitUnchanged
<1>17. CASE closeBegin \/ closeStep \/ parentWatch \/ parentCancel
  BY <1>a, <1>17 DEF closeBegin, closeStep, parentWatch, parentCancel, closeCancel, closeWaitSup,
                     closeWaitDisc, closeDrain, closeFinish, closeRest
<1>18. CASE UNCHANGED vars
  BY <1>a, <1>18 DEF vars
<1> QED
  BY <1>1, <1>2, <1>3, <1>4, <1>5, <1>6, <1>7, <1>8, <1>9, <1>10, <1>11, <1>12, <1>13, <1>14,
     <1>15, <1>16, <1>17, <1>18 DEF Next, ProgramStep, EnvironmentStep, discoveryStep

\* With discovery, a closed all-failed signal (exhaustedSignal, Accept's fourth
\* select case) means that every member has failed at that moment, for any
\* number of relays: an adoption always takes the signal back.  The explicit
\* relays of Expose need no exception, because without a verdict of discovery
\* nobody closes the signal.
THEOREM SignalCorrect == Spec => []SignalMeansAllFailed
<1>1. Init => SignalInv
  BY DEF Init, SignalInv, Executors
<1>2. CountInv /\ SignalInv /\ [Next]_vars => CountInv' /\ SignalInv'
  BY CountNext, SignalNext
<1>3. SignalInv => SignalMeansAllFailed
  BY DEF SignalInv, SignalMeansAllFailed
<1> QED
  BY <1>1, <1>2, <1>3, CountInit, PTL DEF Spec
=============================================================================
