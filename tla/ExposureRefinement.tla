------------------------- MODULE ExposureRefinement -------------------------
(***************************************************************************)
(* Proof that an exposure with discovery implements Listener under the     *)
(* refinement mapping of MCExposure: Accept keeps its promises, step by    *)
(* step, for any number of relays, connections and callers.                *)
(***************************************************************************)
EXTENDS MCExposure, ExposureSafety

\* A connection came in through a member, and an Accept call that received has
\* one connection in its hands.
LinkInv ==
    /\ \A c \in Conns : conn[c] # "none" => statuses[c[1]] # "absent"
    /\ \A a \in Acceptors : acc[a] \in {"gotTerm", "gotFail"} => \E c \in Conns : held[a] = {c}

RefInv == SafetyInv /\ LinkInv

\* Members are never forgotten.
LEMMA MembersStay ==
    ASSUME TypeOK, [Next]_vars
    PROVE  \A r \in Relays : statuses[r] # "absent" => statuses'[r] # "absent"
<1> USE DEF memberVars, signalVars, connVars, callVars, discVars, closeVars
<1>0. /\ statuses \in [Relays -> {"absent", "connecting", "ready", "failed"}]
      /\ todo \subseteq Relays
  BY DEF TypeOK, MemberType, DiscType
<1> DEFINE P == \A r \in Relays : statuses[r] # "absent" => statuses'[r] # "absent"
<1>a. ASSUME UNCHANGED statuses PROVE P
  BY <1>a
<1>b. ASSUME NEW r \in Relays, NEW e \in BOOLEAN, addRelay(r, e) PROVE P
  BY <1>0, <1>b DEF addRelay
<1>1. CASE ExposeAdd
  BY <1>0, <1>1, <1>b DEF ExposeAdd
<1>2. CASE discoveryAdd
  <2>1. UNCHANGED statuses \/ \E r \in todo : addRelay(r, FALSE)
    BY <1>2 DEF discoveryAdd
  <2> QED
    BY <1>0, <1>b, <2>1
<1>3. ASSUME NEW r \in Relays, markReady(r) \/ markFailed(r) PROVE P
  BY <1>0, <1>3 DEF markReady, markFailed
<1>4. CASE ExposeReturn
  BY <1>4 DEF ExposeReturn
<1>5. CASE UNCHANGED vars
  BY <1>5 DEF vars
<1>6. ASSUME NEW r \in Relays, NEW k \in WorkerKinds, publishDone(r, k) PROVE P
  BY <1>6 DEF publishDone
<1>7. ASSUME NEW r \in Relays, goRunSupervisor(r) \/ markFailedVerdict(r) PROVE P
  BY <1>7 DEF goRunSupervisor, markFailedVerdict
<1>8. ASSUME NEW r \in Relays, NEW p \in BOOLEAN, NEW m \in BOOLEAN, markDatagramReady(r, p, m)
      PROVE  P
  BY <1>8 DEF markDatagramReady
<1>9. ASSUME NEW r \in Relays, NEW b \in BOOLEAN, NEW e \in BOOLEAN, runReturn(r, b, e) PROVE P
  BY <1>9 DEF runReturn
<1>10. ASSUME NEW c \in Conns, OfferBegin(c) \/ offer(c) \/ offerAbandon(c) PROVE P
  BY <1>10 DEF OfferBegin, offer, offerAbandon
<1>11. ASSUME NEW x \in Executors, markExhausted(x) PROVE P
  BY <1>11 DEF markExhausted
<1>12. CASE refreshDiscovery \/ adoptDiscoveredRelays \/ discoveryVerdict \/ discoveryTick
            \/ discoveryKicked \/ discoveryExit
  BY <1>12 DEF refreshDiscovery, adoptDiscoveredRelays, discoveryVerdict, discoveryTick,
               discoveryKicked, discoveryExit
<1>13. ASSUME NEW a \in Acceptors, acceptCall(a) \/ acceptStep(a) PROVE P
  <2>1. UNCHANGED acceptUnchanged
    BY <1>13 DEF acceptCall, acceptStep, acceptTerm, acceptFail, acceptArmChanged,
                 acceptArmExhausted, acceptSelect, acceptExTerm, acceptGotTerm, acceptGotFail
  <2> QED
    BY <2>1 DEF acceptUnchanged
<1>14. ASSUME NEW w \in Waiters, waitCall(w) \/ waitSnap(w) \/ waitSelect(w) \/ waitCtx(w) PROVE P
  BY <1>14 DEF waitCall, waitSnap, waitSelect, waitCtx, waitUnchanged
<1>15. CASE closeBegin \/ closeStep \/ parentWatch \/ parentCancel
  BY <1>15 DEF closeBegin, closeStep, parentWatch, parentCancel, closeCancel, closeWaitSup,
               closeWaitDisc, closeDrain, closeFinish, closeRest
<1> QED
  BY <1>1, <1>2, <1>3, <1>4, <1>5, <1>6, <1>7, <1>8, <1>9, <1>10, <1>11, <1>12, <1>13, <1>14, <1>15
     DEF Next, ProgramStep, EnvironmentStep, discoveryStep

\* Every step keeps connections and calls linked.
LEMMA LinkNext ==
    ASSUME ShutdownInv, LinkInv, [Next]_vars
    PROVE  LinkInv'
<1> USE DEF memberVars, signalVars, connVars, callVars, discVars, closeVars
<1>0. /\ TypeOK /\ OwnerInv /\ SupervisorScope
      /\ conn \in [Conns -> {"none", "offering", "queued", "held", "delivered", "closed"}]
      /\ held \in [Acceptors -> SUBSET Conns] /\ DOMAIN acc = Acceptors
      /\ \A c \in Conns : c[1] \in Relays
      /\ \A r \in Relays : statuses[r] # "absent" => statuses'[r] # "absent"
  BY MembersStay DEF ShutdownInv, CountInv, TypeOK, ConnType, CallType, Conns
<1>1. accepted # <<>> => Head(accepted) \in Conns /\ conn[Head(accepted)] = "queued"
  <2> SUFFICES ASSUME accepted # <<>>
               PROVE  Head(accepted) \in Conns /\ conn[Head(accepted)] = "queued"
    OBVIOUS
  <2>1. NoRepeat(accepted) /\ accepted \in Seq(Conns)
    BY <1>0 DEF OwnerInv, OneOwnerPerConn, NoRepeat, TypeOK, ConnType
  <2>2. Head(accepted) \in Conns /\ InQueue(accepted, Head(accepted))
    BY <2>1, QueueTake
  <2> QED
    BY <1>0, <2>2 DEF OwnerInv, OneOwnerPerConn, InQueue
<1>a. ASSUME \A c \in Conns : conn'[c] # "none" => conn[c] # "none" \/ statuses[c[1]] # "absent",
             UNCHANGED <<acc, held>>
      PROVE  LinkInv'
  BY <1>0, <1>a DEF LinkInv
<1>b. ASSUME UNCHANGED <<conn, acc, held>> PROVE LinkInv'
  BY <1>a, <1>b
<1>2. CASE ExposeAdd \/ ExposeReturn
  BY <1>b, <1>2 DEF ExposeAdd, ExposeReturn
<1>3. ASSUME NEW r \in Relays, NEW k \in WorkerKinds, publishDone(r, k) PROVE LinkInv'
  BY <1>b, <1>3 DEF publishDone
<1>4. ASSUME NEW r \in Relays,
             goRunSupervisor(r) \/ markFailed(r) \/ markFailedVerdict(r) \/ markReady(r)
      PROVE  LinkInv'
  BY <1>b, <1>4 DEF goRunSupervisor, markFailed, markFailedVerdict, markReady
<1>5. ASSUME NEW x \in Executors, markExhausted(x) PROVE LinkInv'
  <2>1. \A c \in Conns : conn'[c] # "none" => conn[c] # "none"
    BY <1>0, <1>1, <1>5 DEF markExhausted, exOnce, exClose, exLeave, exNotify, exDrain
  <2> QED
    BY <1>a, <1>5, <2>1 DEF markExhausted
<1>6. CASE discoveryStep \/ discoveryTick \/ discoveryExit
  BY <1>b, <1>6 DEF discoveryStep, refreshDiscovery, adoptDiscoveredRelays, discoveryAdd,
                    discoveryVerdict, discoveryKicked, discoveryTick, discoveryExit
<1>7. ASSUME NEW r \in Relays, NEW p \in BOOLEAN, NEW m \in BOOLEAN, markDatagramReady(r, p, m)
      PROVE  LinkInv'
  BY <1>b, <1>7 DEF markDatagramReady
<1>8. ASSUME NEW r \in Relays, NEW b \in BOOLEAN, NEW e \in BOOLEAN, runReturn(r, b, e)
      PROVE  LinkInv'
  BY <1>b, <1>8 DEF runReturn
<1>9. ASSUME NEW c \in Conns, OfferBegin(c) \/ offer(c) \/ offerAbandon(c) PROVE LinkInv'
  <2>1. \A d \in Conns : conn'[d] # "none" => conn[d] # "none" \/ statuses[d[1]] # "absent"
    BY <1>0, <1>9 DEF OfferBegin, offer, offerAbandon, SupervisorScope
  <2> QED
    BY <1>a, <1>9, <2>1 DEF OfferBegin, offer, offerAbandon
<1>10. ASSUME NEW a \in Acceptors, acceptCall(a) \/ acceptStep(a) PROVE LinkInv'
  <2>1. \A c \in Conns : conn'[c] # "none" => conn[c] # "none"
    <3>1. CASE acceptSelect(a)
      BY <1>0, <1>1, <3>1 DEF acceptSelect
    <3>2. CASE acceptGotTerm(a) \/ acceptGotFail(a)
      <4>1. \A c \in held[a] : conn[c] = "held"
        BY <1>0 DEF OwnerInv, OneOwnerPerConn
      <4> QED
        BY <1>0, <3>2, <4>1 DEF acceptGotTerm, acceptGotFail
    <3>3. CASE ~(acceptSelect(a) \/ acceptGotTerm(a) \/ acceptGotFail(a))
      BY <1>10, <3>3 DEF acceptCall, acceptStep, acceptTerm, acceptFail, acceptArmChanged,
                         acceptArmExhausted, acceptExTerm
    <3> QED
      BY <3>1, <3>2, <3>3
  <2>2. \A b \in Acceptors : b # a => acc'[b] = acc[b] /\ held'[b] = held[b]
    BY <1>0, <1>10 DEF acceptCall, acceptStep, acceptTerm, acceptFail, acceptArmChanged,
                 acceptArmExhausted, acceptSelect, acceptExTerm, acceptGotTerm, acceptGotFail
  <2>3. acc'[a] \in {"gotTerm", "gotFail"} => \E c \in Conns : held'[a] = {c}
    <3>1. CASE acceptSelect(a)
      BY <1>0, <1>1, <3>1 DEF acceptSelect
    <3>2. CASE acceptGotTerm(a)
      BY <1>0, <3>2 DEF acceptGotTerm, LinkInv
    <3>3. CASE ~(acceptSelect(a) \/ acceptGotTerm(a))
      BY <1>0, <1>10, <3>3 DEF acceptCall, acceptStep, acceptTerm, acceptFail, acceptArmChanged,
                         acceptArmExhausted, acceptExTerm, acceptGotFail
    <3> QED
      BY <3>1, <3>2, <3>3
  <2> QED
    BY <1>0, <2>1, <2>2, <2>3 DEF LinkInv
<1>11. ASSUME NEW w \in Waiters, waitCall(w) \/ waitSnap(w) \/ waitSelect(w) \/ waitCtx(w)
       PROVE  LinkInv'
  BY <1>b, <1>11 DEF waitCall, waitSnap, waitSelect, waitCtx, waitUnchanged
<1>12. CASE closeDrain
  <2>1. \A c \in Conns : conn'[c] # "none" => conn[c] # "none"
    BY <1>0, <1>1, <1>12 DEF closeDrain
  <2> QED
    BY <1>a, <1>12, <2>1 DEF closeDrain, closeRest
<1>13. CASE closeBegin \/ closeCancel \/ closeWaitSup \/ closeWaitDisc \/ closeFinish
            \/ parentWatch \/ parentCancel
  BY <1>b, <1>13 DEF closeBegin, closeCancel, closeWaitSup, closeWaitDisc, closeFinish,
                     parentWatch, parentCancel, closeRest
<1>14. CASE UNCHANGED vars
  BY <1>b, <1>14 DEF vars
<1> QED
  BY <1>2, <1>3, <1>4, <1>5, <1>6, <1>7, <1>8, <1>9, <1>10, <1>11, <1>12, <1>13, <1>14
     DEF Next, ProgramStep, EnvironmentStep, closeStep

----------------------------------------------------------------------------
(* The mapping, pointwise.                                                 *)

\* A step that changes nothing the mapping reads is a stutter.
LEMMA MapStutters ==
    ASSUME UNCHANGED <<statuses, closing, ctxDone, conn, acc, exh>>
    PROVE  UNCHANGED L!vars
BY DEF L!vars, memberOf, fateOf, callOf, Closed

\* The abstract membership forgets whether a relay is ready.
LEMMA MapMember ==
    ASSUME TypeOK, NEW r \in Relays, NEW s \in {"connecting", "ready", "failed"},
           statuses' = [statuses EXCEPT ![r] = s]
    PROVE  memberOf' = [memberOf EXCEPT ![r] = IF s = "failed" THEN "failed" ELSE "live"]
BY DEF TypeOK, MemberType, memberOf

\* The fate of one connection changes.
LEMMA MapFate ==
    ASSUME TypeOK, NEW c \in Conns, NEW s \in {"offering", "queued", "delivered", "closed"},
           conn' = [conn EXCEPT ![c] = s]
    PROVE  fateOf' = [fateOf EXCEPT ![c] = IF s = "offering" THEN "offered" ELSE s]
BY DEF TypeOK, ConnType, fateOf

\* The receive of a connection does not change its fate.
LEMMA MapReceive ==
    ASSUME TypeOK, NEW c \in Conns, conn[c] = "queued", conn' = [conn EXCEPT ![c] = "held"]
    PROVE  fateOf' = fateOf
<1>1. \A d \in Conns : conn'[d] = IF d = c THEN "held" ELSE conn[d]
  BY DEF TypeOK, ConnType
<1> QED
  BY <1>1 DEF fateOf

\* What an Accept call at position p, with signal h in its select, looks like.
CallAt(p, h) == CASE p \in AcceptReturns -> p
                  [] p = "term"          -> "entered"
                  [] p = "exTerm" \/ (p = "select" /\ h) -> "doomed"
                  [] OTHER               -> "waiting"

\* An Accept call moves on; only the position it moves to, and the signal it
\* holds there, matter.
LEMMA MapCall ==
    ASSUME TypeOK, NEW a \in Acceptors, NEW p, acc' = [acc EXCEPT ![a] = p],
           \A b \in Acceptors : b # a => exh'[b] = exh[b]
    PROVE  callOf' = [callOf EXCEPT ![a] = CallAt(p, exh'[a])]
<1>1. \A b \in Acceptors : acc'[b] = IF b = a THEN p ELSE acc[b]
  BY DEF TypeOK, CallType
<1>2. callOf = [b \in Acceptors |-> CallAt(acc[b], exh[b])]
  BY DEF callOf, CallAt
<1>3. callOf' = [b \in Acceptors |-> CallAt(acc'[b], exh'[b])]
  BY DEF callOf, CallAt
<1>4. \A b \in Acceptors : b # a => CallAt(acc'[b], exh'[b]) = CallAt(acc[b], exh[b])
  BY <1>1
<1>5. acc'[a] = p
  BY <1>1
<1> QED
  BY <1>2, <1>3, <1>4, <1>5

\* The exhausted verdict of Accept is the abstract AllFailed.
LEMMA ExhaustedMeansAllFailed ==
    ASSUME CountInv, exhausted
    PROVE  L!AllFailed
<1>1. Members = FailedSet /\ Members # {}
  <2>1. CountsMatch /\ failedCount >= relayCount /\ relayCount > 0
    BY DEF CountInv, exhausted
  <2>2. Members = FailedSet
    BY <2>1, AllFailedMeansAll
  <2>3. Members # {}
    BY <2>1, FS_EmptySet DEF CountsMatch
  <2> QED
    BY <2>2, <2>3
<1> QED
  BY <1>1 DEF L!AllFailed, memberOf, Members, FailedSet

\* When every member has failed, so has the relay of any connection.
LEMMA AllFailedDrops ==
    ASSUME LinkInv, Members = FailedSet, NEW c \in Conns, conn[c] \in {"queued", "held"}
    PROVE  L!Droppable(c)
<1>1. c[1] \in Relays /\ statuses[c[1]] = "failed"
  BY DEF LinkInv, Members, FailedSet, Conns
<1> QED
  BY <1>1 DEF L!Droppable, memberOf, fateOf

\* So has it, in effect, when the exposure has ended.
LEMMA ClosedDrops ==
    ASSUME Closed, NEW c \in Conns, conn[c] \in {"queued", "held"}
    PROVE  L!Droppable(c)
BY DEF L!Droppable, fateOf

\* The head of the accepted channel is a queued connection.
LEMMA HeadQueued ==
    ASSUME TypeOK, OwnerInv, accepted # <<>>
    PROVE  Head(accepted) \in Conns /\ conn[Head(accepted)] = "queued"
<1>1. NoRepeat(accepted) /\ accepted \in Seq(Conns)
  BY DEF OwnerInv, OneOwnerPerConn, NoRepeat, TypeOK, ConnType
<1>2. Head(accepted) \in Conns /\ InQueue(accepted, Head(accepted))
  BY <1>1, QueueTake
<1> QED
  BY <1>2 DEF OwnerInv, OneOwnerPerConn, InQueue

\* A drain of a queued connection that may be lost is a Drop.
LEMMA MapDrain ==
    ASSUME TypeOK, NEW c \in Conns, conn[c] = "queued", L!Droppable(c),
           conn' = [conn EXCEPT ![c] = "closed"],
           UNCHANGED <<statuses, closing, ctxDone, acc, exh>>
    PROVE  L!Next
<1>1. fateOf[c] = "queued" /\ fateOf' = [fateOf EXCEPT ![c] = "closed"]
  BY MapFate DEF fateOf
<1>2. UNCHANGED <<memberOf, Closed, callOf>>
  BY DEF memberOf, Closed, callOf
<1>3. L!Drop(c)
  BY <1>1, <1>2 DEF L!Drop, L!Pass
<1> QED
  BY <1>3 DEF L!Next

\* addRelay is a Join, or nothing.
LEMMA MapAdd ==
    ASSUME TypeOK, NEW r \in Relays, NEW e \in BOOLEAN, addRelay(r, e),
           UNCHANGED <<closing, ctxDone, conn, acc, exh>>
    PROVE  L!Next \/ UNCHANGED L!vars
<1>1. CASE AddRefused(r, e)
  BY <1>1, MapStutters DEF addRelay, memberVars
<1>2. CASE ~AddRefused(r, e)
  <2>1. statuses' = [statuses EXCEPT ![r] = "connecting"] /\ ~Closed /\ statuses[r] = "absent"
    BY <1>2 DEF addRelay, AddRefused, Members
  <2>2. memberOf[r] = "out" /\ memberOf' = [memberOf EXCEPT ![r] = "live"]
    BY <2>1, MapMember DEF memberOf
  <2>3. UNCHANGED <<Closed, fateOf, callOf>>
    BY DEF Closed, fateOf, callOf
  <2>4. L!Join(r)
    BY <2>1, <2>2, <2>3 DEF L!Join, L!Move
  <2> QED
    BY <2>4 DEF L!Next
<1> QED
  BY <1>1, <1>2

----------------------------------------------------------------------------
(* The steps.                                                              *)

\* A step of an Accept call that leaves every connection where it is.
LEMMA MapProceed ==
    ASSUME TypeOK, NEW a \in Acceptors, NEW p, acc' = [acc EXCEPT ![a] = p],
           \A b \in Acceptors : b # a => exh'[b] = exh[b],
           UNCHANGED <<statuses, closing, ctxDone>>, fateOf' = fateOf
    PROVE  /\ callOf' = [callOf EXCEPT ![a] = CallAt(p, exh'[a])]
           /\ callOf[a] = CallAt(acc[a], exh[a])
           /\ UNCHANGED <<memberOf, Closed, fateOf>>
BY MapCall DEF memberOf, Closed, callOf, CallAt

\* Accept's steps are the abstract ones: it enters, checks for the end, is doomed
\* by an exhausted exposure, starts again, and returns for the reason it gives.
LEMMA MapAccept ==
    ASSUME RefInv, NEW a \in Acceptors, acceptCall(a) \/ acceptStep(a)
    PROVE  L!Next \/ UNCHANGED L!vars
<1> USE DEF memberVars, signalVars, connVars, callVars, discVars, closeVars
<1>0. TypeOK /\ CountInv /\ OwnerInv /\ LinkInv
  BY DEF RefInv, SafetyInv, ShutdownInv, CountInv
<1>1. UNCHANGED <<statuses, closing, ctxDone>>
  <2>1. UNCHANGED acceptUnchanged
    BY DEF acceptCall, acceptStep, acceptTerm, acceptFail, acceptArmChanged,
           acceptArmExhausted, acceptSelect, acceptExTerm, acceptGotTerm, acceptGotFail
  <2> QED
    BY <2>1 DEF acceptUnchanged
<1>2. exh \in [Acceptors -> BOOLEAN]
  BY <1>0 DEF TypeOK, CallType
<1>3. \A b \in Acceptors : b # a => exh'[b] = exh[b]
  BY <1>2 DEF acceptCall, acceptStep, acceptTerm, acceptFail, acceptArmChanged,
           acceptArmExhausted, acceptSelect, acceptExTerm, acceptGotTerm, acceptGotFail
\* The mapped effect of a move that leaves the connections alone.
<1>p. ASSUME NEW p, acc' = [acc EXCEPT ![a] = p], fateOf' = fateOf
      PROVE  /\ callOf' = [callOf EXCEPT ![a] = CallAt(p, exh'[a])]
             /\ callOf[a] = CallAt(acc[a], exh[a])
             /\ UNCHANGED <<memberOf, Closed, fateOf>>
  BY <1>0, <1>1, <1>3, <1>p, MapProceed
<1>s. ASSUME NEW p, acc' = [acc EXCEPT ![a] = p], fateOf' = fateOf,
             CallAt(p, exh'[a]) = CallAt(acc[a], exh[a])
      PROVE  UNCHANGED L!vars
  <2>1. callOf' = callOf
    <3>1. callOf' = [callOf EXCEPT ![a] = callOf[a]]
      BY <1>p, <1>s
    <3>2. DOMAIN callOf = Acceptors /\ callOf = [b \in Acceptors |-> callOf[b]]
      BY DEF callOf
    <3> QED
      BY <3>1, <3>2
  <2> QED
    BY <1>p, <1>s, <2>1 DEF L!vars
<1>f. ASSUME UNCHANGED conn PROVE fateOf' = fateOf
  BY <1>f DEF fateOf
<1>4. CASE acceptCall(a)
  <2>1. callOf[a] \in L!Returned /\ callOf' = [callOf EXCEPT ![a] = "entered"]
        /\ UNCHANGED <<memberOf, Closed, fateOf>>
    BY <1>4, <1>p, <1>f DEF acceptCall, CallAt, AcceptReturns, L!Returned
  <2>2. L!Call(a)
    BY <2>1 DEF L!Call, L!Proceed
  <2> QED
    BY <2>2 DEF L!Next
<1>5. CASE acceptTerm(a)
  <2>1. callOf[a] = "entered" /\ UNCHANGED <<memberOf, Closed, fateOf>>
    BY <1>5, <1>p, <1>f DEF acceptTerm, CallAt, AcceptReturns
  <2>2. CASE Closed
    <3>1. callOf' = [callOf EXCEPT ![a] = "errClosed"]
      BY <1>5, <1>p, <1>f, <2>2 DEF acceptTerm, CallAt, AcceptReturns
    <3>2. L!ErrClosed(a)
      BY <2>1, <2>2, <3>1 DEF L!ErrClosed, L!Refuse, L!Returned
    <3> QED
      BY <3>2 DEF L!Next
  <2>3. CASE ~Closed
    <3>0. acc' = [acc EXCEPT ![a] = "fail"] /\ UNCHANGED conn
      BY <1>5, <2>3 DEF acceptTerm
    <3>1. callOf' = [callOf EXCEPT ![a] = "waiting"]
      BY <1>p, <1>f, <3>0 DEF CallAt, AcceptReturns
    <3>2. L!Check(a)
      BY <2>1, <2>3, <3>1 DEF L!Check, L!Proceed
    <3> QED
      BY <3>2 DEF L!Next
  <2> QED
    BY <2>2, <2>3
<1>6. CASE acceptFail(a)
  <2>1. CASE exhausted
    <3>1. callOf[a] = "waiting" /\ callOf' = [callOf EXCEPT ![a] = "noRelays"]
          /\ UNCHANGED <<memberOf, Closed, fateOf>>
      BY <1>6, <1>p, <1>f, <2>1 DEF acceptFail, CallAt, AcceptReturns
    <3>2. L!NoRelays(a)
      BY <1>0, <2>1, <3>1, ExhaustedMeansAllFailed DEF L!NoRelays, L!Refuse
    <3> QED
      BY <3>2 DEF L!Next
  <2>2. CASE ~exhausted
    BY <1>6, <1>s, <1>f, <2>2 DEF acceptFail, CallAt, AcceptReturns
  <2> QED
    BY <2>1, <2>2
<1>7. CASE acceptArmChanged(a)
  BY <1>7, <1>s, <1>f DEF acceptArmChanged, CallAt, AcceptReturns
<1>8. CASE acceptArmExhausted(a)
  <2>1. exh'[a] = exhausted
    BY <1>2, <1>8 DEF acceptArmExhausted
  <2>2. CASE exhausted
    <3>1. callOf[a] = "waiting" /\ callOf' = [callOf EXCEPT ![a] = "doomed"]
          /\ UNCHANGED <<memberOf, Closed, fateOf>>
      BY <1>8, <1>p, <1>f, <2>1, <2>2 DEF acceptArmExhausted, CallAt, AcceptReturns
    <3>2. L!Doom(a)
      BY <1>0, <2>2, <3>1, ExhaustedMeansAllFailed DEF L!Doom, L!Proceed
    <3> QED
      BY <3>2 DEF L!Next
  <2>3. CASE ~exhausted
    BY <1>8, <1>s, <1>f, <2>1, <2>3 DEF acceptArmExhausted, CallAt, AcceptReturns
  <2> QED
    BY <2>2, <2>3
<1>9. CASE acceptSelect(a)
  <2>0. acc[a] = "select" /\ callOf[a] \in {"waiting", "doomed"}
        /\ (callOf[a] = "doomed" <=> exh[a])
    BY <1>9 DEF acceptSelect, callOf, AcceptReturns
  <2>1. CASE ctxDone /\ acc' = [acc EXCEPT ![a] = "errClosed"] /\ UNCHANGED conn
    <3>1. callOf' = [callOf EXCEPT ![a] = "errClosed"] /\ UNCHANGED <<memberOf, Closed, fateOf>>
      BY <1>p, <1>f, <2>1 DEF CallAt, AcceptReturns
    <3>2. L!ErrClosed(a)
      BY <2>0, <2>1, <3>1 DEF L!ErrClosed, L!Refuse, L!Returned, Closed
    <3> QED
      BY <3>2 DEF L!Next
  <2>2. CASE acc' = [acc EXCEPT ![a] = "term"] /\ UNCHANGED conn
    <3>1. callOf' = [callOf EXCEPT ![a] = "entered"] /\ UNCHANGED <<memberOf, Closed, fateOf>>
      BY <1>p, <1>f, <2>2 DEF CallAt, AcceptReturns
    <3>2. L!Again(a)
      BY <2>0, <3>1 DEF L!Again, L!Proceed
    <3> QED
      BY <3>2 DEF L!Next
  <2>3. CASE exh[a] /\ acc' = [acc EXCEPT ![a] = "exTerm"] /\ UNCHANGED conn
    BY <1>s, <1>f, <2>0, <2>3 DEF CallAt, AcceptReturns
  <2>4. CASE /\ accepted # <<>> /\ conn' = [conn EXCEPT ![Head(accepted)] = "held"]
             /\ acc' = [acc EXCEPT ![a] = "gotTerm"]
    <3>1. fateOf' = fateOf
      BY <1>0, <2>4, HeadQueued, MapReceive
    <3>2. callOf' = [callOf EXCEPT ![a] = "waiting"] /\ UNCHANGED <<memberOf, Closed, fateOf>>
      BY <1>p, <2>4, <3>1 DEF CallAt, AcceptReturns
    <3>3. CASE callOf[a] = "doomed"
      <4>1. L!Spare(a)
        BY <3>2, <3>3 DEF L!Spare, L!Proceed
      <4> QED
        BY <4>1 DEF L!Next
    <3>4. CASE callOf[a] = "waiting"
      <4>1. callOf' = callOf
        BY <3>2, <3>4 DEF callOf
      <4> QED
        BY <3>2, <4>1 DEF L!vars
    <3> QED
      BY <2>0, <3>3, <3>4
  <2> QED
    BY <1>9, <2>1, <2>2, <2>3, <2>4 DEF acceptSelect
<1>10. CASE acceptExTerm(a)
  <2>1. callOf[a] = "doomed" /\ UNCHANGED <<memberOf, Closed, fateOf>>
    BY <1>10, <1>p, <1>f DEF acceptExTerm, CallAt, AcceptReturns
  <2>2. CASE Closed
    <3>1. callOf' = [callOf EXCEPT ![a] = "errClosed"]
      BY <1>10, <1>p, <1>f, <2>2 DEF acceptExTerm, CallAt, AcceptReturns
    <3>2. L!ErrClosed(a)
      BY <2>1, <2>2, <3>1 DEF L!ErrClosed, L!Refuse, L!Returned
    <3> QED
      BY <3>2 DEF L!Next
  <2>3. CASE ~Closed
    <3>1. callOf' = [callOf EXCEPT ![a] = "noRelays"]
      BY <1>10, <1>p, <1>f, <2>3 DEF acceptExTerm, CallAt, AcceptReturns
    <3>2. L!NoRelays(a)
      BY <2>1, <3>1 DEF L!NoRelays, L!Refuse
    <3> QED
      BY <3>2 DEF L!Next
  <2> QED
    BY <2>2, <2>3
\* The call returns what it has in its hands.
<1>h. ASSUME acc[a] \in {"gotTerm", "gotFail"}
      PROVE  /\ callOf[a] = "waiting"
             /\ \E c \in Conns : held[a] = {c} /\ conn[c] = "held" /\ fateOf[c] = "queued"
  <2>1. PICK c \in Conns : held[a] = {c}
    BY <1>0, <1>h DEF LinkInv
  <2>2. conn[c] = "held"
    BY <1>0, <2>1 DEF OwnerInv, OneOwnerPerConn
  <2>3. fateOf[c] = "queued"
    BY <2>2 DEF fateOf
  <2> QED
    BY <1>h, <2>1, <2>2, <2>3 DEF callOf, AcceptReturns
<1>r. ASSUME NEW c \in Conns, held[a] = {c}, NEW s \in {"closed", "delivered"},
             conn' = [d \in Conns |-> IF d \in held[a] THEN s ELSE conn[d]],
             NEW p \in AcceptReturns, acc' = [acc EXCEPT ![a] = p]
      PROVE  /\ fateOf' = [fateOf EXCEPT ![c] = s] /\ callOf' = [callOf EXCEPT ![a] = p]
             /\ UNCHANGED <<memberOf, Closed>>
  <2>0. CallAt(p, exh'[a]) = p
    <3>1. p = "idle" \/ p = "conn" \/ p = "errClosed" \/ p = "noRelays"
      BY DEF AcceptReturns
    <3> QED
      BY <3>1 DEF CallAt, AcceptReturns
  <2>1. callOf' = [callOf EXCEPT ![a] = p]
    BY <1>0, <1>3, <1>r, <2>0, MapCall
  <2>2. fateOf' = [fateOf EXCEPT ![c] = s]
    BY <1>r DEF fateOf
  <2> QED
    BY <1>1, <2>1, <2>2 DEF memberOf, Closed
<1>11. CASE acceptGotTerm(a)
  <2>1. PICK c \in Conns : held[a] = {c} /\ conn[c] = "held" /\ fateOf[c] = "queued"
    BY <1>11, <1>h DEF acceptGotTerm
  <2>2. CASE Closed
    <3>1. /\ fateOf' = [fateOf EXCEPT ![c] = "closed"] /\ callOf' = [callOf EXCEPT ![a] = "errClosed"]
          /\ UNCHANGED <<memberOf, Closed>>
      BY <1>11, <1>r, <2>1, <2>2 DEF acceptGotTerm, AcceptReturns
    <3>2. callOf[a] = "waiting"
      BY <1>11, <1>h DEF acceptGotTerm
    <3>3. L!ErrClosed(a)
      BY <2>1, <2>2, <3>1, <3>2, ClosedDrops DEF L!ErrClosed, L!Refuse, L!Returned
    <3> QED
      BY <3>3 DEF L!Next
  <2>3. CASE ~Closed
    BY <1>11, <1>s, <1>f, <2>3 DEF acceptGotTerm, CallAt, AcceptReturns
  <2> QED
    BY <2>2, <2>3
<1>12. CASE acceptGotFail(a)
  <2>1. PICK c \in Conns : held[a] = {c} /\ conn[c] = "held" /\ fateOf[c] = "queued"
    BY <1>12, <1>h DEF acceptGotFail
  <2>2. callOf[a] = "waiting"
    BY <1>12, <1>h DEF acceptGotFail
  <2>3. CASE exhausted
    <3>1. /\ acc' = [acc EXCEPT ![a] = "noRelays"]
          /\ conn' = [d \in Conns |-> IF d \in held[a] THEN "closed" ELSE conn[d]]
      BY <1>12, <2>3 DEF acceptGotFail
    <3>2. /\ fateOf' = [fateOf EXCEPT ![c] = "closed"] /\ callOf' = [callOf EXCEPT ![a] = "noRelays"]
          /\ UNCHANGED <<memberOf, Closed>>
      BY <1>r, <2>1, <3>1 DEF AcceptReturns
    <3>3. Members = FailedSet
      BY <1>0, <2>3, AllFailedMeansAll DEF CountInv, exhausted
    <3>4. L!Droppable(c)
      BY <1>0, <2>1, <3>3, AllFailedDrops
    <3>5. L!NoRelays(a)
      BY <1>0, <2>2, <2>3, <3>2, <3>4, ExhaustedMeansAllFailed DEF L!NoRelays, L!Refuse
    <3> QED
      BY <3>5 DEF L!Next
  <2>4. CASE ~exhausted
    <3>1. /\ acc' = [acc EXCEPT ![a] = "conn"]
          /\ conn' = [d \in Conns |-> IF d \in held[a] THEN "delivered" ELSE conn[d]]
      BY <1>12, <2>4 DEF acceptGotFail
    <3>2. /\ fateOf' = [fateOf EXCEPT ![c] = "delivered"] /\ callOf' = [callOf EXCEPT ![a] = "conn"]
          /\ UNCHANGED <<memberOf, Closed>>
      BY <1>r, <2>1, <3>1 DEF AcceptReturns
    <3>3. L!Accept(a, c)
      BY <2>1, <2>2, <3>2 DEF L!Accept
    <3> QED
      BY <3>3 DEF L!Next
  <2> QED
    BY <2>3, <2>4
<1> QED
  BY <1>4, <1>5, <1>6, <1>7, <1>8, <1>9, <1>10, <1>11, <1>12 DEF acceptStep

\* Every step of an exposure with discovery is a step of Listener, or changes
\* nothing that Listener speaks of.
LEMMA StepRefines ==
    ASSUME DiscoveryEnabled, RefInv, [Next]_vars
    PROVE  L!Next \/ UNCHANGED L!vars
<1> USE DEF memberVars, signalVars, connVars, callVars, discVars, closeVars
<1>0. /\ TypeOK /\ CountInv /\ OwnerInv /\ LinkInv /\ SupervisorScope /\ CloseOrder /\ SignalInv
      /\ DiscExhausts /\ todo \subseteq Relays /\ \A c \in Conns : c[1] \in Relays
  BY DEF RefInv, SafetyInv, ShutdownInv, CountInv, TypeOK, DiscType, Conns
<1>1. CASE ExposeAdd
  BY <1>0, <1>1, MapAdd DEF ExposeAdd
<1>2. CASE ExposeReturn
  BY <1>2, MapStutters DEF ExposeReturn
<1>3. ASSUME NEW r \in Relays, NEW k \in WorkerKinds, publishDone(r, k)
      PROVE  UNCHANGED L!vars
  BY <1>3, MapStutters DEF publishDone
<1>4. ASSUME NEW r \in Relays, goRunSupervisor(r) \/ markFailedVerdict(r)
      PROVE  UNCHANGED L!vars
  BY <1>4, MapStutters DEF goRunSupervisor, markFailedVerdict
<1>5. ASSUME NEW r \in Relays, markFailed(r) PROVE L!Next \/ UNCHANGED L!vars
  <2>1. CASE Closed \/ statuses[r] \in {"absent", "failed"}
    BY <1>5, <2>1, MapStutters DEF markFailed
  <2>2. CASE ~(Closed \/ statuses[r] \in {"absent", "failed"})
    <3>1. statuses' = [statuses EXCEPT ![r] = "failed"]
          /\ UNCHANGED <<closing, ctxDone, conn, acc, exh>>
      BY <1>5, <2>2 DEF markFailed
    <3>2. memberOf[r] = "live" /\ memberOf' = [memberOf EXCEPT ![r] = "failed"]
      BY <1>0, <2>2, <3>1, MapMember DEF memberOf
    <3>3. UNCHANGED <<Closed, fateOf, callOf>>
      BY <3>1 DEF Closed, fateOf, callOf
    <3>4. L!Fail(r)
      BY <2>2, <3>2, <3>3 DEF L!Fail, L!Move
    <3> QED
      BY <3>4 DEF L!Next
  <2> QED
    BY <2>1, <2>2
<1>6. ASSUME NEW r \in Relays, markReady(r) PROVE UNCHANGED L!vars
  <2>1. UNCHANGED <<closing, ctxDone, conn, acc, exh>>
    BY <1>6 DEF markReady
  <2>2. memberOf' = memberOf
    BY <1>0, <1>6 DEF markReady, TypeOK, MemberType, memberOf
  <2> QED
    BY <2>1, <2>2 DEF L!vars, Closed, fateOf, callOf
<1>7. ASSUME NEW x \in Executors, markExhausted(x) PROVE L!Next \/ UNCHANGED L!vars
  <2>1. UNCHANGED <<statuses, closing, ctxDone, acc, exh>> /\ ex[x] # "idle"
    BY <1>7 DEF markExhausted, exOnce, exClose, exLeave, exNotify, exDrain
  <2>2. CASE UNCHANGED conn
    BY <2>1, <2>2, MapStutters
  <2>3. CASE ~UNCHANGED conn
    <3>1. accepted # <<>> /\ conn' = [conn EXCEPT ![Head(accepted)] = "closed"]
      BY <1>7, <2>3 DEF markExhausted, exOnce, exClose, exLeave, exNotify, exDrain
    <3>2. Head(accepted) \in Conns /\ conn[Head(accepted)] = "queued"
      BY <1>0, <3>1, HeadQueued
    <3>3. Members = FailedSet
      BY <1>0, <2>1 DEF SignalInv, DiscExhausts, Executors
    <3>4. L!Droppable(Head(accepted))
      BY <1>0, <3>2, <3>3, AllFailedDrops
    <3> QED
      BY <1>0, <2>1, <3>1, <3>2, <3>4, MapDrain
  <2> QED
    BY <2>2, <2>3
<1>8. CASE refreshDiscovery \/ adoptDiscoveredRelays \/ discoveryVerdict \/ discoveryTick
           \/ discoveryKicked \/ discoveryExit
  BY <1>8, MapStutters DEF refreshDiscovery, adoptDiscoveredRelays, discoveryVerdict,
                           discoveryTick, discoveryKicked, discoveryExit
<1>9. CASE discoveryAdd
  <2>1. CASE todo = {} \/ ctxDone
    BY <1>9, <2>1, MapStutters DEF discoveryAdd
  <2>2. CASE ~(todo = {} \/ ctxDone)
    BY <1>0, <1>9, <2>2, MapAdd DEF discoveryAdd
  <2> QED
    BY <2>1, <2>2
<1>10. ASSUME NEW r \in Relays, NEW p \in BOOLEAN, NEW m \in BOOLEAN, markDatagramReady(r, p, m)
       PROVE  UNCHANGED L!vars
  BY <1>10, MapStutters DEF markDatagramReady
<1>11. ASSUME NEW r \in Relays, NEW b \in BOOLEAN, NEW e \in BOOLEAN, runReturn(r, b, e)
       PROVE  UNCHANGED L!vars
  BY <1>11, MapStutters DEF runReturn
\* The mapped effect of a step on one connection.
<1>c. ASSUME NEW c \in Conns, NEW s \in {"offering", "queued", "closed"},
             conn' = [conn EXCEPT ![c] = s], UNCHANGED <<statuses, closing, ctxDone, acc, exh>>
      PROVE  /\ fateOf' = [fateOf EXCEPT ![c] = IF s = "offering" THEN "offered" ELSE s]
             /\ UNCHANGED <<memberOf, Closed, callOf>>
  <2>1. fateOf' = [fateOf EXCEPT ![c] = IF s = "offering" THEN "offered" ELSE s]
    BY <1>0, <1>c, MapFate
  <2>2. UNCHANGED <<memberOf, Closed, callOf>>
    BY <1>c DEF memberOf, Closed, callOf
  <2> QED
    BY <2>1, <2>2
<1>12. ASSUME NEW c \in Conns, OfferBegin(c) PROVE L!Next
  <2>1. /\ fateOf' = [fateOf EXCEPT ![c] = "offered"]
        /\ UNCHANGED <<memberOf, Closed, callOf>>
    BY <1>c, <1>12 DEF OfferBegin
  <2>2. fateOf[c] = "none"
    BY <1>12 DEF OfferBegin, fateOf
  <2>3. memberOf[c[1]] = "live"
    <3>1. statuses[c[1]] \in {"connecting", "ready"}
      BY <1>0, <1>12 DEF OfferBegin, SupervisorScope
    <3> QED
      BY <1>0, <3>1 DEF memberOf
  <2>4. L!Offer(c)
    BY <2>1, <2>2, <2>3 DEF L!Offer, L!Pass
  <2> QED
    BY <2>4 DEF L!Next
<1>13. ASSUME NEW c \in Conns, offer(c) PROVE L!Next
  <2>1. /\ fateOf' = [fateOf EXCEPT ![c] = "queued"] /\ fateOf[c] = "offered"
        /\ UNCHANGED <<memberOf, Closed, callOf>>
    BY <1>c, <1>13 DEF offer, fateOf
  <2>2. L!Queue(c)
    BY <2>1 DEF L!Queue, L!Pass
  <2> QED
    BY <2>2 DEF L!Next
<1>14. ASSUME NEW c \in Conns, offerAbandon(c) PROVE L!Next
  <2>1. /\ fateOf' = [fateOf EXCEPT ![c] = "closed"] /\ fateOf[c] = "offered"
        /\ UNCHANGED <<memberOf, Closed, callOf>>
    BY <1>c, <1>14 DEF offerAbandon, fateOf
  <2>2. L!Withdraw(c)
    BY <2>1 DEF L!Withdraw, L!Pass
  <2> QED
    BY <2>2 DEF L!Next
<1>15. ASSUME NEW a \in Acceptors, acceptCall(a) \/ acceptStep(a) PROVE L!Next \/ UNCHANGED L!vars
  BY <1>15, MapAccept
<1>16. ASSUME NEW w \in Waiters, waitCall(w) \/ waitSnap(w) \/ waitSelect(w) \/ waitCtx(w)
       PROVE  UNCHANGED L!vars
  BY <1>16, MapStutters DEF waitCall, waitSnap, waitSelect, waitCtx, waitUnchanged
<1>17. CASE closeDrain
  <2>1. UNCHANGED <<statuses, closing, ctxDone, acc, exh>> /\ Closed
    BY <1>0, <1>17 DEF closeDrain, closeRest, CloseOrder, Closed
  <2>2. CASE accepted = <<>>
    BY <1>17, <2>1, <2>2, MapStutters DEF closeDrain
  <2>3. CASE accepted # <<>>
    <3>1. Head(accepted) \in Conns /\ conn[Head(accepted)] = "queued"
      BY <1>0, <2>3, HeadQueued
    <3>2. L!Droppable(Head(accepted))
      BY <2>1, <3>1, ClosedDrops
    <3> QED
      BY <1>0, <1>17, <2>1, <2>3, <3>1, <3>2, MapDrain DEF closeDrain
  <2> QED
    BY <2>2, <2>3
<1>18. CASE closeBegin \/ parentWatch \/ parentCancel \/ closeCancel
  <2>1. UNCHANGED <<memberOf, fateOf, callOf>> /\ Closed'
    BY <1>18 DEF closeBegin, parentWatch, parentCancel, closeCancel, closeRest, memberOf, fateOf,
                 callOf, Closed
  <2>2. CASE Closed
    BY <2>1, <2>2 DEF L!vars
  <2>3. CASE ~Closed
    <3>1. L!End
      BY <2>1, <2>3 DEF L!End
    <3> QED
      BY <3>1 DEF L!Next
  <2> QED
    BY <2>2, <2>3
<1>19. CASE closeWaitSup \/ closeWaitDisc \/ closeFinish
  BY <1>19, MapStutters DEF closeWaitSup, closeWaitDisc, closeFinish, closeRest
<1>20. CASE UNCHANGED vars
  BY <1>20, MapStutters DEF vars
<1> QED
  BY <1>1, <1>2, <1>3, <1>4, <1>5, <1>6, <1>7, <1>8, <1>9, <1>10, <1>11, <1>12, <1>13, <1>14,
     <1>15, <1>16, <1>17, <1>18, <1>19, <1>20
     DEF Next, ProgramStep, EnvironmentStep, discoveryStep, closeStep

\* An exposure with discovery is a Listener, for any number of relays, tenant
\* connections and Accept calls: whatever the supervisors, discovery, Close and
\* the parent context do, a connection goes to one call, ErrNoRelays is reported
\* only to a call that saw every relay failed, a call on an ended exposure gets
\* net.ErrClosed, and a queued connection is lost only with its relay or with the
\* exposure.
THEOREM ListenerImplemented ==
    ASSUME DiscoveryEnabled
    PROVE  Spec => ImplementsListener
<1>1. Init => L!Init
  BY DEF Init, L!Init, memberOf, fateOf, callOf, Closed, AcceptReturns
<1>2. Init => RefInv
  BY SafetyInvariant DEF Init, RefInv, LinkInv
<1>3. RefInv /\ [Next]_vars => RefInv'
  BY SafetyInvariant, LinkNext DEF RefInv, SafetyInv
<1>4. RefInv /\ [Next]_vars => [L!Next]_(L!vars)
  BY StepRefines
<1> QED
  BY <1>1, <1>2, <1>3, <1>4, PTL DEF Spec, ImplementsListener, L!Spec

=============================================================================
