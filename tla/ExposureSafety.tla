--------------------------- MODULE ExposureSafety ---------------------------
(***************************************************************************)
(* Proofs that every tenant connection of an exposure has one owner, that  *)
(* Close leaves nothing behind, that discovery gives up only without       *)
(* usable candidates, that no wake-up is lost, and that with discovery no  *)
(* goroutine dies of a channel or mutex misuse.                            *)
(***************************************************************************)
EXTENDS ExposureProofs

----------------------------------------------------------------------------
(* The accepted channel as a sequence.                                     *)

InQueue(q, c) == \E i \in 1..Len(q) : q[i] = c
NoRepeat(q)   == \A i, j \in 1..Len(q) : q[i] = q[j] => i = j

\* A receive takes the head, and only the head, out of the queue.
LEMMA QueueTake ==
    ASSUME NEW S, NEW q \in Seq(S), q # <<>>, NoRepeat(q)
    PROVE  /\ Head(q) \in S /\ InQueue(q, Head(q))
           /\ NoRepeat(Tail(q))
           /\ \A c : InQueue(Tail(q), c) <=> InQueue(q, c) /\ c # Head(q)
<1>1. Len(q) \in Nat \ {0} /\ Head(q) = q[1] /\ Head(q) \in S
  OBVIOUS
<1>2. Len(Tail(q)) = Len(q) - 1 /\ \A i \in 1..Len(Tail(q)) : Tail(q)[i] = q[i + 1]
  BY <1>1
<1>3. NoRepeat(Tail(q))
  BY <1>1, <1>2 DEF NoRepeat
<1>4. ASSUME NEW c PROVE InQueue(Tail(q), c) <=> InQueue(q, c) /\ c # Head(q)
  <2>1. ASSUME InQueue(Tail(q), c) PROVE InQueue(q, c) /\ c # Head(q)
    <3> PICK i \in 1..Len(Tail(q)) : Tail(q)[i] = c
      BY <2>1 DEF InQueue
    <3>1. i + 1 \in 1..Len(q) /\ q[i + 1] = c /\ i + 1 # 1 /\ 1 \in 1..Len(q)
      BY <1>1, <1>2
    <3> QED
      BY <1>1, <3>1 DEF InQueue, NoRepeat
  <2>2. ASSUME InQueue(q, c), c # Head(q) PROVE InQueue(Tail(q), c)
    <3> PICK i \in 1..Len(q) : q[i] = c
      BY <2>2 DEF InQueue
    <3>1. i # 1
      BY <1>1, <2>2
    <3>2. i - 1 \in 1..Len(Tail(q)) /\ Tail(q)[i - 1] = c
      BY <1>1, <1>2, <3>1
    <3> QED
      BY <3>2 DEF InQueue
  <2> QED
    BY <2>1, <2>2
<1> QED
  BY <1>1, <1>3, <1>4 DEF InQueue

\* A send puts one more connection at the end of the queue.
LEMMA QueuePut ==
    ASSUME NEW S, NEW q \in Seq(S), NEW d \in S, NoRepeat(q), ~InQueue(q, d)
    PROVE  /\ NoRepeat(Append(q, d))
           /\ \A c : InQueue(Append(q, d), c) <=> InQueue(q, c) \/ c = d
<1> DEFINE p == Append(q, d)
<1>1. /\ Len(q) \in Nat /\ Len(p) = Len(q) + 1 /\ p[Len(q) + 1] = d
      /\ \A i \in 1..Len(q) : p[i] = q[i]
  OBVIOUS
<1>2. \A i \in 1..Len(p) : i \in 1..Len(q) \/ i = Len(q) + 1
  BY <1>1
<1>3. \A i \in 1..Len(q) : i \in 1..Len(p)
  BY <1>1
<1>4. Len(q) + 1 \in 1..Len(p)
  BY <1>1
<1> HIDE DEF p
<1>5. NoRepeat(p)
  BY <1>1, <1>2 DEF NoRepeat, InQueue
<1>6. \A c : InQueue(p, c) <=> InQueue(q, c) \/ c = d
  BY <1>1, <1>2, <1>3, <1>4 DEF InQueue
<1> QED
  BY <1>5, <1>6 DEF p

----------------------------------------------------------------------------
(* Who owns a connection.                                                  *)

\* An Accept call has a connection in its hands only between its receive and
\* its return.
HeldInHand == \A a \in Acceptors : held[a] # {} => acc[a] \in {"gotTerm", "gotFail"}

OwnerInv == OneOwnerPerConn /\ HeldInHand

ownerVars == <<accepted, conn, acc, held>>

\* Ownership depends on the connections and the Accept calls only.
LEMMA OwnerSame == OwnerInv /\ UNCHANGED ownerVars => OwnerInv'
BY DEF OwnerInv, OneOwnerPerConn, HeldInHand, ownerVars

\* A connection that is neither queued nor held moves to a state that is
\* neither.
LEMMA OwnerMoves ==
    ASSUME TypeOK, OwnerInv, NEW c \in Conns, conn[c] \notin {"queued", "held"},
           NEW s, s \notin {"queued", "held"},
           conn' = [conn EXCEPT ![c] = s], UNCHANGED <<accepted, acc, held>>
    PROVE  OwnerInv'
<1>1. \A d \in Conns : conn'[d] = IF d = c THEN s ELSE conn[d]
  BY DEF TypeOK, ConnType
<1> QED
  BY <1>1 DEF OwnerInv, OneOwnerPerConn, HeldInHand

\* drainAccepted closes the head of the queue, which nobody else owns.
LEMMA OwnerDrains ==
    ASSUME TypeOK, OwnerInv, accepted # <<>>,
           conn' = [conn EXCEPT ![Head(accepted)] = "closed"],
           accepted' = Tail(accepted), UNCHANGED <<acc, held>>
    PROVE  OwnerInv'
<1>1. accepted \in Seq(Conns) /\ conn \in [Conns -> {"none", "offering", "queued", "held",
                                                       "delivered", "closed"}]
  BY DEF TypeOK, ConnType
<1>2. /\ NoRepeat(accepted) /\ HeldInHand
      /\ \A c \in Conns : conn[c] = "queued" <=> InQueue(accepted, c)
      /\ \A c \in Conns : conn[c] = "held" <=> \E a \in Acceptors : c \in held[a]
      /\ \A a, b \in Acceptors : held[a] \cap held[b] # {} => a = b
  BY DEF OwnerInv, OneOwnerPerConn, NoRepeat, InQueue
<1>3. /\ Head(accepted) \in Conns /\ InQueue(accepted, Head(accepted)) /\ NoRepeat(accepted')
      /\ \A c : InQueue(accepted', c) <=> InQueue(accepted, c) /\ c # Head(accepted)
  BY <1>1, <1>2, QueueTake
<1>4. \A c \in Conns : conn'[c] = IF c = Head(accepted) THEN "closed" ELSE conn[c]
  BY <1>1, <1>3
<1>5. conn[Head(accepted)] = "queued"
  BY <1>2, <1>3
<1>6. \A c \in Conns : conn'[c] = "queued" <=> InQueue(accepted', c)
  BY <1>2, <1>3, <1>4
<1>7. \A c \in Conns : conn'[c] = "held" <=> conn[c] = "held"
  BY <1>4, <1>5
<1>8. \A c \in Conns : conn'[c] = "held" <=> \E a \in Acceptors : c \in held'[a]
  BY <1>2, <1>7
<1> QED
  BY <1>2, <1>3, <1>6, <1>8 DEF OwnerInv, OneOwnerPerConn, NoRepeat, InQueue, HeldInHand

\* Accept receives the head of the queue into its own hands.
LEMMA OwnerReceives ==
    ASSUME TypeOK, OwnerInv, NEW a \in Acceptors, acc[a] = "select", accepted # <<>>,
           held' = [held EXCEPT ![a] = {Head(accepted)}],
           conn' = [conn EXCEPT ![Head(accepted)] = "held"],
           accepted' = Tail(accepted),
           acc' = [acc EXCEPT ![a] = "gotTerm"]
    PROVE  OwnerInv'
<1> DEFINE h == Head(accepted)
<1>1. /\ accepted \in Seq(Conns)
      /\ conn \in [Conns -> {"none", "offering", "queued", "held", "delivered", "closed"}]
      /\ held \in [Acceptors -> SUBSET Conns]
      /\ \A b \in Acceptors : acc'[b] = IF b = a THEN "gotTerm" ELSE acc[b]
  BY DEF TypeOK, ConnType, CallType
<1>2. /\ NoRepeat(accepted)
      /\ \A c \in Conns : conn[c] = "queued" <=> InQueue(accepted, c)
      /\ \A c \in Conns : conn[c] = "held" <=> \E b \in Acceptors : c \in held[b]
      /\ \A b, d \in Acceptors : held[b] \cap held[d] # {} => b = d
      /\ \A b \in Acceptors : held[b] # {} => acc[b] \in {"gotTerm", "gotFail"}
  BY DEF OwnerInv, OneOwnerPerConn, HeldInHand, NoRepeat, InQueue
<1>3. /\ h \in Conns /\ InQueue(accepted, h) /\ NoRepeat(accepted')
      /\ \A c : InQueue(accepted', c) <=> InQueue(accepted, c) /\ c # h
  BY <1>1, <1>2, QueueTake
<1>4. \A c \in Conns : conn'[c] = IF c = h THEN "held" ELSE conn[c]
  BY <1>1, <1>3
<1>5. /\ held[a] = {} /\ conn[h] = "queued"
      /\ \A b \in Acceptors : h \notin held[b]
      /\ \A b \in Acceptors : held'[b] = IF b = a THEN {h} ELSE held[b]
  BY <1>1, <1>2, <1>3
<1> HIDE DEF h
<1>6. \A c \in Conns : conn'[c] = "queued" <=> InQueue(accepted', c)
  BY <1>2, <1>3, <1>4
<1>7. \A c \in Conns : conn'[c] = "held" <=> \E b \in Acceptors : c \in held'[b]
  BY <1>2, <1>4, <1>5
<1>8. \A b, d \in Acceptors : held'[b] \cap held'[d] # {} => b = d
  BY <1>2, <1>5
<1>9. HeldInHand'
  BY <1>1, <1>2, <1>5 DEF HeldInHand
<1> QED
  BY <1>3, <1>6, <1>7, <1>8, <1>9 DEF OwnerInv, OneOwnerPerConn, NoRepeat, InQueue

\* Accept returns with the connection in its hands, delivered or closed.
LEMMA OwnerReturns ==
    ASSUME TypeOK, OwnerInv, NEW a \in Acceptors, NEW s, s \notin {"queued", "held"}, NEW p,
           held' = [held EXCEPT ![a] = {}],
           conn' = [c \in Conns |-> IF c \in held[a] THEN s ELSE conn[c]],
           acc' = [acc EXCEPT ![a] = p],
           UNCHANGED accepted
    PROVE  OwnerInv'
<1>1. /\ held \in [Acceptors -> SUBSET Conns]
      /\ \A b \in Acceptors : acc'[b] = IF b = a THEN p ELSE acc[b]
      /\ \A b \in Acceptors : held'[b] = IF b = a THEN {} ELSE held[b]
      /\ \A c \in Conns : conn'[c] = IF c \in held[a] THEN s ELSE conn[c]
  BY DEF TypeOK, CallType
<1>2. /\ NoRepeat(accepted)
      /\ \A c \in Conns : conn[c] = "queued" <=> InQueue(accepted, c)
      /\ \A c \in Conns : conn[c] = "held" <=> \E b \in Acceptors : c \in held[b]
      /\ \A b, d \in Acceptors : held[b] \cap held[d] # {} => b = d
      /\ \A b \in Acceptors : held[b] # {} => acc[b] \in {"gotTerm", "gotFail"}
  BY DEF OwnerInv, OneOwnerPerConn, HeldInHand, NoRepeat, InQueue
<1>3. \A c \in Conns : conn'[c] = "queued" <=> InQueue(accepted', c)
  BY <1>1, <1>2
<1>4. \A c \in Conns : conn'[c] = "held" <=> \E b \in Acceptors : c \in held'[b]
  BY <1>1, <1>2
<1>5. \A b, d \in Acceptors : held'[b] \cap held'[d] # {} => b = d
  BY <1>1, <1>2
<1>6. HeldInHand'
  BY <1>1, <1>2 DEF HeldInHand
<1> QED
  BY <1>2, <1>3, <1>4, <1>5, <1>6 DEF OwnerInv, OneOwnerPerConn, NoRepeat, InQueue

\* An Accept call that has nothing in its hands moves on.
LEMMA OwnerWaits ==
    ASSUME TypeOK, OwnerInv, NEW a \in Acceptors, NEW p,
           acc[a] \notin {"gotTerm", "gotFail"} \/ p \in {"gotTerm", "gotFail"},
           acc' = [acc EXCEPT ![a] = p], UNCHANGED <<accepted, conn, held>>
    PROVE  OwnerInv'
<1>1. \A b \in Acceptors : acc'[b] = IF b = a THEN p ELSE acc[b]
  BY DEF TypeOK, CallType
<1>2. HeldInHand'
  BY <1>1 DEF OwnerInv, HeldInHand
<1> QED
  BY <1>2 DEF OwnerInv, OneOwnerPerConn

\* Every step of an Accept call keeps the owners apart.
LEMMA OwnerAccept ==
    ASSUME TypeOK, OwnerInv, NEW a \in Acceptors, acceptCall(a) \/ acceptStep(a)
    PROVE  OwnerInv'
<1> USE DEF connVars
<1>1. CASE acceptCall(a)
  BY <1>1, OwnerWaits DEF acceptCall, AcceptReturns
<1>2. CASE acceptTerm(a) \/ acceptFail(a) \/ acceptArmChanged(a) \/ acceptArmExhausted(a)
           \/ acceptExTerm(a)
  BY <1>2, OwnerWaits DEF acceptTerm, acceptFail, acceptArmChanged, acceptArmExhausted,
                          acceptExTerm
<1>3. CASE acceptSelect(a)
  BY <1>3, OwnerWaits, OwnerReceives DEF acceptSelect
<1>4. CASE acceptGotTerm(a)
  <2>1. CASE Closed
    <3>1. /\ acc' = [acc EXCEPT ![a] = "errClosed"]
          /\ conn' = [c \in Conns |-> IF c \in held[a] THEN "closed" ELSE conn[c]]
          /\ held' = [held EXCEPT ![a] = {}]
          /\ UNCHANGED accepted
      BY <1>4, <2>1 DEF acceptGotTerm
    <3> QED
      BY <3>1, OwnerReturns
  <2>2. CASE ~Closed
    BY <1>4, <2>2, OwnerWaits DEF acceptGotTerm
  <2> QED
    BY <2>1, <2>2
<1>5. CASE acceptGotFail(a)
  <2>1. CASE exhausted
    <3>1. /\ acc' = [acc EXCEPT ![a] = "noRelays"]
          /\ conn' = [c \in Conns |-> IF c \in held[a] THEN "closed" ELSE conn[c]]
          /\ held' = [held EXCEPT ![a] = {}]
          /\ UNCHANGED accepted
      BY <1>5, <2>1 DEF acceptGotFail
    <3> QED
      BY <3>1, OwnerReturns
  <2>2. CASE ~exhausted
    <3>1. /\ acc' = [acc EXCEPT ![a] = "conn"]
          /\ conn' = [c \in Conns |-> IF c \in held[a] THEN "delivered" ELSE conn[c]]
          /\ held' = [held EXCEPT ![a] = {}]
          /\ UNCHANGED accepted
      BY <1>5, <2>2 DEF acceptGotFail
    <3> QED
      BY <3>1, OwnerReturns
  <2> QED
    BY <2>1, <2>2
<1> QED
  BY <1>1, <1>2, <1>3, <1>4, <1>5 DEF acceptStep

\* offer sends a connection that its worker alone owns.
LEMMA OwnerOffers ==
    ASSUME TypeOK, OwnerInv, NEW c \in Conns, offer(c)
    PROVE  OwnerInv'
<1>1. /\ accepted \in Seq(Conns) /\ conn[c] = "offering" /\ accepted' = Append(accepted, c)
      /\ UNCHANGED <<acc, held>>
      /\ \A d \in Conns : conn'[d] = IF d = c THEN "queued" ELSE conn[d]
  BY DEF offer, TypeOK, ConnType, callVars
<1>2. /\ NoRepeat(accepted) /\ HeldInHand
      /\ \A d \in Conns : conn[d] = "queued" <=> InQueue(accepted, d)
      /\ \A d \in Conns : conn[d] = "held" <=> \E a \in Acceptors : d \in held[a]
      /\ \A a, b \in Acceptors : held[a] \cap held[b] # {} => a = b
  BY DEF OwnerInv, OneOwnerPerConn, NoRepeat, InQueue
<1>3. ~InQueue(accepted, c)
  BY <1>1, <1>2
<1>4. NoRepeat(accepted') /\ \A d : InQueue(accepted', d) <=> InQueue(accepted, d) \/ d = c
  BY <1>1, <1>2, <1>3, QueuePut
<1>5. \A d \in Conns : conn'[d] = "queued" <=> InQueue(accepted', d)
  BY <1>1, <1>2, <1>4
<1>6. \A d \in Conns : conn'[d] = "held" <=> \E a \in Acceptors : d \in held'[a]
  BY <1>1, <1>2
<1> QED
  BY <1>1, <1>2, <1>4, <1>5, <1>6 DEF OwnerInv, OneOwnerPerConn, NoRepeat, InQueue, HeldInHand

\* Every step keeps the owners apart.
LEMMA OwnerNext ==
    ASSUME TypeOK, OwnerInv, [Next]_vars
    PROVE  OwnerInv'
<1> USE DEF connVars, callVars, ownerVars
<1>1. CASE ExposeAdd \/ ExposeReturn
  BY <1>1, OwnerSame DEF ExposeAdd, ExposeReturn
<1>2. ASSUME NEW r \in Relays, NEW k \in WorkerKinds, publishDone(r, k) PROVE OwnerInv'
  BY <1>2, OwnerSame DEF publishDone
<1>3. ASSUME NEW r \in Relays,
             goRunSupervisor(r) \/ markFailed(r) \/ markFailedVerdict(r) \/ markReady(r)
      PROVE  OwnerInv'
  BY <1>3, OwnerSame DEF goRunSupervisor, markFailed, markFailedVerdict, markReady
<1>4. ASSUME NEW x \in Executors, markExhausted(x) PROVE OwnerInv'
  <2>1. UNCHANGED <<acc, held>>
    BY <1>4 DEF markExhausted
  <2>2. CASE UNCHANGED connVars
    BY <2>1, <2>2, OwnerSame
  <2>3. CASE ~UNCHANGED connVars
    <3>1. exDrain(x) /\ accepted # <<>>
      BY <1>4, <2>3 DEF markExhausted, exOnce, exClose, exLeave, exNotify, exDrain
    <3> QED
      BY <2>1, <3>1, OwnerDrains DEF exDrain
  <2> QED
    BY <2>2, <2>3
<1>5. CASE discoveryStep \/ discoveryTick \/ discoveryExit
  BY <1>5, OwnerSame DEF discoveryStep, refreshDiscovery, adoptDiscoveredRelays, discoveryAdd,
                         discoveryVerdict, discoveryKicked, discoveryTick, discoveryExit
<1>6. ASSUME NEW r \in Relays, NEW p \in BOOLEAN, NEW m \in BOOLEAN, markDatagramReady(r, p, m)
      PROVE  OwnerInv'
  BY <1>6, OwnerSame DEF markDatagramReady
<1>7. ASSUME NEW r \in Relays, NEW b \in BOOLEAN, NEW e \in BOOLEAN, runReturn(r, b, e)
      PROVE  OwnerInv'
  BY <1>7, OwnerSame DEF runReturn
<1>8. ASSUME NEW c \in Conns, OfferBegin(c) \/ offer(c) \/ offerAbandon(c) PROVE OwnerInv'
  BY <1>8, OwnerMoves, OwnerOffers DEF OfferBegin, offerAbandon
<1>9. ASSUME NEW a \in Acceptors, acceptCall(a) \/ acceptStep(a) PROVE OwnerInv'
  BY <1>9, OwnerAccept
<1>10. ASSUME NEW w \in Waiters, waitCall(w) \/ waitSnap(w) \/ waitSelect(w) \/ waitCtx(w)
       PROVE  OwnerInv'
  BY <1>10, OwnerSame DEF waitCall, waitSnap, waitSelect, waitCtx, waitUnchanged
<1>11. CASE closeDrain
  <2>1. CASE accepted # <<>>
    BY <1>11, <2>1, OwnerDrains DEF closeDrain, closeRest
  <2>2. CASE accepted = <<>>
    BY <1>11, <2>2, OwnerSame DEF closeDrain, closeRest
  <2> QED
    BY <2>1, <2>2
<1>12. CASE closeBegin \/ closeCancel \/ closeWaitSup \/ closeWaitDisc \/ closeFinish
            \/ parentWatch \/ parentCancel
  BY <1>12, OwnerSame DEF closeBegin, closeCancel, closeWaitSup, closeWaitDisc, closeFinish,
                          parentWatch, parentCancel, closeRest
<1>13. CASE UNCHANGED vars
  BY <1>13, OwnerSame DEF vars
<1> QED
  BY <1>1, <1>2, <1>3, <1>4, <1>5, <1>6, <1>7, <1>8, <1>9, <1>10, <1>11, <1>12, <1>13
     DEF Next, ProgramStep, EnvironmentStep, closeStep

\* offer, Accept and the two drains never lose, duplicate or share a tenant
\* connection, for any number of relays, connections and Accept calls: what is
\* queued is in the channel once, and what was received is in the hands of one
\* call.
THEOREM OwnersCorrect == Spec => []OneOwnerPerConn
<1>1. Init => OwnerInv
  <2> SUFFICES ASSUME Init PROVE OwnerInv
    OBVIOUS
  <2>1. Len(accepted) = 0 /\ \A c \in Conns : conn[c] = "none"
    BY DEF Init
  <2>2. \A a \in Acceptors : held[a] = {}
    BY DEF Init
  <2> QED
    BY <2>1, <2>2 DEF OwnerInv, OneOwnerPerConn, HeldInHand
<1>2. TypeOK /\ OwnerInv /\ [Next]_vars => TypeOK' /\ OwnerInv'
  BY TypeNext, OwnerNext
<1>3. OwnerInv => OneOwnerPerConn
  BY DEF OwnerInv
<1> QED
  BY <1>1, <1>2, <1>3, TypeInit, PTL DEF Spec

----------------------------------------------------------------------------
(* What runs below a relay's supervisor.                                   *)

\* A supervisor belongs to a member, works on a live one until it has failed
\* it, and outlives its workers' publications, offers and its markExhausted.
SupervisorScope ==
    \A r \in Relays :
        /\ statuses[r] = "absent" => sup[r] = "none"
        /\ sup[r] \in {"starting", "running", "returned"} => statuses[r] \in {"connecting", "ready"}
        /\ pub[r] # {} => sup[r] = "running"
        /\ ex[r] # "idle" => sup[r] = "exhausting"
        /\ \A c \in Conns : c[1] = r /\ conn[c] = "offering" => sup[r] = "running"

scopeVars == <<statuses, pub, sup, ex, conn>>

\* A new member has no supervisor yet, so its first one disturbs nothing.
LEMMA ScopeAdd ==
    ASSUME TypeOK, SupervisorScope, NEW r \in Relays, NEW e \in BOOLEAN, addRelay(r, e),
           UNCHANGED <<pub, conn>>
    PROVE  SupervisorScope'
<1>1. CASE AddRefused(r, e)
  BY <1>1 DEF addRelay, memberVars, signalVars, SupervisorScope
<1>2. CASE ~AddRefused(r, e)
  <2>1. /\ statuses' = [statuses EXCEPT ![r] = "connecting"]
        /\ sup' = [sup EXCEPT ![r] = "starting"]
        /\ UNCHANGED ex
    BY <1>2 DEF addRelay
  <2>2. sup[r] = "none"
    BY <1>2 DEF AddRefused, Members, SupervisorScope
  <2>3. \A q \in Relays : q # r => statuses'[q] = statuses[q] /\ sup'[q] = sup[q]
    BY <2>1 DEF TypeOK, MemberType, WorkerType
  <2>4. statuses'[r] = "connecting" /\ sup'[r] = "starting"
    BY <2>1 DEF TypeOK, MemberType, WorkerType
  <2>5. pub[r] = {} /\ ex[r] = "idle" /\ \A c \in Conns : c[1] = r => conn[c] # "offering"
    BY <2>2 DEF SupervisorScope
  <2> QED
    BY <2>1, <2>3, <2>4, <2>5 DEF SupervisorScope
<1> QED
  BY <1>1, <1>2

\* Every step keeps the work of a relay within the life of its supervisor.
LEMMA ScopeNext ==
    ASSUME TypeOK, OwnerInv, SupervisorScope, [Next]_vars
    PROVE  SupervisorScope'
<1> USE DEF memberVars, signalVars, connVars, callVars, discVars, closeVars
<1>0. /\ statuses \in [Relays -> {"absent", "connecting", "ready", "failed"}]
      /\ sup \in [Relays -> SupStates] /\ pub \in [Relays -> SUBSET WorkerKinds]
      /\ ex \in [Executors -> ExStates] /\ todo \subseteq Relays
      /\ conn \in [Conns -> {"none", "offering", "queued", "held", "delivered", "closed"}]
      /\ Relays \subseteq Executors /\ Disc \notin Relays /\ \A c \in Conns : c[1] \in Relays
  BY RelaysAssumption DEF TypeOK, MemberType, WorkerType, SignalType, ConnType, DiscType, Executors,
                          Disc, Conns
<1>a. ASSUME UNCHANGED <<statuses, pub, sup, ex>>,
             \A c \in Conns : conn'[c] = "offering" => conn[c] = "offering"
      PROVE  SupervisorScope'
  BY <1>a DEF SupervisorScope
<1>b. ASSUME UNCHANGED scopeVars PROVE SupervisorScope'
  BY <1>a, <1>b DEF scopeVars
<1>1. CASE ExposeAdd
  BY <1>0, <1>1, ScopeAdd DEF ExposeAdd
<1>2. CASE ExposeReturn
  BY <1>b, <1>2 DEF ExposeReturn, scopeVars
<1>3. ASSUME NEW r \in Relays, NEW k \in WorkerKinds, publishDone(r, k) PROVE SupervisorScope'
  BY <1>0, <1>3 DEF publishDone, SupervisorScope
<1>4. ASSUME NEW r \in Relays, goRunSupervisor(r) PROVE SupervisorScope'
  BY <1>0, <1>4 DEF goRunSupervisor, SupervisorScope
<1>5. ASSUME NEW r \in Relays, markFailed(r) PROVE SupervisorScope'
  BY <1>0, <1>5 DEF markFailed, SupervisorScope
<1>6. ASSUME NEW r \in Relays, markFailedVerdict(r) PROVE SupervisorScope'
  BY <1>0, <1>6 DEF markFailedVerdict, SupervisorScope
<1>7. ASSUME NEW r \in Relays, markReady(r) PROVE SupervisorScope'
  BY <1>0, <1>7 DEF markReady, SupervisorScope
<1>8. ASSUME NEW x \in Executors, markExhausted(x) PROVE SupervisorScope'
  <2>1. UNCHANGED <<statuses, pub>> /\ ex[x] # "idle"
    BY <1>8 DEF markExhausted, exOnce, exClose, exLeave, exNotify, exDrain
  <2>2. \A c \in Conns : conn'[c] = "offering" => conn[c] = "offering"
    BY <1>0, <1>8 DEF markExhausted, exOnce, exClose, exLeave, exNotify, exDrain
  <2>3. \A r \in Relays : r # x => ex'[r] = ex[r] /\ sup'[r] = sup[r]
    BY <1>0, <1>8 DEF markExhausted, exOnce, exClose, exLeave, exNotify, exDrain
  <2>4. x \in Relays => sup[x] = "exhausting"
    BY <2>1 DEF SupervisorScope
  <2>5. x \in Relays => sup'[x] = "exhausting" \/ (sup'[x] = "done" /\ ex'[x] = "idle")
    BY <1>0, <1>8, <2>4 DEF markExhausted, exOnce, exClose, exLeave, exNotify, exDrain
  <2> QED
    BY <2>1, <2>2, <2>3, <2>4, <2>5 DEF SupervisorScope
<1>9. CASE refreshDiscovery \/ adoptDiscoveredRelays \/ discoveryTick \/ discoveryKicked
           \/ discoveryExit
  BY <1>b, <1>9 DEF refreshDiscovery, adoptDiscoveredRelays, discoveryTick, discoveryKicked,
                    discoveryExit, scopeVars
<1>10. CASE discoveryAdd
  <2>1. CASE todo = {} \/ ctxDone
    BY <1>b, <1>10, <2>1 DEF discoveryAdd, scopeVars
  <2>2. CASE ~(todo = {} \/ ctxDone)
    BY <1>0, <1>10, <2>2, ScopeAdd DEF discoveryAdd
  <2> QED
    BY <2>1, <2>2
<1>11. CASE discoveryVerdict
  <2>1. \A r \in Relays : ex'[r] = ex[r]
    BY <1>0, <1>11 DEF discoveryVerdict
  <2> QED
    BY <1>11, <2>1 DEF discoveryVerdict, SupervisorScope
<1>12. ASSUME NEW r \in Relays, NEW p \in BOOLEAN, NEW m \in BOOLEAN, markDatagramReady(r, p, m)
       PROVE  SupervisorScope'
  BY <1>0, <1>12 DEF markDatagramReady, SupervisorScope
<1>13. ASSUME NEW r \in Relays, NEW b \in BOOLEAN, NEW e \in BOOLEAN, runReturn(r, b, e)
       PROVE  SupervisorScope'
  BY <1>0, <1>13 DEF runReturn, SupervisorScope
<1>14. ASSUME NEW c \in Conns, OfferBegin(c) PROVE SupervisorScope'
  BY <1>0, <1>14 DEF OfferBegin, SupervisorScope
<1>15. ASSUME NEW c \in Conns, offer(c) \/ offerAbandon(c) PROVE SupervisorScope'
  BY <1>0, <1>a, <1>15 DEF offer, offerAbandon
<1>16. ASSUME NEW a \in Acceptors, acceptCall(a) \/ acceptStep(a) PROVE SupervisorScope'
  <2>1. UNCHANGED acceptUnchanged
    BY <1>16 DEF acceptCall, acceptStep, acceptTerm, acceptFail, acceptArmChanged,
                 acceptArmExhausted, acceptSelect, acceptExTerm, acceptGotTerm, acceptGotFail
  <2>2. \A c \in Conns : conn'[c] = "offering" => conn[c] = "offering"
    BY <1>0, <1>16 DEF acceptCall, acceptStep, acceptTerm, acceptFail, acceptArmChanged,
                 acceptArmExhausted, acceptSelect, acceptExTerm, acceptGotTerm, acceptGotFail
  <2> QED
    BY <1>a, <2>1, <2>2 DEF acceptUnchanged
<1>17. ASSUME NEW w \in Waiters, waitCall(w) \/ waitSnap(w) \/ waitSelect(w) \/ waitCtx(w)
       PROVE  SupervisorScope'
  BY <1>b, <1>17 DEF waitCall, waitSnap, waitSelect, waitCtx, waitUnchanged, scopeVars
<1>18. CASE closeDrain
  BY <1>0, <1>a, <1>18 DEF closeDrain, closeRest
<1>19. CASE closeBegin \/ closeCancel \/ closeWaitSup \/ closeWaitDisc \/ closeFinish
            \/ parentWatch \/ parentCancel
  BY <1>b, <1>19 DEF closeBegin, closeCancel, closeWaitSup, closeWaitDisc, closeFinish,
                     parentWatch, parentCancel, closeRest, scopeVars
<1>20. CASE UNCHANGED vars
  BY <1>b, <1>20 DEF vars, scopeVars
<1> QED
  BY <1>1, <1>2, <1>3, <1>4, <1>5, <1>6, <1>7, <1>8, <1>9, <1>10, <1>11, <1>12, <1>13, <1>14,
     <1>15, <1>16, <1>17, <1>18, <1>19, <1>20
     DEF Next, ProgramStep, EnvironmentStep, discoveryStep, closeStep

----------------------------------------------------------------------------
(* Close.                                                                  *)

\* What each wait of Close has achieved, and what nobody can undo behind it.
CloseOrder ==
    /\ closePc # "open" => closing /\ exposePc = "returned"
    /\ closePc \notin {"open", "cancel"} => ctxDone
    /\ closePc \in {"waitDisc", "drain", "finish", "closed"} =>
           \A r \in Relays : sup[r] \in {"none", "done"}
    /\ closePc \in {"drain", "finish", "closed"} => disc \in {"off", "done"}
    /\ closePc \in {"finish", "closed"} => accepted = <<>> /\ closeErr = cleanupErrs

\* Nothing is added to an exposure that has ended.
LEMMA ClosedRefuses ==
    ASSUME NEW r \in Relays, NEW e \in BOOLEAN, addRelay(r, e), Closed
    PROVE  UNCHANGED <<memberVars, signalVars, changed, sup>>
BY DEF addRelay, AddRefused

\* Every step respects the order of Close.
LEMMA CloseNext ==
    ASSUME TypeOK, AddOrder, DiscExhausts, SupervisorScope, CloseOrder, [Next]_vars
    PROVE  CloseOrder'
<1> USE DEF memberVars, signalVars, connVars, callVars, discVars, closeVars
<1>0. /\ sup \in [Relays -> SupStates] /\ todo \subseteq Relays /\ closePc \in CloseStates
      /\ Disc \notin Relays /\ \A c \in Conns : c[1] \in Relays
  BY RelaysAssumption DEF TypeOK, WorkerType, DiscType, CloseType, Disc, Conns
<1>a. ASSUME UNCHANGED <<closing, ctxDone, closePc, closeErr, exposePc, sup, disc, accepted,
                         cleanupErrs>>
      PROVE  CloseOrder'
  BY <1>a DEF CloseOrder
\* A step of a supervisor, while Close has not yet seen its end.
<1>b. ASSUME NEW r \in Relays, sup[r] \notin {"none", "done"},
             UNCHANGED <<closing, ctxDone, closePc, exposePc>>
      PROVE  CloseOrder'
  BY <1>0, <1>b DEF CloseOrder, CloseStates
\* A step of discovery, while Close has not yet seen its end.
<1>c. ASSUME disc \notin {"off", "done"},
             UNCHANGED <<closing, ctxDone, closePc, closeErr, exposePc, sup, accepted, cleanupErrs>>
      PROVE  CloseOrder'
  BY <1>c DEF CloseOrder
<1>1. CASE ExposeAdd
  <2>1. closePc = "open" /\ UNCHANGED <<closePc, exposePc>>
    BY <1>1 DEF ExposeAdd, CloseOrder
  <2> QED
    BY <2>1 DEF CloseOrder
<1>2. CASE ExposeReturn
  <2>1. closePc = "open" /\ UNCHANGED closePc
    BY <1>2 DEF ExposeReturn, CloseOrder
  <2> QED
    BY <2>1 DEF CloseOrder
<1>3. ASSUME NEW r \in Relays, NEW k \in WorkerKinds, publishDone(r, k) PROVE CloseOrder'
  BY <1>a, <1>3 DEF publishDone
<1>4. ASSUME NEW r \in Relays, goRunSupervisor(r) \/ markFailed(r) \/ markFailedVerdict(r)
      PROVE  CloseOrder'
  BY <1>b, <1>4 DEF goRunSupervisor, markFailed, markFailedVerdict
<1>5. ASSUME NEW r \in Relays, markReady(r) PROVE CloseOrder'
  BY <1>a, <1>5 DEF markReady
<1>6. ASSUME NEW x \in Executors, markExhausted(x) PROVE CloseOrder'
  <2>1. ex[x] # "idle" /\ UNCHANGED <<closing, ctxDone, closePc, closeErr, exposePc, cleanupErrs>>
    BY <1>6 DEF markExhausted, exOnce, exClose, exLeave, exNotify, exDrain
  <2>2. CASE x \in Relays
    BY <1>b, <2>1, <2>2 DEF SupervisorScope
  <2>3. CASE x = Disc
    <3>1. disc = "exhausting"
      BY <2>1, <2>3 DEF DiscExhausts
    <3>2. UNCHANGED sup /\ closePc \notin {"drain", "finish", "closed"}
      BY <1>0, <1>6, <2>3, <3>1 DEF markExhausted, exOnce, exClose, exLeave, exNotify, exDrain,
                                    CloseOrder
    <3> QED
      BY <2>1, <3>2 DEF CloseOrder
  <2> QED
    BY <2>2, <2>3 DEF Executors
<1>7. CASE refreshDiscovery \/ adoptDiscoveredRelays \/ discoveryTick \/ discoveryKicked
           \/ discoveryExit \/ discoveryVerdict
  BY <1>c, <1>7 DEF refreshDiscovery, adoptDiscoveredRelays, discoveryTick, discoveryKicked,
                    discoveryExit, discoveryVerdict
<1>8. CASE discoveryAdd
  <2>1. /\ disc = "adding"
        /\ UNCHANGED <<closing, ctxDone, closePc, closeErr, exposePc, accepted, cleanupErrs>>
    BY <1>8 DEF discoveryAdd
  <2>2. CASE Closed
    <3>1. UNCHANGED sup
      BY <1>0, <1>8, <2>2, ClosedRefuses DEF discoveryAdd
    <3> QED
      BY <1>c, <2>1, <3>1
  <2>3. CASE ~Closed
    <3>1. closePc = "open"
      BY <2>3 DEF CloseOrder, Closed
    <3> QED
      BY <2>1, <3>1 DEF CloseOrder
  <2> QED
    BY <2>2, <2>3
<1>9. ASSUME NEW r \in Relays, NEW p \in BOOLEAN, NEW m \in BOOLEAN, markDatagramReady(r, p, m)
      PROVE  CloseOrder'
  BY <1>a, <1>9 DEF markDatagramReady
<1>10. ASSUME NEW r \in Relays, NEW b \in BOOLEAN, NEW e \in BOOLEAN, runReturn(r, b, e)
       PROVE  CloseOrder'
  BY <1>b, <1>10 DEF runReturn
<1>11. ASSUME NEW c \in Conns, OfferBegin(c) \/ offerAbandon(c) PROVE CloseOrder'
  BY <1>a, <1>11 DEF OfferBegin, offerAbandon
<1>12. ASSUME NEW c \in Conns, offer(c) PROVE CloseOrder'
  <2>1. c[1] \in Relays /\ sup[c[1]] = "running"
    BY <1>0, <1>12 DEF offer, SupervisorScope
  <2> QED
    BY <1>b, <1>12, <2>1 DEF offer
<1>13. ASSUME NEW a \in Acceptors, acceptCall(a) \/ acceptStep(a) PROVE CloseOrder'
  <2>1. UNCHANGED acceptUnchanged
    BY <1>13 DEF acceptCall, acceptStep, acceptTerm, acceptFail, acceptArmChanged,
                 acceptArmExhausted, acceptSelect, acceptExTerm, acceptGotTerm, acceptGotFail
  <2>2. accepted = <<>> => UNCHANGED accepted
    BY <1>13 DEF acceptCall, acceptStep, acceptTerm, acceptFail, acceptArmChanged,
                 acceptArmExhausted, acceptSelect, acceptExTerm, acceptGotTerm, acceptGotFail
  <2> QED
    BY <2>1, <2>2 DEF acceptUnchanged, CloseOrder
<1>14. ASSUME NEW w \in Waiters, waitCall(w) \/ waitSnap(w) \/ waitSelect(w) \/ waitCtx(w)
       PROVE  CloseOrder'
  BY <1>a, <1>14 DEF waitCall, waitSnap, waitSelect, waitCtx, waitUnchanged
<1>15. CASE closeBegin \/ parentWatch
  BY <1>15 DEF closeBegin, parentWatch, closeRest, CloseOrder
<1>16. CASE closeCancel
  BY <1>16 DEF closeCancel, closeRest, CloseOrder
<1>17. CASE closeWaitSup \/ closeWaitDisc \/ closeFinish
  BY <1>17 DEF closeWaitSup, closeWaitDisc, closeFinish, closeRest, CloseOrder
<1>18. CASE closeDrain
  BY <1>18 DEF closeDrain, closeRest, CloseOrder
<1>19. CASE parentCancel
  BY <1>19 DEF parentCancel, closeRest, CloseOrder
<1>20. CASE UNCHANGED vars
  BY <1>a, <1>20 DEF vars
<1> QED
  BY <1>1, <1>2, <1>3, <1>4, <1>5, <1>6, <1>7, <1>8, <1>9, <1>10, <1>11, <1>12, <1>13, <1>14,
     <1>15, <1>16, <1>17, <1>18, <1>19, <1>20
     DEF Next, ProgramStep, EnvironmentStep, discoveryStep, closeStep

\* The invariant behind the shutdown: ownership, scope and order together.
ShutdownInv == CountInv /\ OwnerInv /\ SupervisorScope /\ CloseOrder

\* An exposure starts with nothing running and nobody closing.
LEMMA ShutdownInit == Init => ShutdownInv
<1> SUFFICES ASSUME Init PROVE ShutdownInv
  OBVIOUS
<1>1. Len(accepted) = 0 /\ \A c \in Conns : conn[c] = "none"
  BY DEF Init
<1>2. \A a \in Acceptors : held[a] = {}
  BY DEF Init
<1>3. OwnerInv
  BY <1>1, <1>2 DEF OwnerInv, OneOwnerPerConn, HeldInHand
<1>4. SupervisorScope
  BY <1>1 DEF Init, SupervisorScope, Executors
<1>5. CloseOrder
  BY DEF Init, CloseOrder
<1> QED
  BY <1>3, <1>4, <1>5, CountInit DEF ShutdownInv

\* Every step preserves it.
LEMMA ShutdownNext == ShutdownInv /\ [Next]_vars => ShutdownInv'
BY CountNext, OwnerNext, ScopeNext, CloseNext DEF ShutdownInv, CountInv

\* When Close closes the updates channel and returns, nothing it waited for has
\* come back, for any number of relays, connections and callers: supervisors,
\* publishers, discovery and markExhausted are gone, no connection is queued or
\* offered, and Close reports every cleanup error.
THEOREM CloseCorrect == Spec => []CloseIsFinal
<1>1. ASSUME ShutdownInv PROVE CloseIsFinal
  <2>1. CASE closePc \notin {"finish", "closed"}
    BY <2>1 DEF CloseIsFinal
  <2>2. CASE closePc \in {"finish", "closed"}
    <3>1. /\ \A r \in Relays : sup[r] \in {"none", "done"}
          /\ disc \in {"off", "done"} /\ accepted = <<>> /\ closeErr = cleanupErrs
      BY <1>1, <2>2 DEF ShutdownInv, CloseOrder
    <3>2. \A r \in Relays : pub[r] = {} /\ ex[r] = "idle"
      BY <1>1, <3>1 DEF ShutdownInv, SupervisorScope
    <3>3. ex[Disc] = "idle"
      BY <1>1, <3>1 DEF ShutdownInv, CountInv, DiscExhausts
    <3>4. \A c \in Conns : conn[c] # "offering"
      BY <1>1, <3>1 DEF ShutdownInv, SupervisorScope, Conns
    <3>5. \A c \in Conns : conn[c] # "queued"
      BY <1>1, <3>1 DEF ShutdownInv, OwnerInv, OneOwnerPerConn
    <3> QED
      BY <3>1, <3>2, <3>3, <3>4, <3>5 DEF CloseIsFinal, Executors
  <2> QED
    BY <2>1, <2>2
<1> QED
  BY <1>1, ShutdownInit, ShutdownNext, PTL DEF Spec

----------------------------------------------------------------------------
(* Channel and mutex misuse.                                               *)

\* With discovery there is one executor of markExhausted.  It holds the mutex of
\* failedOnce exactly while it is inside Do, and the Once is done exactly when
\* the signal it guards is closed, but for the moment before Do returns.
OnceGuardsSignal ==
    DiscoveryEnabled =>
        /\ once.locked <=> ex[Disc] \in {"close", "leave"}
        /\ allFailed <=> (once.done \/ ex[Disc] = "leave")
        /\ ~(once.done /\ once.locked)

\* The crashes that are excluded: a send on the closed updates channel in every
\* configuration, and with discovery every other one too.
CrashFree ==
    /\ crash # "send on closed channel"
    /\ DiscoveryEnabled => NoCrash

\* A publisher still has a supervisor, so Close has not closed the channel.
LEMMA PublishSafe ==
    ASSUME ShutdownInv, NEW r \in Relays, sup[r] \notin {"none", "done"}, publishUpdate
    PROVE  UNCHANGED crash
BY DEF ShutdownInv, CloseOrder, publishUpdate, UpdatesClosed

\* An adoption replaces signal and Once together, and never under a running Do.
LEMMA OnceAdd ==
    ASSUME TypeOK, OnceGuardsSignal, ex[Disc] = "idle", NEW r \in Relays, NEW e \in BOOLEAN,
           addRelay(r, e)
    PROVE  OnceGuardsSignal'
<1> SUFFICES ASSUME DiscoveryEnabled PROVE OnceGuardsSignal'
  BY DEF OnceGuardsSignal
<1>1. CASE AddRefused(r, e)
  BY <1>1 DEF addRelay, signalVars, OnceGuardsSignal
<1>2. CASE ~AddRefused(r, e)
  <2>1. allFailed' = FALSE /\ UNCHANGED ex /\ once' = IF allFailed THEN FreshOnce ELSE once
    BY <1>2 DEF addRelay, rearmAllFailedLocked
  <2> QED
    BY <2>1 DEF OnceGuardsSignal, FreshOnce
<1> QED
  BY <1>1, <1>2

\* The steps of markExhausted, taken by discovery alone.
LEMMA OnceExhausted ==
    ASSUME TypeOK, OnceGuardsSignal, DiscoveryEnabled, markExhausted(Disc)
    PROVE  OnceGuardsSignal' /\ UNCHANGED crash
<1>0. /\ ex \in [Executors -> ExStates] /\ Disc \in Executors
      /\ once \in [done : BOOLEAN, locked : BOOLEAN] /\ allFailed \in BOOLEAN
  BY DEF TypeOK, SignalType, Executors
<1>1. /\ once.locked <=> ex[Disc] \in {"close", "leave"}
      /\ allFailed <=> (once.done \/ ex[Disc] = "leave")
      /\ ~(once.done /\ once.locked)
  BY DEF OnceGuardsSignal
<1>2. CASE exOnce(Disc)
  <2>1. CASE once.done
    BY <1>0, <1>1, <1>2, <2>1 DEF exOnce, OnceGuardsSignal
  <2>2. CASE ~once.done
    <3>1. once' = [once EXCEPT !.locked = TRUE] /\ ex' = [ex EXCEPT ![Disc] = "close"]
          /\ UNCHANGED <<allFailed, crash>> /\ ex[Disc] = "once"
      BY <1>2, <2>2 DEF exOnce
    <3>2. once'.locked = TRUE /\ once'.done = once.done /\ ex'[Disc] = "close"
      BY <1>0, <3>1
    <3> QED
      BY <1>1, <2>2, <3>1, <3>2 DEF OnceGuardsSignal
  <2> QED
    BY <2>1, <2>2
<1>3. CASE exClose(Disc)
  BY <1>0, <1>1, <1>3 DEF exClose, OnceGuardsSignal
<1>4. CASE exLeave(Disc)
  BY <1>0, <1>1, <1>4 DEF exLeave, OnceGuardsSignal
<1>5. CASE exNotify(Disc)
  BY <1>0, <1>1, <1>5 DEF exNotify, OnceGuardsSignal
<1>6. CASE exDrain(Disc)
  BY <1>0, <1>1, <1>6 DEF exDrain, OnceGuardsSignal
<1> QED
  BY <1>2, <1>3, <1>4, <1>5, <1>6 DEF markExhausted

\* No step crashes, and every step keeps signal and Once together.
LEMMA CrashNext ==
    ASSUME ShutdownInv, SignalInv, OnceGuardsSignal, CrashFree, [Next]_vars
    PROVE  OnceGuardsSignal' /\ CrashFree'
<1> USE DEF memberVars, signalVars, connVars, callVars, discVars, closeVars
<1>0. /\ TypeOK /\ AddOrder /\ DiscExhausts /\ todo \subseteq Relays
      /\ Disc \notin Relays /\ Disc \in Executors
      /\ ex \in [Executors -> ExStates]
  BY RelaysAssumption DEF ShutdownInv, CountInv, TypeOK, DiscType, SignalType, Executors, Disc
<1>a. ASSUME UNCHANGED <<allFailed, once, ex, crash>> PROVE OnceGuardsSignal' /\ CrashFree'
  BY <1>a DEF OnceGuardsSignal, CrashFree, NoCrash
<1>b. ASSUME NEW r \in Relays, NEW e \in BOOLEAN, addRelay(r, e), UNCHANGED crash,
             ex[Disc] = "idle"
      PROVE  OnceGuardsSignal' /\ CrashFree'
  BY <1>0, <1>b, OnceAdd DEF CrashFree, NoCrash
<1>1. CASE ExposeAdd
  <2>1. ex[Disc] = "idle"
    BY <1>0, <1>1 DEF ExposeAdd, AddOrder, DiscExhausts
  <2> QED
    BY <1>0, <1>1, <1>b, <2>1 DEF ExposeAdd
<1>2. CASE ExposeReturn
  BY <1>a, <1>2 DEF ExposeReturn
<1>3. ASSUME NEW r \in Relays, NEW k \in WorkerKinds, publishDone(r, k)
      PROVE  OnceGuardsSignal' /\ CrashFree'
  <2>1. sup[r] = "running"
    BY <1>3 DEF publishDone, ShutdownInv, SupervisorScope
  <2> QED
    BY <1>a, <1>3, <2>1, PublishSafe DEF publishDone
<1>4. ASSUME NEW r \in Relays, goRunSupervisor(r) PROVE OnceGuardsSignal' /\ CrashFree'
  BY <1>a, <1>4, PublishSafe DEF goRunSupervisor
<1>5. ASSUME NEW r \in Relays, markFailed(r) \/ markReady(r)
      PROVE  OnceGuardsSignal' /\ CrashFree'
  BY <1>a, <1>5 DEF markFailed, markReady
<1>6. ASSUME NEW r \in Relays, markFailedVerdict(r) PROVE OnceGuardsSignal' /\ CrashFree'
  <2>1. UNCHANGED <<crash, allFailed, once>>
    BY <1>6, PublishSafe DEF markFailedVerdict
  <2>2. UNCHANGED ex \/ ~DiscoveryEnabled
    BY <1>6 DEF markFailedVerdict
  <2> QED
    BY <1>a, <2>1, <2>2 DEF OnceGuardsSignal, CrashFree
<1>7. ASSUME NEW x \in Executors, markExhausted(x) PROVE OnceGuardsSignal' /\ CrashFree'
  <2>1. CASE ~DiscoveryEnabled
    BY <1>7, <2>1 DEF markExhausted, exOnce, exClose, exLeave, exNotify, exDrain,
                      OnceGuardsSignal, CrashFree
  <2>2. CASE DiscoveryEnabled
    <3>1. ex[x] # "idle"
      BY <1>7 DEF markExhausted, exOnce, exClose, exLeave, exNotify, exDrain
    <3>2. x = Disc
      BY <2>2, <3>1 DEF SignalInv, Executors
    <3> QED
      BY <1>0, <1>7, <2>2, <3>2, OnceExhausted DEF CrashFree, NoCrash
  <2> QED
    BY <2>1, <2>2
<1>8. CASE refreshDiscovery \/ adoptDiscoveredRelays \/ discoveryTick \/ discoveryKicked
           \/ discoveryExit
  BY <1>a, <1>8 DEF refreshDiscovery, adoptDiscoveredRelays, discoveryTick, discoveryKicked,
                    discoveryExit
<1>9. CASE discoveryAdd
  <2>1. CASE todo = {} \/ ctxDone
    BY <1>a, <1>9, <2>1 DEF discoveryAdd
  <2>2. CASE ~(todo = {} \/ ctxDone)
    <3>1. ex[Disc] = "idle"
      BY <1>0, <1>9 DEF discoveryAdd, DiscExhausts
    <3> QED
      BY <1>0, <1>9, <1>b, <2>2, <3>1 DEF discoveryAdd
  <2> QED
    BY <2>1, <2>2
<1>10. CASE discoveryVerdict
  <2>1. ex[Disc] = "idle" /\ UNCHANGED <<allFailed, once, crash>>
    BY <1>0, <1>10 DEF discoveryVerdict, DiscExhausts
  <2>2. ex'[Disc] \in {"idle", "once"}
    BY <1>0, <1>10, <2>1 DEF discoveryVerdict
  <2> QED
    BY <2>1, <2>2 DEF OnceGuardsSignal, CrashFree, NoCrash
<1>11. ASSUME NEW r \in Relays, NEW p \in BOOLEAN, NEW m \in BOOLEAN, markDatagramReady(r, p, m)
       PROVE  OnceGuardsSignal' /\ CrashFree'
  BY <1>a, <1>11 DEF markDatagramReady
<1>12. ASSUME NEW r \in Relays, NEW b \in BOOLEAN, NEW e \in BOOLEAN, runReturn(r, b, e)
       PROVE  OnceGuardsSignal' /\ CrashFree'
  BY <1>a, <1>12 DEF runReturn
<1>13. ASSUME NEW c \in Conns, OfferBegin(c) \/ offer(c) \/ offerAbandon(c)
       PROVE  OnceGuardsSignal' /\ CrashFree'
  BY <1>a, <1>13 DEF OfferBegin, offer, offerAbandon
<1>14. ASSUME NEW a \in Acceptors, acceptCall(a) \/ acceptStep(a)
       PROVE  OnceGuardsSignal' /\ CrashFree'
  <2>1. UNCHANGED acceptUnchanged
    BY <1>14 DEF acceptCall, acceptStep, acceptTerm, acceptFail, acceptArmChanged,
                 acceptArmExhausted, acceptSelect, acceptExTerm, acceptGotTerm, acceptGotFail
  <2> QED
    BY <1>a, <2>1 DEF acceptUnchanged
<1>15. ASSUME NEW w \in Waiters, waitCall(w) \/ waitSnap(w) \/ waitSelect(w) \/ waitCtx(w)
       PROVE  OnceGuardsSignal' /\ CrashFree'
  BY <1>a, <1>15 DEF waitCall, waitSnap, waitSelect, waitCtx, waitUnchanged
<1>16. CASE closeBegin \/ closeStep \/ parentWatch \/ parentCancel
  BY <1>a, <1>16 DEF closeBegin, closeStep, parentWatch, parentCancel, closeCancel, closeWaitSup,
                     closeWaitDisc, closeDrain, closeFinish, closeRest
<1>17. CASE UNCHANGED vars
  BY <1>a, <1>17 DEF vars
<1> QED
  BY <1>1, <1>2, <1>3, <1>4, <1>5, <1>6, <1>7, <1>8, <1>9, <1>10, <1>11, <1>12, <1>13, <1>14,
     <1>15, <1>16, <1>17 DEF Next, ProgramStep, EnvironmentStep, discoveryStep

\* Everything about an exposure that the safety theorems rest on.
SafetyInv == ShutdownInv /\ SignalInv /\ OnceGuardsSignal /\ CrashFree

\* It holds initially and every step preserves it.
LEMMA SafetyInvariant == (Init => SafetyInv) /\ (SafetyInv /\ [Next]_vars => SafetyInv')
<1>1. ASSUME Init PROVE SafetyInv
  BY <1>1, ShutdownInit DEF Init, SafetyInv, SignalInv, OnceGuardsSignal, CrashFree, NoCrash,
                            FreshOnce, Executors
<1>2. SafetyInv /\ [Next]_vars => SafetyInv'
  BY ShutdownNext, SignalNext, CrashNext DEF SafetyInv, ShutdownInv
<1> QED
  BY <1>1, <1>2

\* With discovery, no goroutine of an exposure dies of a channel or mutex
\* misuse: nothing is sent on the updates channel after Close closed it, the
\* all-failed signal is not closed twice, and failedOnce is not replaced under a
\* running Do.  (Without discovery the last part is false: ExposureStartupCrash
\* shows the counterexample.)
THEOREM NoCrashWithDiscovery == Spec => [](DiscoveryEnabled => NoCrash)
<1>1. SafetyInv => (DiscoveryEnabled => NoCrash)
  BY DEF SafetyInv, CrashFree
<1> QED
  BY <1>1, SafetyInvariant, PTL DEF Spec

\* With and without discovery, publishUpdate never sends on the updates channel
\* that Close has closed.
THEOREM NoSendAfterClose == Spec => [](crash # "send on closed channel")
<1>1. SafetyInv => crash # "send on closed channel"
  BY DEF SafetyInv, CrashFree
<1> QED
  BY <1>1, SafetyInvariant, PTL DEF Spec

----------------------------------------------------------------------------
(* Candidates.                                                             *)

\* The candidates that the current refresh has dealt with.
Tried == IF disc = "adding" THEN cands \ todo ELSE cands

\* From the selection to the end of the refresh, a candidate that was dealt with
\* is a member, or there was no room for it.
CandidatesTaken ==
    disc \in {"adding", "verdict", "exhausting"} /\ ~Closed =>
        \A r \in Tried : r \in Members \/ discoveredCount >= MaxDiscovered

\* A candidate that addRelay has been called for is a member or beyond the cap.
LEMMA CandidateAdded ==
    ASSUME TypeOK, CountsMatch, NEW r \in Relays, addRelay(r, FALSE), ~Closed
    PROVE  /\ r \in Members' \/ discoveredCount' >= MaxDiscovered
           /\ Members \subseteq Members'
           /\ discoveredCount >= MaxDiscovered => discoveredCount' >= MaxDiscovered
<1>0. /\ statuses \in [Relays -> {"absent", "connecting", "ready", "failed"}]
      /\ rejectedRelays \subseteq Members /\ discoveredCount \in Nat
  BY DEF TypeOK, MemberType, CountsMatch, Members, FailedSet
<1>1. CASE AddRefused(r, FALSE)
  <2>1. UNCHANGED <<statuses, discoveredCount>>
    BY <1>1 DEF addRelay, memberVars
  <2>2. r \in Members \/ discoveredCount >= MaxDiscovered
    BY <1>0, <1>1 DEF AddRefused
  <2> QED
    BY <2>1, <2>2 DEF Members
<1>2. CASE ~AddRefused(r, FALSE)
  <2>1. statuses' = [statuses EXCEPT ![r] = "connecting"] /\ discoveredCount' = discoveredCount + 1
    BY <1>2 DEF addRelay, discoveredAfter
  <2>2. r \in Members' /\ Members \subseteq Members'
    BY <1>0, <2>1 DEF Members
  <2> QED
    BY <1>0, <2>1, <2>2, BoundsAssumption
<1> QED
  BY <1>1, <1>2

\* Every step keeps the candidates of a refresh accounted for.
LEMMA CandidatesNext ==
    ASSUME CountInv, CandidatesTaken, [Next]_vars
    PROVE  CandidatesTaken'
<1> USE DEF memberVars, signalVars, connVars, callVars, discVars, closeVars
<1>0. /\ TypeOK /\ CountsMatch /\ AddOrder /\ DiscExhausts
      /\ todo \subseteq Relays /\ cands \subseteq Relays /\ disc \in DiscStates
      /\ statuses \in [Relays -> {"absent", "connecting", "ready", "failed"}]
  BY DEF CountInv, TypeOK, DiscType, MemberType
<1>a. ASSUME UNCHANGED <<discoveredCount, disc, todo, cands>>, Members \subseteq Members',
             Closed => Closed'
      PROVE  CandidatesTaken'
  BY <1>a DEF CandidatesTaken, Tried
<1>b. ASSUME UNCHANGED <<statuses, discoveredCount, disc, todo, cands, closing, ctxDone>>
      PROVE  CandidatesTaken'
  BY <1>b DEF CandidatesTaken, Tried, Members, Closed
<1>c. ASSUME disc' \notin {"adding", "verdict", "exhausting"} PROVE CandidatesTaken'
  BY <1>c DEF CandidatesTaken
<1>1. CASE ExposeAdd \/ ExposeReturn
  BY <1>0, <1>1, <1>c DEF ExposeAdd, ExposeReturn, AddOrder
<1>2. ASSUME NEW r \in Relays, NEW k \in WorkerKinds, publishDone(r, k) PROVE CandidatesTaken'
  BY <1>b, <1>2 DEF publishDone
<1>3. ASSUME NEW r \in Relays, goRunSupervisor(r) \/ markFailedVerdict(r) PROVE CandidatesTaken'
  BY <1>b, <1>3 DEF goRunSupervisor, markFailedVerdict
<1>4. ASSUME NEW r \in Relays, markFailed(r) PROVE CandidatesTaken'
  <2>1. Members \subseteq Members'
    BY <1>0, <1>4 DEF markFailed, Members
  <2> QED
    BY <1>a, <1>4, <2>1 DEF markFailed, Closed
<1>5. ASSUME NEW r \in Relays, markReady(r) PROVE CandidatesTaken'
  BY <1>0, <1>a, <1>5, ReadyKeepsSets DEF markReady, Closed
<1>6. ASSUME NEW x \in Executors, markExhausted(x) PROVE CandidatesTaken'
  <2>1. UNCHANGED <<statuses, discoveredCount, todo, cands, closing, ctxDone>>
    BY <1>6 DEF markExhausted
  <2>2. UNCHANGED disc \/ disc' = "idle"
    BY <1>6 DEF markExhausted, exOnce, exClose, exLeave, exNotify, exDrain
  <2> QED
    BY <1>b, <1>c, <2>1, <2>2
<1>7. CASE refreshDiscovery \/ discoveryTick \/ discoveryKicked \/ discoveryExit
  BY <1>c, <1>7 DEF refreshDiscovery, discoveryTick, discoveryKicked, discoveryExit
<1>8. CASE adoptDiscoveredRelays
  <2>1. Members' = Members /\ cands' = cands /\ disc' = "adding"
        /\ todo' = cands \ (Members \cup rejectedRelays)
    BY <1>8 DEF adoptDiscoveredRelays, Members
  <2>2. rejectedRelays \subseteq Members
    BY <1>0 DEF CountsMatch, FailedSet, Members
  <2> QED
    BY <2>1, <2>2 DEF CandidatesTaken, Tried
<1>9. CASE discoveryAdd
  <2>0. disc = "adding" /\ UNCHANGED <<cands, closing, ctxDone>>
    BY <1>9 DEF discoveryAdd
  <2>1. CASE Closed
    BY <2>0, <2>1 DEF CandidatesTaken, Closed
  <2>2. CASE ~Closed /\ todo = {}
    <3>1. disc' = "verdict" /\ UNCHANGED <<statuses, discoveredCount>>
      BY <1>9, <2>2 DEF discoveryAdd
    <3> QED
      BY <2>0, <2>2, <3>1 DEF CandidatesTaken, Tried, Members
  <2>3. CASE ~Closed /\ todo # {}
    <3>1. PICK r \in todo : addRelay(r, FALSE) /\ todo' = todo \ {r} /\ disc' = disc
      BY <1>9, <2>3 DEF discoveryAdd, Closed
    <3>2. /\ r \in Members' \/ discoveredCount' >= MaxDiscovered
          /\ Members \subseteq Members'
          /\ discoveredCount >= MaxDiscovered => discoveredCount' >= MaxDiscovered
      BY <1>0, <2>3, <3>1, CandidateAdded
    <3> QED
      BY <2>0, <2>3, <3>1, <3>2 DEF CandidatesTaken, Tried
  <2> QED
    BY <2>1, <2>2, <2>3
<1>10. CASE discoveryVerdict
  <2>1. disc = "verdict" /\ UNCHANGED <<statuses, discoveredCount, closing, ctxDone>>
        /\ (disc' = "idle" \/ (disc' = "exhausting" /\ cands' = cands))
    BY <1>10 DEF discoveryVerdict
  <2> QED
    BY <1>c, <2>1 DEF CandidatesTaken, Tried, Members, Closed
<1>11. ASSUME NEW r \in Relays, NEW p \in BOOLEAN, NEW m \in BOOLEAN, markDatagramReady(r, p, m)
       PROVE  CandidatesTaken'
  BY <1>b, <1>11 DEF markDatagramReady
<1>12. ASSUME NEW r \in Relays, NEW b \in BOOLEAN, NEW e \in BOOLEAN, runReturn(r, b, e)
       PROVE  CandidatesTaken'
  BY <1>b, <1>12 DEF runReturn
<1>13. ASSUME NEW c \in Conns, OfferBegin(c) \/ offer(c) \/ offerAbandon(c) PROVE CandidatesTaken'
  BY <1>b, <1>13 DEF OfferBegin, offer, offerAbandon
<1>14. ASSUME NEW a \in Acceptors, acceptCall(a) \/ acceptStep(a) PROVE CandidatesTaken'
  <2>1. UNCHANGED acceptUnchanged
    BY <1>14 DEF acceptCall, acceptStep, acceptTerm, acceptFail, acceptArmChanged,
                 acceptArmExhausted, acceptSelect, acceptExTerm, acceptGotTerm, acceptGotFail
  <2> QED
    BY <1>b, <2>1 DEF acceptUnchanged
<1>15. ASSUME NEW w \in Waiters, waitCall(w) \/ waitSnap(w) \/ waitSelect(w) \/ waitCtx(w)
       PROVE  CandidatesTaken'
  BY <1>b, <1>15 DEF waitCall, waitSnap, waitSelect, waitCtx, waitUnchanged
<1>16. CASE closeBegin \/ closeStep \/ parentWatch \/ parentCancel
  <2>1. UNCHANGED <<statuses, discoveredCount, disc, todo, cands>> /\ (Closed => Closed')
    BY <1>16 DEF closeBegin, closeStep, parentWatch, parentCancel, closeCancel, closeWaitSup,
                 closeWaitDisc, closeDrain, closeFinish, closeRest, Closed
  <2> QED
    BY <1>a, <2>1 DEF Members
<1>17. CASE UNCHANGED vars
  BY <1>b, <1>17 DEF vars
<1> QED
  BY <1>1, <1>2, <1>3, <1>4, <1>5, <1>6, <1>7, <1>8, <1>9, <1>10, <1>11, <1>12, <1>13, <1>14,
     <1>15, <1>16, <1>17 DEF Next, ProgramStep, EnvironmentStep, discoveryStep

\* refreshDiscovery declares a running exposure exhausted only after every
\* candidate it knows of has been adopted, or refused by the cap, whatever
\* relays fail or join while it is at it.
THEOREM CandidatesCorrect == Spec => []NoUsableCandidateLeft
<1>1. Init => CandidatesTaken
  BY DEF Init, CandidatesTaken
<1>2. CountInv /\ CandidatesTaken /\ [Next]_vars => CountInv' /\ CandidatesTaken'
  BY CountNext, CandidatesNext
<1>3. CandidatesTaken => NoUsableCandidateLeft
  BY DEF CandidatesTaken, NoUsableCandidateLeft, Tried
<1> QED
  BY <1>1, <1>2, <1>3, CountInit, PTL DEF Spec

----------------------------------------------------------------------------
(* Wake-ups.                                                               *)

\* Somebody who has closed the all-failed signal has yet to notify.
WakeupComing == \E x \in Executors : ex[x] \in {"leave", "notify"}

wakeVars == <<statuses, udpAddr, relayCount, failedCount, allFailed, ex, changed, acc, exh, wait>>

\* After notifyStateChangedLocked nobody sleeps on a silent channel.
LEMMA NotifyWakes ==
    ASSUME TypeOK, notifyStateChangedLocked, UNCHANGED <<acc, wait>>
    PROVE  NoLostWakeup'
<1>1. \A a \in Acceptors : acc[a] = "select" => changed'[a] = TRUE
  BY DEF notifyStateChangedLocked, Armed, Callers
<1>2. \A w \in Waiters : wait[w] = "select" => changed'[w] = TRUE
  BY DEF notifyStateChangedLocked, Armed, Callers
<1> QED
  BY <1>1, <1>2 DEF NoLostWakeup

\* The signal is not closed afresh and no wake-up is withdrawn: sleepers stay
\* as justified as they were.
LEMMA SleepersSame ==
    ASSUME NoLostWakeup, UNCHANGED <<statuses, udpAddr, relayCount, failedCount, allFailed,
                                     changed, acc, exh, wait>>,
           WakeupComing => WakeupComing'
    PROVE  NoLostWakeup'
<1>1. exhausted' = exhausted /\ \A w \in Waiters : ReadyFor(w)' = ReadyFor(w)
  BY DEF exhausted, ReadyFor
<1> QED
  BY <1>1 DEF NoLostWakeup, WakeupComing

\* Every step that makes a sleeper's reason to sleep disappear wakes it.
LEMMA WakeupNext ==
    ASSUME TypeOK, DiscExhausts, SupervisorScope, NoLostWakeup, [Next]_vars
    PROVE  NoLostWakeup'
<1> USE DEF memberVars, signalVars, connVars, callVars, discVars, closeVars
<1>0. /\ ex \in [Executors -> ExStates] /\ Disc \in Executors /\ Relays \subseteq Executors
      /\ todo \subseteq Relays /\ Acceptors \cap Waiters = {} /\ Callers = Acceptors \cup Waiters
      /\ changed \in [Callers -> BOOLEAN] /\ exh \in [Acceptors -> BOOLEAN]
      /\ DOMAIN acc = Acceptors /\ DOMAIN wait = Waiters
  BY CallersAssumption DEF TypeOK, SignalType, CallType, DiscType, Executors, Callers
<1>a. ASSUME UNCHANGED wakeVars PROVE NoLostWakeup'
  BY <1>a, SleepersSame DEF wakeVars, WakeupComing
\* An executor moves on, but not away from a wake-up it owes.
<1>b. ASSUME NEW x \in Executors, NEW p, ex' = [ex EXCEPT ![x] = p],
             ex[x] \notin {"leave", "notify"} \/ p \in {"leave", "notify"},
             UNCHANGED <<statuses, udpAddr, relayCount, failedCount, allFailed, changed, acc, exh,
                         wait>>
      PROVE  NoLostWakeup'
  <2>1. WakeupComing => WakeupComing'
    BY <1>0, <1>b DEF WakeupComing
  <2> QED
    BY <1>b, <2>1, SleepersSame
<1>c. ASSUME NEW r \in Relays, NEW e \in BOOLEAN, addRelay(r, e), UNCHANGED <<acc, exh, wait>>
      PROVE  NoLostWakeup'
  BY <1>a, <1>c, NotifyWakes DEF addRelay, wakeVars
<1>1. CASE ExposeAdd
  BY <1>0, <1>1, <1>c DEF ExposeAdd
<1>2. CASE ExposeReturn
  BY <1>a, <1>2 DEF ExposeReturn, wakeVars
<1>3. ASSUME NEW r \in Relays, NEW k \in WorkerKinds, publishDone(r, k) PROVE NoLostWakeup'
  BY <1>a, <1>3 DEF publishDone, wakeVars
<1>4. ASSUME NEW r \in Relays, goRunSupervisor(r) PROVE NoLostWakeup'
  BY <1>a, <1>4 DEF goRunSupervisor, wakeVars
<1>5. ASSUME NEW r \in Relays, markFailed(r) PROVE NoLostWakeup'
  <2>1. CASE Closed \/ statuses[r] \in {"absent", "failed"}
    BY <1>a, <1>5, <2>1 DEF markFailed, wakeVars
  <2>2. CASE ~(Closed \/ statuses[r] \in {"absent", "failed"})
    BY <1>5, <2>2, NotifyWakes DEF markFailed
  <2> QED
    BY <2>1, <2>2
<1>6. ASSUME NEW r \in Relays, markFailedVerdict(r) PROVE NoLostWakeup'
  <2>1. ex[r] = "idle"
    BY <1>6 DEF markFailedVerdict, SupervisorScope
  <2> QED
    BY <1>0, <1>a, <1>b, <1>6, <2>1 DEF markFailedVerdict, wakeVars
<1>7. ASSUME NEW r \in Relays, markReady(r) PROVE NoLostWakeup'
  BY <1>7, NotifyWakes DEF markReady
<1>8. ASSUME NEW x \in Executors, markExhausted(x) PROVE NoLostWakeup'
  <2>0. UNCHANGED <<statuses, udpAddr, relayCount, failedCount, acc, exh, wait>>
    BY <1>8 DEF markExhausted
  <2>1. CASE exOnce(x)
    BY <1>b, <2>0, <2>1 DEF exOnce
  <2>2. CASE exClose(x)
    <3>1. CASE allFailed
      BY <1>a, <2>0, <2>2, <3>1 DEF exClose, wakeVars
    <3>2. CASE ~allFailed
      <4>1. ex'[x] = "leave" /\ UNCHANGED changed
        BY <1>0, <2>2, <3>2 DEF exClose
      <4>2. WakeupComing' /\ \A w \in Waiters : ReadyFor(w)' = ReadyFor(w)
        BY <2>0, <4>1 DEF WakeupComing, ReadyFor
      <4> QED
        BY <2>0, <4>1, <4>2 DEF NoLostWakeup, WakeupComing
    <3> QED
      BY <3>1, <3>2
  <2>3. CASE exLeave(x)
    BY <1>a, <1>b, <2>0, <2>3 DEF exLeave, wakeVars
  <2>4. CASE exNotify(x)
    BY <2>0, <2>4, NotifyWakes DEF exNotify
  <2>5. CASE exDrain(x)
    BY <1>a, <1>b, <2>0, <2>5 DEF exDrain, wakeVars
  <2> QED
    BY <1>8, <2>1, <2>2, <2>3, <2>4, <2>5 DEF markExhausted
<1>9. CASE refreshDiscovery \/ adoptDiscoveredRelays \/ discoveryTick \/ discoveryKicked
           \/ discoveryExit
  BY <1>a, <1>9 DEF refreshDiscovery, adoptDiscoveredRelays, discoveryTick, discoveryKicked,
                    discoveryExit, wakeVars
<1>10. CASE discoveryAdd
  <2>1. CASE todo = {} \/ ctxDone
    BY <1>a, <1>10, <2>1 DEF discoveryAdd, wakeVars
  <2>2. CASE ~(todo = {} \/ ctxDone)
    BY <1>0, <1>10, <1>c, <2>2 DEF discoveryAdd
  <2> QED
    BY <2>1, <2>2
<1>11. CASE discoveryVerdict
  <2>1. ex[Disc] = "idle"
    BY <1>11 DEF discoveryVerdict, DiscExhausts
  <2> QED
    BY <1>0, <1>a, <1>b, <1>11, <2>1 DEF discoveryVerdict, wakeVars
<1>12. ASSUME NEW r \in Relays, NEW p \in BOOLEAN, NEW m \in BOOLEAN, markDatagramReady(r, p, m)
       PROVE  NoLostWakeup'
  BY <1>12, NotifyWakes DEF markDatagramReady
<1>13. ASSUME NEW r \in Relays, NEW b \in BOOLEAN, NEW e \in BOOLEAN, runReturn(r, b, e)
       PROVE  NoLostWakeup'
  BY <1>a, <1>13 DEF runReturn, wakeVars
<1>14. ASSUME NEW c \in Conns, OfferBegin(c) \/ offer(c) \/ offerAbandon(c) PROVE NoLostWakeup'
  BY <1>a, <1>14 DEF OfferBegin, offer, offerAbandon, wakeVars
<1>15. ASSUME NEW a \in Acceptors, acceptCall(a) \/ acceptStep(a) PROVE NoLostWakeup'
  <2>1. UNCHANGED acceptUnchanged
    BY <1>15 DEF acceptCall, acceptStep, acceptTerm, acceptFail, acceptArmChanged,
                 acceptArmExhausted, acceptSelect, acceptExTerm, acceptGotTerm, acceptGotFail
  <2>2. exhausted' = exhausted /\ UNCHANGED <<ex, wait>>
        /\ \A w \in Waiters : ReadyFor(w)' = ReadyFor(w)
    BY <2>1 DEF acceptUnchanged, exhausted, ReadyFor
  <2>3. \A x \in Callers : x # a => changed'[x] = changed[x]
    BY <1>0, <1>15 DEF acceptCall, acceptStep, acceptTerm, acceptFail, acceptArmChanged,
                 acceptArmExhausted, acceptSelect, acceptExTerm, acceptGotTerm, acceptGotFail
  <2>4. \A b \in Acceptors : b # a => acc'[b] = acc[b] /\ exh'[b] = exh[b]
    BY <1>0, <1>15 DEF acceptCall, acceptStep, acceptTerm, acceptFail, acceptArmChanged,
                 acceptArmExhausted, acceptSelect, acceptExTerm, acceptGotTerm, acceptGotFail
  <2>5. acc'[a] = "select" => exh'[a] = exhausted
    BY <1>0, <1>15 DEF acceptCall, acceptStep, acceptTerm, acceptFail, acceptArmChanged,
                 acceptArmExhausted, acceptSelect, acceptExTerm, acceptGotTerm, acceptGotFail
  <2>6. \A w \in Waiters : w \in Callers /\ w # a
    BY <1>0
  <2> QED
    BY <1>0, <2>2, <2>3, <2>4, <2>5, <2>6 DEF NoLostWakeup
<1>16. ASSUME NEW w \in Waiters, waitCall(w) \/ waitSnap(w) \/ waitSelect(w) \/ waitCtx(w)
       PROVE  NoLostWakeup'
  <2>1. UNCHANGED waitUnchanged
    BY <1>16 DEF waitCall, waitSnap, waitSelect, waitCtx
  <2>2. exhausted' = exhausted /\ UNCHANGED <<ex, acc, exh>>
        /\ \A v \in Waiters : ReadyFor(v)' = ReadyFor(v)
    BY <2>1 DEF waitUnchanged, exhausted, ReadyFor
  <2>3. \A x \in Callers : x # w => changed'[x] = changed[x]
    BY <1>0, <1>16 DEF waitCall, waitSnap, waitSelect, waitCtx
  <2>4. \A v \in Waiters : v # w => wait'[v] = wait[v]
    BY <1>0, <1>16 DEF waitCall, waitSnap, waitSelect, waitCtx
  <2>5. wait'[w] = "select" => ReadyFor(w) = {} /\ ~exhausted
    BY <1>0, <1>16 DEF waitCall, waitSnap, waitSelect, waitCtx
  <2>6. \A a \in Acceptors : a \in Callers /\ a # w
    BY <1>0
  <2> QED
    BY <1>0, <2>2, <2>3, <2>4, <2>5, <2>6 DEF NoLostWakeup
<1>17. CASE closeBegin \/ closeStep \/ parentWatch \/ parentCancel
  BY <1>a, <1>17 DEF closeBegin, closeStep, parentWatch, parentCancel, closeCancel, closeWaitSup,
                     closeWaitDisc, closeDrain, closeFinish, closeRest, wakeVars
<1>18. CASE UNCHANGED vars
  BY <1>a, <1>18 DEF vars, wakeVars
<1> QED
  BY <1>1, <1>2, <1>3, <1>4, <1>5, <1>6, <1>7, <1>8, <1>9, <1>10, <1>11, <1>12, <1>13, <1>14,
     <1>15, <1>16, <1>17, <1>18 DEF Next, ProgramStep, EnvironmentStep, discoveryStep

\* No caller of Accept, WaitReady or WaitDatagramReady sleeps through the event
\* it waits for, for any number of callers and relays: a readiness, an adoption,
\* a failure or an exhaustion that happens between its snapshot and its select
\* closes a channel it holds, or the goroutine that will do so is on its way.
THEOREM WakeupsCorrect == Spec => []NoLostWakeup
<1>1. Init => NoLostWakeup
  BY DEF Init, NoLostWakeup
<1>2. ShutdownInv /\ NoLostWakeup /\ [Next]_vars => ShutdownInv' /\ NoLostWakeup'
  BY ShutdownNext, WakeupNext DEF ShutdownInv, CountInv
<1> QED
  BY <1>1, <1>2, ShutdownInit, PTL DEF Spec

=============================================================================
