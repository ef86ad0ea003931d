------------------------- MODULE UpdateStreamProofs -------------------------
(***************************************************************************)
(* Proofs about the Updates() channel, for every number of relays: what a  *)
(* reader sees of one relay is in order, although publishers evict each    *)
(* other's notifications from a full buffer, and without UDP the buffer    *)
(* never is too small.                                                     *)
(***************************************************************************)
EXTENDS UpdateStream, FiniteSetTheorems, TLAPS

----------------------------------------------------------------------------
(* The inductive invariant.                                                *)

Has(q, p) == \E i \in 1..Len(q) : q[i] = p

\* UpdateOrder, for any contents of the channel.
Ordered(q) ==
    \A i, j \in 1..Len(q) :
        i < j /\ q[i][1] = q[j][1] => q[i][2] # "failed" /\ q[j][2] # "connecting"

\* Only the announcement of a backhaul is ever in the channel twice.
Distinct(q) ==
    \A i, j \in 1..Len(q) : q[i] = q[j] /\ q[i][2] # "udp_ready" => i = j

Busy(r, k) == pub[<<r, k>>] # "idle"
Seen(r, k) == Has(updates, <<r, k>>)

\* Where the life of a relay allows a notification to be on its way, or in the
\* channel: a state is not announced again while it is in the channel, except
\* that of the backhaul.
Placed(r, k) ==
    /\ k = "connecting" =>
          (Busy(r, k) => life[r] = "starting") /\ (Seen(r, k) => life[r] # "none")
    /\ k \in {"ready", "udp_ready"} =>
          (Busy(r, k) => life[r] = "running") /\ (Seen(r, k) => life[r] \notin {"none", "starting"})
    /\ k = "failed" =>
          (Busy(r, k) => life[r] = "failing") /\ (Seen(r, k) => life[r] \in {"failing", "done"})
    /\ k # "udp_ready" => ~(Busy(r, k) /\ Seen(r, k))
    /\ k = "ready" => (Busy(r, k) \/ Seen(r, k) => ready[r])
    /\ k = "udp_ready" /\ ~udpEnabled => ~Busy(r, k) /\ ~Seen(r, k)

StreamInv ==
    /\ StreamTypes
    /\ \A r \in Relays, k \in Kinds : Placed(r, k)
    /\ Ordered(updates) /\ Distinct(updates)

----------------------------------------------------------------------------
(* The channel.                                                            *)

\* A receive, by the reader or by an evicting publisher, takes the oldest.
LEMMA Taken ==
    ASSUME NEW q \in Seq(Publishers), q # <<>>
    PROVE  /\ Tail(q) \in Seq(Publishers) /\ Len(Tail(q)) = Len(q) - 1
           /\ \A p : Has(Tail(q), p) => Has(q, p)
           /\ Ordered(q) => Ordered(Tail(q))
           /\ Distinct(q) => Distinct(Tail(q))
<1>1. Len(q) \in Nat \ {0} /\ Tail(q) \in Seq(Publishers) /\ Len(Tail(q)) = Len(q) - 1
  OBVIOUS
<1>2. \A i \in 1..Len(Tail(q)) : Tail(q)[i] = q[i + 1] /\ i + 1 \in 1..Len(q)
  BY <1>1
<1>3. \A p : Has(Tail(q), p) => Has(q, p)
  BY <1>2 DEF Has
<1>4. ASSUME Ordered(q), NEW i \in 1..Len(Tail(q)), NEW j \in 1..Len(Tail(q)), i < j,
             Tail(q)[i][1] = Tail(q)[j][1]
      PROVE  Tail(q)[i][2] # "failed" /\ Tail(q)[j][2] # "connecting"
  <2>1. Tail(q)[i] = q[i + 1] /\ Tail(q)[j] = q[j + 1] /\ i + 1 \in 1..Len(q) /\ j + 1 \in 1..Len(q) /\ i + 1 < j + 1
    BY <1>2, <1>4
  <2> QED
    BY <1>4, <2>1 DEF Ordered
<1>5. ASSUME Distinct(q), NEW i \in 1..Len(Tail(q)), NEW j \in 1..Len(Tail(q)),
             Tail(q)[i] = Tail(q)[j], Tail(q)[i][2] # "udp_ready"
      PROVE  i = j
  <2>1. Tail(q)[i] = q[i + 1] /\ Tail(q)[j] = q[j + 1] /\ i + 1 \in 1..Len(q) /\ j + 1 \in 1..Len(q)
    BY <1>2, <1>5
  <2>2. i + 1 = j + 1
    BY <1>5, <2>1 DEF Distinct
  <2> QED
    BY <2>2
<1> QED
  BY <1>1, <1>3, <1>4, <1>5 DEF Ordered, Distinct

\* A send of p keeps the order if no older notification of p's relay forbids it.
LEMMA Sent ==
    ASSUME NEW q \in Seq(Publishers), NEW p \in Publishers
    PROVE  /\ Append(q, p) \in Seq(Publishers) /\ Len(Append(q, p)) = Len(q) + 1
           /\ \A x : Has(Append(q, p), x) <=> Has(q, x) \/ x = p
           /\ Ordered(q) /\ (\A x \in Publishers : Has(q, x) /\ x[1] = p[1] => x[2] # "failed" /\ p[2] # "connecting")
              => Ordered(Append(q, p))
           /\ Distinct(q) /\ (p[2] # "udp_ready" => ~Has(q, p)) => Distinct(Append(q, p))
<1> DEFINE a == Append(q, p)
<1>1. a \in Seq(Publishers) /\ Len(a) = Len(q) + 1 /\ Len(q) \in Nat /\ a[Len(q) + 1] = p
  OBVIOUS
<1>2. \A i \in 1..Len(q) : a[i] = q[i] /\ q[i] \in Publishers
  OBVIOUS
<1> HIDE DEF a
<1>3. \A i \in 1..Len(a) : i \in 1..Len(q) \/ i = Len(q) + 1
  BY <1>1
<1>4. \A x : Has(a, x) <=> Has(q, x) \/ x = p
  BY <1>1, <1>2, <1>3 DEF Has
<1>5. ASSUME Ordered(q),
             \A x \in Publishers : Has(q, x) /\ x[1] = p[1] => x[2] # "failed" /\ p[2] # "connecting",
             NEW i \in 1..Len(a), NEW j \in 1..Len(a), i < j, a[i][1] = a[j][1]
      PROVE  a[i][2] # "failed" /\ a[j][2] # "connecting"
  <2>1. i \in 1..Len(q) /\ a[i] = q[i] /\ q[i] \in Publishers /\ Has(q, q[i])
    BY <1>1, <1>2, <1>5 DEF Has
  <2>2. CASE j \in 1..Len(q)
    BY <1>2, <1>5, <2>1, <2>2 DEF Ordered
  <2>3. CASE j = Len(q) + 1
    BY <1>1, <1>5, <2>1, <2>3
  <2> QED
    BY <1>3, <2>2, <2>3
<1>6. ASSUME Distinct(q), p[2] # "udp_ready" => ~Has(q, p),
             NEW i \in 1..Len(a), NEW j \in 1..Len(a), a[i] = a[j], a[i][2] # "udp_ready"
      PROVE  i = j
  <2>1. CASE i \in 1..Len(q) /\ j \in 1..Len(q)
    BY <1>2, <1>6, <2>1 DEF Distinct
  <2>2. CASE i \in 1..Len(q) /\ j = Len(q) + 1
    BY <1>1, <1>2, <1>6, <2>2 DEF Has
  <2>3. CASE i = Len(q) + 1 /\ j \in 1..Len(q)
    BY <1>1, <1>2, <1>6, <2>3 DEF Has
  <2> QED
    BY <1>3, <2>1, <2>2, <2>3
<1> QED
  BY <1>1, <1>4, <1>5, <1>6 DEF a, Ordered, Distinct

\* A finite number of relays makes a finite capacity.
LEMMA CapIsNatural == UpdateCap \in Nat /\ IsFiniteSet(Relays) /\ Cardinality(Relays) \in Nat
<1>1. IsFiniteSet(Relays)
  BY StreamAssumption, FS_Union DEF Relays
<1>2. Cardinality(Relays) \in Nat
  BY <1>1, FS_CardinalityType
<1> QED
  BY <1>1, <1>2, StreamAssumption DEF UpdateCap

----------------------------------------------------------------------------
(* The steps.                                                              *)

LEMMA StreamInitially == Init => StreamInv
<1> SUFFICES ASSUME Init PROVE StreamInv
  OBVIOUS
<1>1. updates = <<>> /\ Len(updates) = 0 /\ \A p \in Publishers : pub[p] = "idle"
  BY DEF Init
<1>2. StreamTypes
  BY CapIsNatural DEF Init, StreamTypes
<1>3. ASSUME NEW r \in Relays, NEW k \in Kinds PROVE Placed(r, k)
  <2>1. ~Busy(r, k) /\ ~Seen(r, k)
    BY <1>1 DEF Busy, Seen, Has, Publishers
  <2> QED
    BY <2>1 DEF Placed
<1> QED
  BY <1>1, <1>2, <1>3 DEF StreamInv, Ordered, Distinct

\* The four moves of a publisher: its notification enters the channel or is
\* given up, or it stays busy while the channel keeps or loses its oldest.
LEMMA PublisherKept ==
    ASSUME StreamInv, NEW p \in Publishers, publishUpdate(p) PROVE StreamInv'
<1>1. PICK r \in Relays, k \in Kinds : p = <<r, k>>
  BY DEF Publishers
<1>2. /\ pub \in [Publishers -> {"idle", "send", "evict", "resend"}] /\ updates \in Seq(Publishers)
      /\ Len(updates) <= UpdateCap /\ Ordered(updates) /\ Distinct(updates) /\ StreamTypes
      /\ \A s \in Relays, l \in Kinds : Placed(s, l)
  BY DEF StreamInv, StreamTypes
<1>3. /\ pub[p] \in {"send", "evict", "resend"} /\ UNCHANGED <<life, ready, udpEnabled>>
      /\ pub' \in [Publishers -> {"idle", "send", "evict", "resend"}]
      /\ \A x \in Publishers \ {p} : pub'[x] = pub[x]
  BY <1>2 DEF publishUpdate, publishSend, publishEvict, publishResend
<1>4. Busy(r, k)
  BY <1>1, <1>3 DEF Busy
<1>5. ASSUME \A x \in Publishers : Has(updates', x) => Has(updates, x) \/ (x = p /\ pub'[p] = "idle"),
             NEW s \in Relays, NEW l \in Kinds
      PROVE  Placed(s, l)'
  <2>1. Placed(s, l) /\ <<s, l>> \in Publishers
    BY <1>2 DEF Publishers
  <2>2. CASE <<s, l>> = p
    <3>1. s = r /\ l = k /\ (Busy(s, l)' => ~Seen(s, l)' \/ Seen(s, l))
      BY <1>1, <1>5, <2>1, <2>2 DEF Busy, Seen
    <3> QED
      BY <1>3, <1>4, <2>1, <3>1 DEF Placed
  <2>3. CASE <<s, l>> # p
    <3>1. (Busy(s, l)' <=> Busy(s, l)) /\ (Seen(s, l)' => Seen(s, l))
      BY <1>3, <1>5, <2>1, <2>3 DEF Busy, Seen
    <3> QED
      BY <1>3, <2>1, <3>1 DEF Placed
  <2> QED
    BY <2>2, <2>3
<1>6. ASSUME updates' \in Seq(Publishers), Len(updates') <= UpdateCap PROVE StreamTypes'
  BY <1>2, <1>3, <1>6 DEF StreamTypes
<1>7. CASE updates' = Append(updates, p) /\ pub'[p] = "idle" /\ Len(updates) < UpdateCap
  <2>1. \A x \in Publishers : Has(updates', x) => Has(updates, x) \/ x = p
    BY <1>2, <1>7, Sent
  <2>2. ASSUME NEW x \in Publishers, Has(updates, x), x[1] = p[1]
        PROVE  x[2] # "failed" /\ p[2] # "connecting"
    <3>1. PICK l \in Kinds : x = <<r, l>>
      BY <1>1, <2>2 DEF Publishers
    <3>2. Placed(r, l) /\ Placed(r, k) /\ Seen(r, l)
      BY <1>2, <2>2, <3>1 DEF Seen
    <3>3. l # "failed" /\ k # "connecting"
      BY <1>4, <3>2 DEF Placed, Kinds
    <3> QED
      BY <1>1, <3>1, <3>3
  <2>3. p[2] # "udp_ready" => ~Has(updates, p)
    BY <1>1, <1>2, <1>4 DEF Placed, Seen
  <2>4. Ordered(updates') /\ Distinct(updates')
    BY <1>2, <1>7, <2>2, <2>3, Sent
  <2>5. updates' \in Seq(Publishers) /\ Len(updates') <= UpdateCap
    BY <1>2, <1>7, Sent, CapIsNatural
  <2> QED
    BY <1>5, <1>6, <1>7, <2>1, <2>4, <2>5 DEF StreamInv
<1>8. CASE updates # <<>> /\ updates' = Tail(updates)
  <2>1. \A x \in Publishers : Has(updates', x) => Has(updates, x)
    BY <1>2, <1>8, Taken
  <2>2. Ordered(updates') /\ Distinct(updates') /\ updates' \in Seq(Publishers) /\ Len(updates') = Len(updates) - 1
    BY <1>2, <1>8, Taken
  <2>3. Len(updates') <= UpdateCap
    BY <1>2, <2>2, CapIsNatural
  <2> QED
    BY <1>5, <1>6, <2>1, <2>2, <2>3 DEF StreamInv
<1>9. CASE updates' = updates
  <2>1. \A x \in Publishers : Has(updates', x) => Has(updates, x)
    BY <1>9
  <2> QED
    BY <1>2, <1>5, <1>6, <1>9, <2>1 DEF StreamInv
<1>10. \/ updates' = Append(updates, p) /\ pub'[p] = "idle" /\ Len(updates) < UpdateCap
       \/ updates # <<>> /\ updates' = Tail(updates)
       \/ updates' = updates
  BY <1>2 DEF publishUpdate, publishSend, publishEvict, publishResend
<1> QED
  BY <1>7, <1>8, <1>9, <1>10

\* The steps of a relay's life leave the channel alone, and start a publisher
\* of that relay or none.
LEMMA RelayKept ==
    ASSUME StreamInv, NEW r \in Relays,
           \/ addRelay(r) \/ goRunSupervisor(r) \/ markReady(r)
           \/ markDatagramReady(r) \/ markFailed(r) \/ runSupervisorDone(r)
    PROVE  StreamInv'
<1>1. /\ pub \in [Publishers -> {"idle", "send", "evict", "resend"}]
      /\ life \in [Relays -> {"none", "starting", "running", "failing", "done"}]
      /\ ready \in [Relays -> BOOLEAN]
      /\ Ordered(updates) /\ Distinct(updates) /\ StreamTypes
      /\ \A s \in Relays, l \in Kinds : Placed(s, l)
  BY DEF StreamInv, StreamTypes
<1>2. UNCHANGED <<updates, udpEnabled>>
  BY DEF addRelay, goRunSupervisor, markReady, markDatagramReady, markFailed, runSupervisorDone
<1>3. \A s \in Relays, l \in Kinds : (Seen(s, l)' <=> Seen(s, l)) /\ <<s, l>> \in Publishers
  BY <1>2 DEF Seen, Publishers
\* The relay's life alone moves on.
<1>4. CASE goRunSupervisor(r) \/ runSupervisorDone(r)
  <2>1. /\ UNCHANGED <<pub, ready>> /\ life' \in [Relays -> {"none", "starting", "running", "failing", "done"}]
        /\ \A s \in Relays \ {r} : life'[s] = life[s]
    BY <1>1, <1>4 DEF goRunSupervisor, runSupervisorDone
  <2>2. \/ life[r] = "starting" /\ life'[r] = "running" /\ ~Busy(r, "connecting")
        \/ life[r] = "failing" /\ life'[r] = "done" /\ ~Busy(r, "failed")
    BY <1>1, <1>4 DEF goRunSupervisor, runSupervisorDone, Idle, Busy
  <2>3. ASSUME NEW s \in Relays, NEW l \in Kinds PROVE Placed(s, l)'
    <3>1. Placed(s, l) /\ (Busy(s, l)' <=> Busy(s, l)) /\ (Seen(s, l)' <=> Seen(s, l))
      BY <1>1, <1>3, <2>1 DEF Busy
    <3>2. CASE s = r
      BY <1>2, <2>1, <2>2, <3>1, <3>2 DEF Placed
    <3>3. CASE s # r
      BY <1>2, <2>1, <3>1, <3>3 DEF Placed
    <3> QED
      BY <3>2, <3>3
  <2>4. StreamTypes'
    BY <1>1, <1>2, <2>1 DEF StreamTypes
  <2> QED
    BY <1>1, <1>2, <2>3, <2>4 DEF StreamInv
\* A publisher of the relay starts.
<1>5. ASSUME NEW k \in Kinds, Start(<<r, k>>), StreamTypes',
             \A s \in Relays \ {r} : life'[s] = life[s] /\ ready'[s] = ready[s],
             Placed(r, k)',
             \A l \in Kinds \ {k} : (Busy(r, l)' <=> Busy(r, l)) => Placed(r, l)'
      PROVE  StreamInv'
  <2>1. <<r, k>> \in Publishers /\ \A x \in Publishers \ {<<r, k>>} : pub'[x] = pub[x]
    BY <1>1, <1>5 DEF Start, Publishers
  <2>2. ASSUME NEW s \in Relays, NEW l \in Kinds PROVE Placed(s, l)'
    <3>1. CASE s = r /\ l = k
      BY <1>5, <3>1
    <3>2. CASE s = r /\ l # k
      <4>1. Busy(r, l)' <=> Busy(r, l)
        BY <1>3, <2>1, <3>2 DEF Busy
      <4> QED
        BY <1>5, <3>2, <4>1
    <3>3. CASE s # r
      <4>1. Placed(s, l) /\ (Busy(s, l)' <=> Busy(s, l)) /\ (Seen(s, l)' <=> Seen(s, l))
        BY <1>1, <1>3, <2>1, <3>3 DEF Busy
      <4> QED
        BY <1>2, <1>5, <3>3, <4>1 DEF Placed
    <3> QED
      BY <3>1, <3>2, <3>3
  <2> QED
    BY <1>1, <1>2, <1>5, <2>2 DEF StreamInv
<1>6. ASSUME NEW k \in Kinds, Start(<<r, k>>)
      PROVE  pub' \in [Publishers -> {"idle", "send", "evict", "resend"}]
  BY <1>1, <1>6 DEF Start
<1>7. CASE addRelay(r)
  <2>1. /\ life[r] = "none" /\ life'[r] = "starting" /\ Start(<<r, "connecting">>) /\ UNCHANGED ready
        /\ \A s \in Relays \ {r} : life'[s] = life[s]
        /\ life' \in [Relays -> {"none", "starting", "running", "failing", "done"}]
    BY <1>1, <1>7 DEF addRelay
  <2>2. "connecting" \in Kinds
    BY DEF Kinds
  <2>3. StreamTypes'
    BY <1>1, <1>2, <1>6, <2>1, <2>2 DEF StreamTypes
  <2>4. Placed(r, "connecting")'
    BY <1>1, <1>3, <2>1, <2>2 DEF Placed
  <2>5. ASSUME NEW l \in Kinds \ {"connecting"}, Busy(r, l)' <=> Busy(r, l) PROVE Placed(r, l)'
    <3>1. Placed(r, l) /\ (Seen(r, l)' <=> Seen(r, l))
      BY <1>1, <1>3, <2>5
    <3>2. l \in {"ready", "udp_ready", "failed"}
      BY <2>5 DEF Kinds
    <3> QED
      BY <2>1, <2>5, <3>1, <3>2 DEF Placed
  <2> QED
    BY <1>5, <2>1, <2>2, <2>3, <2>4, <2>5
<1>8. CASE markReady(r)
  <2>1. /\ life[r] = "running" /\ ~ready[r] /\ Start(<<r, "ready">>) /\ UNCHANGED life
        /\ \A s \in Relays \ {r} : ready'[s] = ready[s]
        /\ ready' \in [Relays -> BOOLEAN] /\ ready'[r]
    BY <1>1, <1>8 DEF markReady
  <2>2. "ready" \in Kinds
    BY DEF Kinds
  <2>3. StreamTypes'
    BY <1>1, <1>2, <1>6, <2>1, <2>2 DEF StreamTypes
  <2>4. Placed(r, "ready")'
    BY <1>1, <1>3, <2>1, <2>2 DEF Placed
  <2>5. ASSUME NEW l \in Kinds \ {"ready"}, Busy(r, l)' <=> Busy(r, l) PROVE Placed(r, l)'
    BY <1>1, <1>2, <1>3, <2>1, <2>5 DEF Placed
  <2> QED
    BY <1>5, <2>1, <2>2, <2>3, <2>4, <2>5
<1>9. CASE markDatagramReady(r)
  <2>1. life[r] = "running" /\ udpEnabled /\ Start(<<r, "udp_ready">>) /\ UNCHANGED <<life, ready>>
    BY <1>9 DEF markDatagramReady
  <2>2. "udp_ready" \in Kinds
    BY DEF Kinds
  <2>3. StreamTypes'
    BY <1>1, <1>2, <1>6, <2>1, <2>2 DEF StreamTypes
  <2>4. Placed(r, "udp_ready")'
    BY <1>1, <1>2, <1>3, <2>1, <2>2 DEF Placed
  <2>5. ASSUME NEW l \in Kinds \ {"udp_ready"}, Busy(r, l)' <=> Busy(r, l) PROVE Placed(r, l)'
    BY <1>1, <1>2, <1>3, <2>1, <2>5 DEF Placed
  <2> QED
    BY <1>5, <2>1, <2>2, <2>3, <2>4, <2>5
<1>10. CASE markFailed(r)
  <2>1. /\ life[r] = "running" /\ life'[r] = "failing" /\ Start(<<r, "failed">>) /\ UNCHANGED ready
        /\ ~Busy(r, "ready") /\ ~Busy(r, "udp_ready")
        /\ \A s \in Relays \ {r} : life'[s] = life[s]
        /\ life' \in [Relays -> {"none", "starting", "running", "failing", "done"}]
    BY <1>1, <1>10 DEF markFailed, Idle, Busy
  <2>2. "failed" \in Kinds
    BY DEF Kinds
  <2>3. StreamTypes'
    BY <1>1, <1>2, <1>6, <2>1, <2>2 DEF StreamTypes
  <2>4. Placed(r, "failed")'
    BY <1>1, <1>3, <2>1, <2>2 DEF Placed
  <2>5. ASSUME NEW l \in Kinds \ {"failed"}, Busy(r, l)' <=> Busy(r, l) PROVE Placed(r, l)'
    <3>1. Placed(r, l) /\ (Seen(r, l)' <=> Seen(r, l))
      BY <1>1, <1>3, <2>5
    <3>2. l \in {"connecting", "ready", "udp_ready"}
      BY <2>5 DEF Kinds
    <3>3. ~Busy(r, l)
      BY <2>1, <3>1, <3>2 DEF Placed
    <3> QED
      BY <1>2, <2>1, <2>5, <3>1, <3>2, <3>3 DEF Placed
  <2> QED
    BY <1>5, <2>1, <2>2, <2>3, <2>4, <2>5
<1> QED
  BY <1>4, <1>7, <1>8, <1>9, <1>10

LEMMA StreamKept == StreamInv /\ [Next]_vars => StreamInv'
<1> SUFFICES ASSUME StreamInv, [Next]_vars PROVE StreamInv'
  OBVIOUS
<1>1. ASSUME UNCHANGED <<pub, life, ready, udpEnabled>>,
             updates' \in Seq(Publishers), Len(updates') <= UpdateCap,
             Ordered(updates'), Distinct(updates'),
             \A x \in Publishers : Has(updates', x) => Has(updates, x)
      PROVE  StreamInv'
  <2>1. ASSUME NEW r \in Relays, NEW k \in Kinds PROVE Placed(r, k)'
    <3>1. Placed(r, k) /\ (Busy(r, k)' <=> Busy(r, k)) /\ (Seen(r, k)' => Seen(r, k))
      BY <1>1 DEF StreamInv, Busy, Seen, Publishers
    <3> QED
      BY <1>1, <3>1 DEF Placed
  <2> QED
    BY <1>1, <2>1 DEF StreamInv, StreamTypes
<1>2. CASE UNCHANGED vars
  BY <1>1, <1>2 DEF vars, StreamInv, StreamTypes
<1>3. CASE Consume
  <2>1. updates # <<>> /\ updates' = Tail(updates) /\ UNCHANGED <<pub, life, ready, udpEnabled>>
    BY <1>3 DEF Consume
  <2>2. updates \in Seq(Publishers) /\ Len(updates) <= UpdateCap /\ Ordered(updates) /\ Distinct(updates)
    BY DEF StreamInv, StreamTypes
  <2>3. Len(updates') <= UpdateCap
    BY <2>1, <2>2, Taken, CapIsNatural
  <2> QED
    BY <1>1, <2>1, <2>2, <2>3, Taken
<1> QED
  BY <1>2, <1>3, PublisherKept, RelayKept DEF Next

LEMMA StreamInvariant == Spec => []StreamInv
BY StreamInitially, StreamKept, PTL DEF Spec

----------------------------------------------------------------------------
(* Theorems.                                                               *)

\* Every state is well formed, and a relay's statuses are published one phase
\* after the other, whatever the publishers of the other relays do meanwhile.
THEOREM StreamTypeCorrect == Spec => []TypeOK
<1>1. ASSUME StreamInv, NEW r \in Relays, NEW k \in Kinds, pub[<<r, k>>] # "idle"
      PROVE  life[r] = PhaseOf[k]
  <2>1. Placed(r, k) /\ Busy(r, k)
    BY <1>1 DEF StreamInv, Busy
  <2>2. k \in {"connecting", "ready", "udp_ready", "failed"}
    BY <1>1 DEF Kinds
  <2>3. PhaseOf["connecting"] = "starting" /\ PhaseOf["ready"] = "running"
        /\ PhaseOf["udp_ready"] = "running" /\ PhaseOf["failed"] = "failing"
    BY DEF PhaseOf
  <2> QED
    BY <2>1, <2>2, <2>3 DEF Placed
<1>2. StreamInv => TypeOK
  BY <1>1 DEF StreamInv, TypeOK
<1> QED
  BY <1>2, StreamInvariant, PTL

\* However many relays publish, and however their evictions from a full buffer
\* interleave, a reader sees "connecting" of a relay first and "failed" last.
THEOREM StreamOrdered == Spec => []UpdateOrder
<1>1. StreamInv => UpdateOrder
  BY DEF StreamInv, Ordered, UpdateOrder
<1> QED
  BY <1>1, StreamInvariant, PTL

\* Three kinds of notification per relay, each at most once, and at most the
\* one about to be sent is missing from the channel: there is room for it.
LEMMA RoomWithoutUDP ==
    ASSUME StreamInv, ~udpEnabled, UpdatesPerRelay >= 3, NEW p \in Publishers, pub[p] # "idle"
    PROVE  Len(updates) < UpdateCap
<1> DEFINE Once == {"connecting", "ready", "failed"}
           T    == Relays \X Once
           f    == [i \in 1..Len(updates) |-> updates[i]]
<1>1. updates \in Seq(Publishers) /\ Len(updates) \in Nat /\ Distinct(updates)
  BY DEF StreamInv, StreamTypes
<1>2. p \in T /\ ~Has(updates, p)
  <2>1. PICK r \in Relays, k \in Kinds : p = <<r, k>>
    BY DEF Publishers
  <2>2. Placed(r, k) /\ Busy(r, k)
    BY <2>1 DEF StreamInv, Busy
  <2>3. k # "udp_ready" /\ ~Seen(r, k)
    BY <2>2 DEF Placed
  <2>4. k \in Once
    BY <2>3 DEF Kinds
  <2> QED
    BY <2>1, <2>3, <2>4 DEF Seen
<1>3. ASSUME NEW i \in 1..Len(updates) PROVE updates[i] \in T \ {p} /\ updates[i][2] # "udp_ready"
  <2>1. updates[i] \in Publishers /\ Has(updates, updates[i])
    BY <1>1 DEF Has
  <2>2. PICK r \in Relays, k \in Kinds : updates[i] = <<r, k>>
    BY <2>1 DEF Publishers
  <2>3. Placed(r, k) /\ Seen(r, k)
    BY <2>1, <2>2 DEF StreamInv, Seen
  <2>4. k # "udp_ready"
    BY <2>3 DEF Placed
  <2>5. k \in Once
    BY <2>4 DEF Kinds
  <2> QED
    BY <1>2, <2>1, <2>2, <2>4, <2>5
<1>4. f \in Injection(1..Len(updates), T \ {p})
  <2>1. f \in [1..Len(updates) -> T \ {p}]
    BY <1>3
  <2>2. ASSUME NEW i \in 1..Len(updates), NEW j \in 1..Len(updates), f[i] = f[j] PROVE i = j
    BY <1>1, <1>3, <2>2 DEF Distinct
  <2> QED
    BY <2>1, <2>2 DEF Injection, IsInjective
<1>5. IsFiniteSet(Once) /\ Cardinality(Once) = 3
  <2>1. IsFiniteSet({"connecting"}) /\ Cardinality({"connecting"}) = 1
    BY FS_Singleton
  <2>2. IsFiniteSet({"connecting"} \cup {"ready"}) /\ Cardinality({"connecting"} \cup {"ready"}) = 2
    BY <2>1, FS_AddElement
  <2>3. /\ IsFiniteSet(({"connecting"} \cup {"ready"}) \cup {"failed"})
        /\ Cardinality(({"connecting"} \cup {"ready"}) \cup {"failed"}) = 3
    BY <2>2, FS_AddElement
  <2>4. Once = ({"connecting"} \cup {"ready"}) \cup {"failed"}
    OBVIOUS
  <2> QED
    BY <2>3, <2>4
<1>6. IsFiniteSet(T) /\ Cardinality(T) = Cardinality(Relays) * 3
  BY <1>5, CapIsNatural, FS_Product
<1>7. IsFiniteSet(T \ {p}) /\ Cardinality(T \ {p}) = Cardinality(Relays) * 3 - 1
  BY <1>2, <1>6, FS_RemoveElement
<1>8. Cardinality(1..Len(updates)) <= Cardinality(Relays) * 3 - 1
  BY <1>4, <1>7, FS_Injection
<1>9. Cardinality(1..Len(updates)) = Len(updates)
  <2>1. ASSUME NEW n \in Nat PROVE Cardinality(1..n) = n
    <3>1. Cardinality(1..n) = IF 1 > n THEN 0 ELSE n - 1 + 1
      BY FS_Interval
    <3> QED
      BY <3>1
  <2> QED
    BY <1>1, <2>1
<1>10. Cardinality(Relays) * 3 <= UpdateCap
  <2>1. ASSUME NEW n \in Nat, NEW m \in Nat, m >= 3 PROVE n * 3 <= m * n
    <3>1. m = 3 + (m - 3) /\ m - 3 \in Nat
      BY <2>1
    <3>2. ASSUME NEW d \in Nat PROVE n * 3 <= (3 + d) * n
      <4>1. (3 + d) * n = 3 * n + d * n /\ d * n \in Nat
        OBVIOUS
      <4> QED
        BY <4>1
    <3> QED
      BY <3>1, <3>2
  <2> QED
    BY <2>1, CapIsNatural, StreamAssumption DEF UpdateCap
<1> QED
  BY <1>1, <1>8, <1>9, <1>10, CapIsNatural

\* With the code's four slots per relay, or with three, an exposure without UDP
\* never evicts a notification, whether or not anybody reads Updates.
THEOREM NoUpdateLost ==
    ASSUME UpdatesPerRelay >= 3
    PROVE  Spec => []NothingDropped
<1>1. Init => NothingDropped
  BY DEF Init, NothingDropped
<1>2. StreamInv /\ NothingDropped /\ [Next]_vars => NothingDropped'
  <2> SUFFICES ASSUME StreamInv, NothingDropped, [Next]_vars, ~udpEnabled', NEW p \in Publishers
               PROVE  pub'[p] \notin {"evict", "resend"}
    BY DEF NothingDropped
  <2>1. /\ ~udpEnabled /\ pub[p] \notin {"evict", "resend"}
        /\ pub \in [Publishers -> {"idle", "send", "evict", "resend"}]
    <3>1. UNCHANGED udpEnabled
      BY DEF vars, Next, publishUpdate, publishSend, publishEvict, publishResend, addRelay, goRunSupervisor,
             markReady, markDatagramReady, markFailed, runSupervisorDone, Consume
    <3> QED
      BY <3>1 DEF NothingDropped, StreamInv, StreamTypes
  <2>2. ASSUME NEW q \in Publishers, publishUpdate(q) PROVE pub'[p] \notin {"evict", "resend"}
    <3>1. publishSend(q) /\ pub[q] = "send"
      BY <2>1, <2>2 DEF publishUpdate, publishSend, publishEvict, publishResend, NothingDropped
    <3>2. Len(updates) < UpdateCap
      BY <2>1, <3>1, RoomWithoutUDP
    <3> QED
      BY <2>1, <3>1, <3>2 DEF publishSend
  <2>3. ASSUME NEW r \in Relays,
               \/ addRelay(r) \/ goRunSupervisor(r) \/ markReady(r)
               \/ markDatagramReady(r) \/ markFailed(r) \/ runSupervisorDone(r)
        PROVE  pub'[p] \notin {"evict", "resend"}
    BY <2>1, <2>3 DEF addRelay, goRunSupervisor, markReady, markDatagramReady, markFailed, runSupervisorDone, Start
  <2>4. CASE Consume \/ UNCHANGED vars
    BY <2>1, <2>4 DEF Consume, vars
  <2> QED
    BY <2>2, <2>3, <2>4 DEF Next
<1> QED
  BY <1>1, <1>2, StreamInvariant, PTL DEF Spec

=============================================================================
