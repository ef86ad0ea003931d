---------------------------- MODULE UpdateStream ----------------------------
(***************************************************************************)
(* The Updates() channel: publishUpdate as the three non-blocking channel  *)
(* operations it is, run by the goroutines that Exposure abstracts to one  *)
(* step each.  A relay is published as "connecting" by the goroutine that  *)
(* adds it, before its supervisor starts; as "ready" and "udp_ready" by    *)
(* workers of the running supervisor, possibly at the same time; and as    *)
(* "failed" after supervisor.run has returned.                             *)
(***************************************************************************)
EXTENDS Integers, Sequences, FiniteSets

CONSTANTS
    Explicit,         \* the relays of ExposeConfig
    Discovered,       \* the relays discovery may add, maxDiscoveredRelays of them
    UpdatesPerRelay   \* 4 in the code

ASSUME StreamAssumption == /\ IsFiniteSet(Explicit) /\ IsFiniteSet(Discovered)
                           /\ Explicit # {} /\ Explicit \cap Discovered = {}
                           /\ UpdatesPerRelay \in Nat \ {0}

Relays     == Explicit \cup Discovered
Kinds      == {"connecting", "ready", "udp_ready", "failed"}
Publishers == Relays \X Kinds

\* Mutant: the buffer is sized for the explicit relays only.
UpdateCapExplicit == UpdatesPerRelay * Cardinality(Explicit)

\* make(chan RelayStatus, 4*capacity)
UpdateCap == UpdatesPerRelay * Cardinality(Relays)

VARIABLES
    updates,   \* the channel's contents, oldest first
    pub,       \* publisher -> where it is in publishUpdate
    life,      \* relay -> "none", "starting", "running", "failing" or "done"
    ready,     \* relay -> has markReady moved it to RelayReady?
    udpEnabled \* ExposeConfig.UDPEnabled

vars == <<updates, pub, life, ready, udpEnabled>>

Init ==
    /\ updates = <<>>
    /\ pub = [p \in Publishers |-> "idle"]
    /\ life = [r \in Relays |-> "none"]
    /\ ready = [r \in Relays |-> FALSE]
    /\ udpEnabled \in BOOLEAN

Idle(r, ks) == \A k \in ks : pub[<<r, k>>] = "idle"
Start(p)    == pub' = [pub EXCEPT ![p] = "send"]

----------------------------------------------------------------------------
(* publishUpdate                                                           *)

publishSend(p) ==
    /\ pub[p] = "send"
    /\ IF Len(updates) < UpdateCap
       THEN updates' = Append(updates, p) /\ pub' = [pub EXCEPT ![p] = "idle"]
       ELSE UNCHANGED updates /\ pub' = [pub EXCEPT ![p] = "evict"]
    /\ UNCHANGED <<life, ready, udpEnabled>>

publishEvict(p) ==
    /\ pub[p] = "evict"
    /\ updates' = IF updates = <<>> THEN updates ELSE Tail(updates)
    /\ pub' = [pub EXCEPT ![p] = "resend"]
    /\ UNCHANGED <<life, ready, udpEnabled>>

publishResend(p) ==
    /\ pub[p] = "resend"
    /\ updates' = IF Len(updates) < UpdateCap THEN Append(updates, p) ELSE updates
    /\ pub' = [pub EXCEPT ![p] = "idle"]
    /\ UNCHANGED <<life, ready, udpEnabled>>

publishUpdate(p) == publishSend(p) \/ publishEvict(p) \/ publishResend(p)

----------------------------------------------------------------------------
(* The publishers.                                                         *)

\* Mutant: the supervisor is started before "connecting" is published.
addRelayStartsFirst(r) ==
    /\ life[r] = "none"
    /\ life' = [life EXCEPT ![r] = "running"]
    /\ Start(<<r, "connecting">>)
    /\ UNCHANGED <<updates, ready, udpEnabled>>

addRelay(r) ==
    /\ life[r] = "none"
    /\ life' = [life EXCEPT ![r] = "starting"]
    /\ Start(<<r, "connecting">>)
    /\ UNCHANGED <<updates, ready, udpEnabled>>

goRunSupervisor(r) ==
    /\ life[r] = "starting"
    /\ Idle(r, {"connecting"})
    /\ life' = [life EXCEPT ![r] = "running"]
    /\ UNCHANGED <<updates, pub, ready, udpEnabled>>

\* Only the call that leaves RelayConnecting publishes.
markReady(r) ==
    /\ life[r] = "running"
    /\ ~ready[r]
    /\ ready' = [ready EXCEPT ![r] = TRUE]
    /\ Start(<<r, "ready">>)
    /\ UNCHANGED <<updates, life, udpEnabled>>

\* The backhaul came up, or came back with a new address: announced each time.
markDatagramReady(r) ==
    /\ udpEnabled
    /\ life[r] = "running"
    /\ Idle(r, {"udp_ready"})
    /\ Start(<<r, "udp_ready">>)
    /\ UNCHANGED <<updates, life, ready, udpEnabled>>

\* Mutant: runLease returns without waiting for its workers.
markFailedEarly(r) ==
    /\ life[r] = "running"
    /\ life' = [life EXCEPT ![r] = "failing"]
    /\ Start(<<r, "failed">>)
    /\ UNCHANGED <<updates, ready, udpEnabled>>

markFailed(r) ==
    /\ life[r] = "running"
    /\ Idle(r, {"ready", "udp_ready"})
    /\ life' = [life EXCEPT ![r] = "failing"]
    /\ Start(<<r, "failed">>)
    /\ UNCHANGED <<updates, ready, udpEnabled>>

runSupervisorDone(r) ==
    /\ life[r] = "failing"
    /\ Idle(r, {"failed"})
    /\ life' = [life EXCEPT ![r] = "done"]
    /\ UNCHANGED <<updates, pub, ready, udpEnabled>>

\* The application receives from Updates().
Consume ==
    /\ updates # <<>>
    /\ updates' = Tail(updates)
    /\ UNCHANGED <<pub, life, ready, udpEnabled>>

Next ==
    \/ \E p \in Publishers : publishUpdate(p)
    \/ \E r \in Relays : \/ addRelay(r) \/ goRunSupervisor(r) \/ markReady(r)
                         \/ markDatagramReady(r) \/ markFailed(r) \/ runSupervisorDone(r)
    \/ Consume

Spec == Init /\ [][Next]_vars

----------------------------------------------------------------------------
(* Properties.                                                             *)

\* The phase of a relay's life in which a status is published.
PhaseOf == [connecting |-> "starting", ready |-> "running", udp_ready |-> "running",
            failed |-> "failing"]

StreamTypes ==
    /\ updates \in Seq(Publishers) /\ Len(updates) <= UpdateCap
    /\ pub \in [Publishers -> {"idle", "send", "evict", "resend"}]
    /\ life \in [Relays -> {"none", "starting", "running", "failing", "done"}]
    /\ ready \in [Relays -> BOOLEAN] /\ udpEnabled \in BOOLEAN

\* Types; and each status is published in its own phase of the relay's life: the
\* goroutine that adds the relay has finished before the supervisor runs, and
\* the workers have finished before the failure is announced.
TypeOK ==
    /\ StreamTypes
    /\ \A r \in Relays, k \in Kinds : pub[<<r, k>>] # "idle" => life[r] = PhaseOf[k]

\* A reader never sees a relay's terminal failure before an older state of the
\* same relay, nor "connecting" after a newer one, even while full-buffer
\* evictions of several publishers interleave.
UpdateOrder ==
    \A i, j \in 1..Len(updates) :
        i < j /\ updates[i][1] = updates[j][1] =>
            updates[i][2] # "failed" /\ updates[j][2] # "connecting"

\* Without UDP the buffer is large enough for everything an exposure ever
\* publishes, so a caller that never reads Updates loses nothing.
NothingDropped ==
    ~udpEnabled => \A p \in Publishers : pub[p] \notin {"evict", "resend"}
=============================================================================
