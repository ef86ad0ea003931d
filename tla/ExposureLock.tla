---------------------------- MODULE ExposureLock ----------------------------
(***************************************************************************)
(* Exposure.mu, a sync.RWMutex, and who takes it how.  The module Exposure *)
(* treats a locked section as one step; this one opens the sections up.    *)
(*                                                                         *)
(* Go's RWMutex lets a writer that has called Lock keep out every reader   *)
(* that comes later, and admits the readers it kept out when it unlocks.   *)
(* A goroutine that already holds a read lock and asks for another one     *)
(* comes later, too.                                                       *)
(***************************************************************************)
EXTENDS Naturals, FiniteSets

CONSTANTS
    Flat,     \* terminalState, stateChangedSignal, exhaustedSignal, Relays, refreshDiscovery
    Nested,   \* WaitReady, WaitDatagramReady, SendDatagram: exhaustedSignal inside RLock
    Writers,  \* addRelay, markReady, markFailed, markDatagramReady, markExhausted
    Close     \* the writer that runs Close's body, once

Readers    == Flat \cup Nested
AllWriters == Writers \cup {Close}

VARIABLES
    reader,   \* reader -> its position
    writer    \* writer -> its position

vars == <<reader, writer>>

Holding(t)    == reader[t] \in {"holding", "innerBlocked", "inner", "leaving"}
WriterWaiting == \E w \in AllWriters : writer[w] \in {"pending", "write"}

Init ==
    /\ reader = [t \in Readers |-> "idle"]
    /\ writer = [w \in AllWriters |-> "idle"]

----------------------------------------------------------------------------
(* sync.RWMutex                                                            *)

\* RLock: in at once, unless a writer waits or writes.
RLock(t) ==
    /\ reader[t] = "idle"
    /\ reader' = [reader EXCEPT ![t] = IF WriterWaiting THEN "blocked" ELSE "holding"]
    /\ UNCHANGED writer

RUnlock(t) ==
    /\ reader[t] = IF t \in Nested THEN "leaving" ELSE "holding"
    /\ reader' = [reader EXCEPT ![t] = "idle"]
    /\ UNCHANGED writer

\* Lock is called; it first waits for the mutex among writers ...
LockCall(w) ==
    /\ writer[w] = "idle"
    /\ writer' = [writer EXCEPT ![w] = "lock"]
    /\ UNCHANGED reader

\* ... then announces itself to the readers ...
LockAnnounce(w) ==
    /\ writer[w] = "lock"
    /\ ~WriterWaiting
    /\ writer' = [writer EXCEPT ![w] = "pending"]
    /\ UNCHANGED reader

\* ... and enters when the readers that were inside have left.
LockEnter(w) ==
    /\ writer[w] = "pending"
    /\ \A t \in Readers : ~Holding(t)
    /\ writer' = [writer EXCEPT ![w] = "write"]
    /\ UNCHANGED reader

\* Unlock admits the readers that were kept out.  None of them is inside
\* another read lock: such a reader would have kept the writer out.
Unlock(w) ==
    /\ writer[w] = "write"
    /\ writer' = [writer EXCEPT ![w] = IF w = Close THEN "done" ELSE "idle"]
    /\ reader' = [t \in Readers |-> IF reader[t] = "blocked" THEN "holding" ELSE reader[t]]

----------------------------------------------------------------------------
(* The nested read lock: WaitReady, WaitDatagramReady and SendDatagram call *)
(* exhaustedSignal, which takes the read lock, while they hold it.         *)

innerRLock(t) ==
    /\ t \in Nested
    /\ reader[t] = "holding"
    /\ reader' = [reader EXCEPT ![t] = IF WriterWaiting THEN "innerBlocked" ELSE "inner"]
    /\ UNCHANGED writer

innerRUnlock(t) ==
    /\ reader[t] = "inner"
    /\ reader' = [reader EXCEPT ![t] = "leaving"]
    /\ UNCHANGED writer

readerStep(t) == innerRLock(t) \/ innerRUnlock(t) \/ RUnlock(t)
writerStep(w) == LockEnter(w) \/ Unlock(w)

Next ==
    \/ \E t \in Readers : RLock(t) \/ readerStep(t)
    \/ \E w \in AllWriters : LockCall(w) \/ LockAnnounce(w) \/ writerStep(w)

\* Nobody is obliged to call; whoever is inside goes on, and Go's mutex
\* (starvation mode) lets every waiting writer in eventually.
Fairness ==
    /\ \A t \in Readers : WF_vars(readerStep(t))
    /\ \A w \in AllWriters : WF_vars(writerStep(w)) /\ SF_vars(LockAnnounce(w))

Spec == Init /\ [][Next]_vars /\ Fairness

----------------------------------------------------------------------------
(* Properties.                                                             *)

\* Close, once it asks for the lock, gets it and completes its locked section,
\* however many readers and writers compete with it.
CloseGetsLock == writer[Close] = "lock" ~> writer[Close] = "done"
=============================================================================
