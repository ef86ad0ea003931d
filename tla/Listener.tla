------------------------------ MODULE Listener ------------------------------
(***************************************************************************)
(* What an application may rely on when it uses an exposure as its         *)
(* net.Listener: an abstract specification, without locks, channels or     *)
(* signals.  Relays join and fail, tenant connections come in through      *)
(* them, and every Accept call returns one connection or one of two        *)
(* errors, each for a reason that held during the call.                    *)
(***************************************************************************)
CONSTANTS Relays, Conns, Callers      \* a connection is a pair of a relay and a number

VARIABLES
    member,      \* relay -> out, live or failed
    over,        \* has the listener been closed, or its parent context cancelled?
    fate,        \* connection -> none, offered, queued, delivered, closed
    call         \* Accept caller -> where its call is, or what it returned

vars == <<member, over, fate, call>>

Returned == {"idle", "conn", "errClosed", "noRelays"}

Init ==
    /\ member = [r \in Relays |-> "out"]
    /\ over = FALSE
    /\ fate = [c \in Conns |-> "none"]
    /\ call = [a \in Callers |-> "idle"]

\* There are relays, and all of them have failed.
AllFailed ==
    /\ \E r \in Relays : member[r] = "failed"
    /\ \A r \in Relays : member[r] # "live"

----------------------------------------------------------------------------
(* Membership.  A relay that has failed never comes back.                  *)

Move(r, from, to) ==
    /\ ~over /\ member[r] = from
    /\ member' = [member EXCEPT ![r] = to]
    /\ UNCHANGED <<over, fate, call>>

Join(r) == Move(r, "out", "live")
Fail(r) == Move(r, "live", "failed")

End == ~over /\ over' = TRUE /\ UNCHANGED <<member, fate, call>>

----------------------------------------------------------------------------
(* Connections.                                                            *)

Pass(c, from, to) ==
    /\ fate[c] = from
    /\ fate' = [fate EXCEPT ![c] = to]
    /\ UNCHANGED <<member, over, call>>

Offer(c)    == member[c[1]] = "live" /\ Pass(c, "none", "offered")
Withdraw(c) == Pass(c, "offered", "closed")
Queue(c)    == Pass(c, "offered", "queued")

\* A queued connection is lost only with its relay or with the listener.
Droppable(c) == fate[c] = "queued" /\ (over \/ member[c[1]] = "failed")
Drop(c)      == Droppable(c) /\ Pass(c, "queued", "closed")

----------------------------------------------------------------------------
(* Accept.  A call that enters after the end gets nothing but the error.   *)

Proceed(a, from, to) ==
    /\ call[a] \in from
    /\ call' = [call EXCEPT ![a] = to]
    /\ UNCHANGED <<member, over, fate>>

Call(a)  == Proceed(a, Returned, "entered")
Check(a) == ~over /\ Proceed(a, {"entered"}, "waiting")
Again(a) == Proceed(a, {"waiting", "doomed"}, "entered")

\* The call has observed that all relays have failed; it may still be spared.
Doom(a)  == AllFailed /\ Proceed(a, {"waiting"}, "doomed")
Spare(a) == Proceed(a, {"doomed"}, "waiting")

Accept(a, c) ==
    /\ call[a] = "waiting" /\ fate[c] = "queued"
    /\ call' = [call EXCEPT ![a] = "conn"]
    /\ fate' = [fate EXCEPT ![c] = "delivered"]
    /\ UNCHANGED <<member, over>>

\* An error; a connection that the call had in its hands is closed with it.
Refuse(a, error) ==
    /\ call' = [call EXCEPT ![a] = error]
    /\ \/ UNCHANGED fate
       \/ \E c \in Conns : Droppable(c) /\ fate' = [fate EXCEPT ![c] = "closed"]
    /\ UNCHANGED <<member, over>>

ErrClosed(a) == over /\ call[a] \notin Returned /\ Refuse(a, "errClosed")

\* ErrNoRelays: all relays have failed, now or when the call looked last.
NoRelays(a) == (call[a] = "doomed" \/ (call[a] = "waiting" /\ AllFailed)) /\ Refuse(a, "noRelays")

Next ==
    \/ \E r \in Relays : Join(r) \/ Fail(r)
    \/ End
    \/ \E c \in Conns : Offer(c) \/ Withdraw(c) \/ Queue(c) \/ Drop(c)
    \/ \E a \in Callers :
          \/ Call(a) \/ Check(a) \/ Again(a) \/ Doom(a) \/ Spare(a) \/ ErrClosed(a) \/ NoRelays(a)
          \/ \E c \in Conns : Accept(a, c)

Spec == Init /\ [][Next]_vars
=============================================================================
