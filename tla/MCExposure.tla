----------------------------- MODULE MCExposure -----------------------------
(* The exposure as an implementation of Listener: the refinement mapping, one *)
(* definition per abstract variable.                                          *)
EXTENDS Exposure

memberOf == [r \in Relays |-> CASE statuses[r] = "absent" -> "out"
                                [] statuses[r] = "failed" -> "failed"
                                [] OTHER                  -> "live"]

\* A connection in the hands of an Accept call is still undelivered.
fateOf == [c \in Conns |-> CASE conn[c] = "offering" -> "offered"
                             [] conn[c] = "held"     -> "queued"
                             [] OTHER                -> conn[c]]

\* A call that holds a non-nil exhaustedSignal is doomed.
callOf == [a \in Acceptors |-> CASE acc[a] \in AcceptReturns -> acc[a]
                                 [] acc[a] = "term"          -> "entered"
                                 [] acc[a] = "exTerm" \/ (acc[a] = "select" /\ exh[a]) -> "doomed"
                                 [] OTHER                    -> "waiting"]

L == INSTANCE Listener WITH Callers <- Acceptors, member <- memberOf, over <- Closed,
                            fate <- fateOf, call <- callOf

\* Whatever the goroutines of exposure.go do, Accept keeps the promises of
\* Listener: a connection goes to one call, ErrNoRelays is only reported to a call
\* that saw every relay failed, a call on a closed exposure gets net.ErrClosed, and
\* a queued connection is lost only with its relay or with the exposure.
ImplementsListener == L!Spec
=============================================================================
