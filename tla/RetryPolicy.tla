----------------------------- MODULE RetryPolicy -----------------------------
(***************************************************************************)
(* How the supervisor of relay.go turns an answer of the relay's control   *)
(* API into an error (doAPI), an error into a decision (retry, register    *)
(* anew, fail the relay: classifyRelayError), and a retry into a delay     *)
(* (parseRetryAfter, relayRetryDelay, the renewal loop's clamp).           *)
(*                                                                         *)
(* Times are seconds.  Codes are compared after ToLower and TrimSpace, so  *)
(* a code is its canonical name here.                                      *)
(***************************************************************************)
EXTENDS Integers

RetryWait          == 3      \* defaultRelayTimings.retryWait
maxRelayRetryDelay == 300

Lesser(a, b)  == IF a < b THEN a ELSE b
Greater(a, b) == IF a > b THEN a ELSE b

----------------------------------------------------------------------------
(* The inputs: what a relay may answer.                                    *)

terminalAPIErrorCodes == {"feature_unavailable", "hostname_conflict", "http11_only",
                          "tcp_port_disabled", "transport_mismatch", "udp_disabled"}
lostLeaseCodes        == {"lease_not_found", "unauthorized"}
capacityCodes         == {"udp_port_exhausted", "udp_capacity_exceeded",
                          "tcp_port_exhausted", "tcp_port_capacity_exceeded"}
NoCode                == ""
Codes    == terminalAPIErrorCodes \cup lostLeaseCodes \cup capacityCodes
            \cup {"rate_limited", "some_other_code", NoCode}
Statuses == {200, 302, 401, 404, 409, 429, 500, 503}

\* A Retry-After header: absent or garbage; delta seconds; delta seconds of 2^31
\* or more; a date, given by its distance from now.
Header(form, n) == [form |-> form, n |-> n]
RetryAfters == {Header("none", 0), Header("overflow", 0)}
               \cup {Header("seconds", n) : n \in {0, 3, 4, 300, 301, 2147483647}}
               \cup {Header("date", n) : n \in {-60, 90, 86400}}

\* The lease's remaining seconds when a renewal fails.
Remaining == {1, 30}

\* What reading and decoding the body comes to: it breaks off, exceeds the limit,
\* is no JSON, is an envelope with OK unset (and perhaps an error object), or one
\* with OK set and no data, the wrong data, or the data asked for.
Bodies == {"broken", "tooLarge", "garbage", "error", "errorless", "noData", "badData", "data"}

----------------------------------------------------------------------------
(* Errors: an APIError, a malformed success, a certificate that does not   *)
(* verify, a network error or a closed connection, the context's end, or   *)
(* anything else.                                                          *)

NoError       == [kind |-> "none"]
Plain(kind)   == [kind |-> kind]
APIError(status, code, retryAfter) ==
    [kind |-> "api", status |-> status, code |-> code, retryAfter |-> retryAfter]
TransportErrors == {Plain("network"), Plain("eof"), Plain("context")}

parseRetryAfter(h) == CASE h.form = "seconds" -> h.n
                       [] h.form = "date"     -> Greater(h.n, 0)
                       [] OTHER               -> 0

success(status) == status \in 200..299

\* doAPI, for a request with an output, once the relay has answered.
doAPI(status, body, code, h) ==
    LET apiErr(c) == APIError(status, c, parseRetryAfter(h)) IN
    IF body = "error" THEN apiErr(code)
    ELSE IF ~success(status) \/ body = "errorless" THEN apiErr(NoCode)
    ELSE IF body = "broken" THEN Plain("network")
    ELSE IF body = "data" THEN NoError ELSE Plain("malformed")

----------------------------------------------------------------------------
(* Decisions.                                                              *)

isLostLeaseError(e)      == e.kind = "api" /\ e.code \in lostLeaseCodes
isRateLimitedAPIError(e) == e.status = 429 \/ e.code = "rate_limited"

\* Mutant: the status range decides before the code does.
classifyByStatus(e, allowLeaseRefresh) ==
    IF e.kind = "none" THEN "none"
    ELSE IF e.kind = "api" /\ (e.status >= 500 \/ e.status = 429) THEN "retry"
    ELSE IF allowLeaseRefresh /\ isLostLeaseError(e) THEN "refresh"
    ELSE IF e \in TransportErrors THEN "retry" ELSE "terminal"

\* A lost lease (where the caller may refresh one), then a malformed success or
\* a bad certificate, then the code of an API error, then its status.
classifyRelayError(e, allowLeaseRefresh) ==
    IF e.kind = "none" THEN "none"
    ELSE IF allowLeaseRefresh /\ isLostLeaseError(e) THEN "refresh"
    ELSE IF e.kind = "api" /\ e.code \in terminalAPIErrorCodes THEN "terminal"
    ELSE IF e.kind = "api" /\ (isRateLimitedAPIError(e) \/ e.status >= 500) THEN "retry"
    ELSE IF e \in TransportErrors THEN "retry" ELSE "terminal"

----------------------------------------------------------------------------
(* Delays.                                                                 *)

retryAfterOf(e) == IF e.kind = "api" THEN e.retryAfter ELSE 0

relayRetryDelay(base, e) ==
    IF retryAfterOf(e) <= base THEN base ELSE Lesser(retryAfterOf(e), maxRelayRetryDelay)

\* runRenewLoop: a retry never sleeps past the end of the lease.
renewRetryDelay(e, remaining) == Lesser(relayRetryDelay(RetryWait, e), remaining)
=============================================================================
