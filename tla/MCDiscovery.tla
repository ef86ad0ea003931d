----------------------------- MODULE MCDiscovery -----------------------------
(* Discovery with two hosts, the first of which has two relays.  The caller   *)
(* names one in two spellings at once, or both, or one and a URL that is      *)
(* refused.  The documents vouch for three relays with and without UDP and    *)
(* with different expiries, under several spellings, and contain what         *)
(* verification must reject.                                                  *)
EXTENDS Discovery

MCHosts == 1..2

Port(z, n) == [zeros |-> z, number |-> n]
U(h)       == origin(h, NoPort)

\* Relay 1 as "host.:0443/relay" and as "HTTPS://HOST:443/"; relay 1 has a second
\* listener at another port.
Odd1   == [U(1) EXCEPT !.scheme = "", !.dots = 1, !.port = Port(1, 443), !.path = "/relay"]
Loud1  == [U(1) EXCEPT !.scheme = "HTTPS", !.upper = TRUE, !.port = Port(0, 443), !.path = "/"]
Side1  == [U(1) EXCEPT !.padded = TRUE, !.port = Port(2, 8443)]
Dots2  == [U(2) EXCEPT !.dots = 2]
Http2  == [U(2) EXCEPT !.scheme = "http"]

MCInputs == {{Odd1, Loud1}, {U(1), Side1}, {U(1), Http2}, {Loud1, Dots2}}

Descriptor(url, issued, expires, udp) ==
    [url |-> url, issuedAt |-> issued, expiresAt |-> expires, supportsUDP |-> udp, signed |-> TRUE]
Tampered(d) == [d EXCEPT !.signed = FALSE]

\* Relay 2 has a lasting descriptor without UDP and a short one with it; the second
\* listener's is issued a little ahead of the clock, relay 1's own too far ahead.
Plain2 == Descriptor(U(2), 1, 4, FALSE)
Udp2   == Descriptor([U(2) EXCEPT !.port = Port(1, 443)], ZeroTime, 2, TRUE)
UdpS   == Descriptor([Side1 EXCEPT !.path = "/", !.upper = TRUE], 2, 3, TRUE)
Self1  == Descriptor(Odd1, 3, 4, TRUE)
BadS   == Descriptor([Side1 EXCEPT !.query = TRUE], 1, 3, TRUE)
NeverS == Descriptor(Side1, 1, ZeroTime, TRUE)

Doc(v, ds) == [version |-> v, relays |-> ds]
MCDocuments == {Doc(9, <<Plain2, Self1>>), Doc(9, <<Plain2, Udp2>>), Doc(9, <<UdpS, Udp2>>), Doc(9, <<UdpS, BadS>>),
                Doc(9, <<Tampered(Udp2), NeverS>>), Doc(8, <<UdpS, Udp2>>)}
=============================================================================
