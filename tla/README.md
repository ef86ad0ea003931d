# Portalite in TLA+

Portalite publishes a local service through one or more relays: `Expose`
returns a `net.Listener` that fans in the tenant connections of every relay,
follows relay membership through discovery, carries UDP datagrams over QUIC
backhauls, and a proxy copies streams and datagrams to local targets.  This
directory models that program from the identity file to the last socket, checks
the models with TLC and proves part of them with TLAPS.

`PROJECT.json` lists the components, the runs, the mutants that show that each
property can fail, the map from definitions to source lines, the findings and
the hazards.

## 1. The system

| Component | State | Operations | Talks to |
|---|---|---|---|
| Exposure (`exposure.go`) | statuses, three counters, rejected relays, the `allFailed` and `stateChanged` channels, `failedOnce`, the `accepted`, `updates` and `datagrams` channels, `closing`, wait groups | `Expose`, `addRelay`, `markReady`, `markDatagramReady`, `markFailed`, `markExhausted`, `Accept`, `WaitReady`, `WaitDatagramReady`, `AcceptDatagram`, `SendDatagram`, `Close`, `runDiscovery` | supervisors (callbacks), the application, discovery |
| Relay supervisor (`relay.go`) | the control client, the lease (token, generation, `renewing`, `tokenUncertain`, tenant TLS, expiry, reverse capability), the QUIC connection | `run`, `initializeControl`, `registerLeaseWithRetry`, `runLease` with `runReverseSlot`, `runRenewLoop` and `runDatagramLoop`, `shutdown` | the relay (HTTP, reverse sessions, `/v1/sign`, QUIC), the exposure |
| Discovery (`discovery.go`) | verified candidates with expiry and UDP capability | `fetch`, `verifyRelayDescriptor`, `merge`, `selectRelays` | relays, the exposure |
| Datagram framing (`datagram.go`) | none | encode, decode, `dialQUICBackhaul` | the relay |
| Proxy (`proxy.go`, `udp_proxy.go`) | proxy pairs, the UDP flow map | `ProxyWithConfig`, `runTCPProxy`, `proxyConnection`, `runUDPProxy`, `forward`, `readResponses`, `cleanupLoop` | the exposure, local targets |
| Error classification and retry policy (`relay.go`) | none | `doAPI`'s errors, `classifyRelayError`, `parseRetryAfter`, `relayRetryDelay` | the supervisor |
| Identity, normalisation, protocol types, registry | none at run time | pure functions | everything |
| Command line tool (`cmd/portalite`) | an identity file that several processes share; the update writer | argument checks, `loadOrCreateIdentityWith`, `readIdentityAfterCreateRace`, the run | the library, the file system |
| HTTP demo (`cmd/http-demo`) | none | an example | the library |

What is hard about it:

* **Two kinds of signal.**  Callers sleep on channels they captured under a
  lock which they have released since.  `stateChanged` is replaced on every
  change, `allFailed` is closed on exhaustion and replaced when a relay joins;
  `failedOnce` guards the close but is itself replaced.
* **Verdicts that age.**  `markFailed` and `refreshDiscovery` decide under the
  lock that every relay has failed, and act after they have released it.
* **Shutdown.**  `Close` waits for supervisors, then for discovery, then
  drains and closes channels that other goroutines use.
* **Token rotation.**  A renewal replaces token and capability while connects,
  signatures and dials with the old ones are in flight, and its answer may be
  lost.  A rejection then means "lost lease" or "nothing", and the difference
  is the life of the relay.
* **Locks.**  `e.mu` is a `sync.RWMutex` which some readers take twice.
* **Proxy teardown.**  Dials race with `closeAll`, flow expiry races with
  writes and readers, and the workers wait for each other.
* **A clock read once.**  A discovery refresh takes the time before its first
  request and selects candidates after its last one; descriptors of the same
  relay contradict each other, and members fail meanwhile.
* **A shared file.**  Processes create, read, withdraw and wait for the same
  identity file without a lock, and each may be killed at any point.

What makes each component correct: the exposure's counters describe its
membership; a closed all-failed signal means that all failed; no wake-up is
lost; each connection has one owner and is closed or delivered; `Close`
finishes and leaves nothing running.  A supervisor gives a lease up only when
it or its capability has run out or the relay has dropped it, fails only for a
current reason, closes every signer and unregisters what it holds, and decides
about an error by its code.  Updates of a relay arrive in order.  The proxy loses
no socket and returns.  Discovery adopts only what a current descriptor vouches
for, each relay once, and in the end every usable candidate.  Processes that share a file run under one identity, and none
overwrites it.

## 2. Modules

| Module | Models | Role |
|---|---|---|
| `Exposure` | the exposure with all its goroutines | core |
| `ExposureProofs` | types, counters and signal of `Exposure` | proof |
| `ExposureSafety` | connections, shutdown, crashes, candidates and wake-ups of `Exposure` | proof |
| `ExposureRefinement` | that `Exposure` implements `Listener` | proof |
| `Listener` | what an application may rely on, without locks, channels or signals | abstract specification |
| `MCExposure` | the refinement mapping from `Exposure` to `Listener` | checked by `ExposureDiscovery` |
| `UpdateStream` | `publishUpdate` as separate channel operations | refines one step of `Exposure` |
| `ExposureLock` | `e.mu` and who takes it how | the locked steps of `Exposure`, opened up |
| `RelayLease` | one relay supervisor and an external relay | the environment of `Exposure` in detail |
| `RetryPolicy` | errors, decisions and delays as operators | extended by `RelayLease` |
| `Proxy`, `MCProxy` | `ProxyWithConfig` and its workers | client of the exposure |
| `Discovery`, `MCDiscovery` | normalisation, verification, merging and adoption of relays | what `Exposure` treats as an arbitrary answer |
| `Command`, `MCCommand` | processes of the command line tool and their identity file | uses what `Proxy` shows of cancellation |
| `UpdateStreamProofs`, `RelayLeaseProofs`, `ProxyProofs`, `DiscoveryProofs`, `CommandProofs` | the safety properties of the module of that name | proof |

### Exposure

A section that the code runs under `e.mu` is one step; everything after the
unlock is another one.  So `addRelay` is the locked section and
`goRunSupervisor` the publication and the start of the goroutine; `markFailed`
computes the verdict and `markFailedVerdict` acts on it; `markExhausted` is the
five steps `exOnce`, `exClose`, `exLeave`, `exNotify`, `exDrain`, the first
three being what `sync.Once.Do` does with its mutex.  The Once is a record
`[done, locked]`, so that replacing it under a running `Do` has the effect it
has in Go.  `Accept` takes its steps in the order in which Go evaluates a
`select`: `terminalState` (two reads), `stateChangedSignal`, `exhaustedSignal`,
then the choice.  A captured `stateChanged` channel is the flag `changed[x]`:
closed since it was captured, or not.  `crash` records a fatal error of the Go
runtime, after which nothing happens.

The supervisor below `runSupervisor` is an environment: it may call back, offer
connections and return whenever `relay.go` could.  Discovery's answers are an
arbitrary set of relays per refresh.  `Expose` cannot fail in the model: its
validation happens before any state exists, and `newRelaySupervisor` accepts
every URL that `NormalizeRelays` returns.  `AcceptDatagram` is not modelled: its
loop waits on the same signals as `Accept`, without the checks after a receive.

### Listener, MCExposure

`Listener` is the promise behind `net.Listener`.  Its state is which relays are
live or failed, whether the listener is over, what became of each tenant
connection, and where each `Accept` call stands.  It says that

* a connection comes from a live relay and goes to at most one call, and a
  queued one is lost only when its own relay has failed or the listener is over
  (so draining on exhaustion spares the relays that are alive);
* `ErrNoRelays` reaches only a call that observed, while it was running, that
  there were relays and all had failed;
* a call that enters after the end gets `net.ErrClosed` and nothing else, and
  nobody gets `net.ErrClosed` before;
* a relay that has failed never comes back, and nothing joins or fails after
  the end.

`MCExposure` maps `statuses` to membership (absent, failed, anything else),
`closing \/ ctxDone` to the end, a connection held by a call that has not
returned to a queued one, and a call that holds a non-nil `exhaustedSignal` to a
doomed one.  Every step of the exposure maps to a step of `Listener` or to a
stutter.  The drop of a connection which an `Accept` call had received already is
part of the step with which that call returns its error.

### UpdateStream, ExposureLock

`Exposure` treats `publishUpdate` as one step and a locked section as atomic.
`UpdateStream` opens up the first: three non-blocking channel operations per
publisher, any number of publishers at once.  `ExposureLock` opens up the
second: Go's writer preference, flat readers, and the nested readers
(`WaitReady`, `WaitDatagramReady` and `SendDatagram` call `exhaustedSignal`,
which locks, while they hold the lock).  The mutex itself belongs to Go's library
and is modelled from its documented behaviour.

### RelayLease

`token` stands for access token and reverse capability, which a renewal
replaces together; 0 is none.  Each worker has a position and the token and
generation it captured.  The relay is external: it holds at most one lease
(`srv`), rotates it on `/renew`, replaces it on `/register` and may forget it;
requests and answers get lost, and it may refuse a signature whatever token the
request carries.  Two clocks run out: `expired` is the lease's own expiry,
`capExpired` that of the reverse endpoint, which the relay may set earlier
(`relay.go:702`) and upon which a slot gives up a lease that is still valid
(`relay.go:1040`).  The wait before a renewal is repeated is a position of the
loop, `backoff`: it ends by the timer, or is cut short by the lease context, which
the refresh of any other worker cancels, and `run` then registers again at once.

### RetryPolicy

An answer of the control API is a status, what reading its body comes to, a code
and a Retry-After header.  `doAPI` turns it into an error, `classifyRelayError`
into a decision, `relayRetryDelay` and the renewal's clamp into a delay, all in
seconds and each branch in the order of the code.  `RetryDecisions` states, for
every combination of inputs, that the code of an error decides before its status
(`relay.go:1555`) and that a delay lies between its bounds.  It claims nothing
where the code and `docs/usage.md` disagree; section 3 lists these places.

### Discovery

A URL is the record of its parts: surrounding space, scheme, user, host with its
case and trailing dots, port with its leading zeros, path, query.
`normalizeRelay` validates each part and changes it as the code does;
`dialAddress` is what `newRelaySupervisor` makes of the result.  That two members
never dial the same address is therefore a statement about the conversion: a
normalisation that left a leading zero or the default port in place would break
it.  A descriptor has its two times, its UDP capability
and a signature that is right or not.  A refresh is one step per seed, one for
the selection and one per adopted relay; the clock, failures and `Close`
interleave with all of them.  `latest` is history: the last descriptor taken
from a document per URL, against which adoption is judged.

### Command

Arguments are a small set of command lines.  The file is absent, empty, partial
or full, and has the document of whoever made it; `ParseIdentity` decides what a
reader gets.  Every system call on the file is a step, the pieces of the write
included, and each may fail; a kill may come between any two.  `withdrawn` and
`faulted` are history.  The exposure and the proxy are reduced to what the
command sees: an update stream that is closed before `ProxyWithConfig` returns.
The stream is bounded and evicts its oldest update when it is full; updates are
numbered, so it holds those after `taken` up to `sent`.  A signal may arrive from
the start of the process on, while it still loads the identity too; `run` looks
at the context only after that.

### Proxy

The exposure is reduced to live, exhausted or closed; an exhausted one may
recover when discovery adopts a relay.  `AcceptDatagram` passes its checks in one
step and chooses in another, so that it may return a frame that was queued before
the end.  TCP: one pair per
connection, with the set of open sockets; the `AfterFunc` goroutine marks and
closes in two steps because nobody waits for it.  UDP: the flow map, a socket
and a reader per flow, the cleanup loop; each locked section is a step and the
close that follows it another.

## 3. Runs

Passing runs:

| Run | Instance | Shows |
|---|---|---|
| `ExposureDiscovery` | an explicit and a discovered relay, one connection each, queue of one, one `Accept` caller | counters, signals, ownership, `Close`, no crash; the exposure implements `Listener` |
| `ExposureLive` | the same without connections, with a `WaitReady` caller and a cleanup that fails | `WaitReady` does not sleep through a total failure, `Close` completes and reports the error |
| `ExposureFixed` | two explicit UDP relays, no discovery, `Accept`, `WaitReady` and `WaitDatagramReady` | backhauls come and go, no caller sleeps through a change |
| `UpdateStream` | an explicit and a discovered relay, with and without UDP | a relay's publishers and order under eviction; without UDP nothing is evicted |
| `Lease` | one slot, the renewal and the datagram loop, two tokens, every refusal | rejections and refused signatures, signers, unregistration, cancellation ends `run`, a lost lease is given up, retry decisions and delays |
| `Proxy` | three instances in one: TCP with two connections, UDP with two flow keys and a limit of one flow, both | no lost socket, clean return, return after cancellation and after the exposure's end |
| `Discovery` | three relays, six documents, caps of 1 and 2, with and without UDP, a clock of four instants | adoption is vouched for, no address is dialled by two supervisors, candidates settle |
| `Command` | three processes that load the identity, or two of which one runs on | one identity, never overwritten, under the requested name; nothing torn without a fault; loading ends; a signal at any point ends the process, with the newest update written |

Runs that end in a violation show where the code does not do what its
documentation says; the findings in `PROJECT.json` quote both sides:

| Run | What happens |
|---|---|
| `ExposureStartupCrash` | a relay that fails while `Expose` still adds the next one replaces `failedOnce` under a running `Do` |
| `LeaseBackhaul` | a backhaul with the rotated token can stay installed |
| `LockNested` | the nested read lock deadlocks with a writer, `Close` included |
| `ProxyUDPError` | a UDP-only proxy hangs when the exposure ends |

### Documentation that the code does not follow

These disagreements have no run of their own.  The models follow the code, and no
property asserts either side of them.

* `docs/usage.md:267` and the comment at `exposure.go:730` say that with discovery
  `Accept` waits for a new candidate instead of reporting `ErrNoRelays`.  It does
  report it after a refresh that adopted nothing (`exposure.go:319`), because
  `terminalState` reads `exhausted`.  `WaitersUnblock` is about `WaitReady` and
  `WaitDatagramReady`, for which the documentation and the code agree.
* `docs/usage.md:121` lists `lease_not_found` and `unauthorized` among the errors
  that are retried; at registration they are terminal.  The comment at
  `relay.go:1511` says that every other API error is retried; an unknown code with
  a status below 500 is terminal (`relay.go:1564`).  `RetryDecisions` states
  neither.
* `docs/usage.md:123` promises to wait for a Retry-After.  The renewal's wait ends
  with the lease (`relay.go:1237`) or with the refresh of another worker
  (`relay.go:1240`), and `run` registers again at once (`relay.go:360`).
* `docs/usage.md:197` says that a signal makes the command exit successfully.  One
  that arrives while the identity is loaded is noticed only afterwards: if the load
  fails, the status is 1 or 2 (`main.go:153`, and `main_test.go:416` expects it).
  `SignalExits` claims status 0 only from the end of loading on.
* "keep the newest state visible" (`exposure.go:385`) fails when a second
  publisher takes the slot the first one has freed.

### Other observations

* Without discovery the race of `ExposureStartupCrash` can also make
  `markExhausted` drain queued connections of a relay that is alive
  (`exposure.go:374`); that `Listener` is implemented is therefore stated for the
  run with discovery.
* A relay stays `ready` while it registers again after a lost lease
  (`relay.go:360`).
* A renewal cut off by cancellation can leave the renewed lease on the relay
  although `shutdown` reports success, which is why `CertainLeaseReleased`
  excludes a token in doubt.
* A refused signature fails the relay although its lease is alive, as
  `docs/usage.md:308` says; `SignFailureIsCurrent` states that the refusal must be
  one of the token in force.
* A Retry-After of 2^31 seconds or more, or one that is no number, counts as
  absent.
* The cap of discovery counts adopted relays for ever, failed ones too; the
  comment at `discovery.go:33` speaks of relays supervised "at once".
* A candidate that expires during a refresh is still adopted in it, because `now`
  was taken before the first request (`exposure.go:298`).
* A process that reads the identity file between another one's create and write
  fails at once (`main.go:281`), while one that loses the creation race waits.
* A loser of the race that reads the whole document just before the winner's
  write or close fails runs under an identity that is then withdrawn; this is the
  exception in `SameIdentity`.
* A process killed while it writes leaves a file that no later run replaces; a
  person has to remove it.

### Bounds

Two relays are enough for the races between the one that fails and the one that
joins, and one connection each with a queue of one makes the queue fill.
Discovery's cap of 1 is reached and refused.  Two tokens allow a registration
followed by a renewal or by a re-registration, so that every worker can hold a
token, a capability or a generation that has been replaced.  `UpdatesPerRelay` is 3,
one less than in the code: eviction is reached sooner, and that nothing is dropped
without UDP holds all the more with 4.  Two flow keys with a limit of one flow and two sockets exercise expiry,
refusal and reuse of a key.  `Proxy` and `Command` take their instances from
`Setups`, chosen by the initial state: each question gets the workers or the
processes it needs, and their product is never built.  Three processes are a
winner that fails, a loser that has read its identity, and a third one that
creates another.  Two updates and a buffer of one make the stream of `Command`
evict.  In `Discovery` three relays let an explicit one, an adopted one
and one refused at the cap occur together; the documents disagree on relay 2's
expiry and UDP capability and spell it in several ways; four instants let a
descriptor lapse before, during and after a refresh, and two adoptions need a cap
of 2.  `RetryPolicy`'s inputs hold each code, each class of status, and the
Retry-After values on both sides of the base wait and of the cap.  The
theorems of section 4 lift the bounds for every safety property.

Deadlock is checked where the system cannot stop (`ExposureDiscovery`,
`ExposureLive`): discovery's ticker or a caller can always move.
In the other runs the system may stop by design (everything is closed, no token
is left, every process has exited, or nobody has anything to publish).

### Fairness

Weak fairness for every goroutine of the program, because Go schedules each
runnable goroutine.  Nothing is assumed of relays, tenants or the application,
except that after cancellation a blocked request, read or offer returns, which
the code gets from the contexts it passes.  `discoveryExit` has strong
fairness: a `select` with a ready `ctx.Done()` chooses it eventually although
the ticker competes; `cleanupExit` of the proxy likewise.  `LockAnnounce` has
strong fairness because `sync.Mutex` hands over to a starving waiter.
`WaitersUnblock` is checked without fairness of the ticker, so it rests on the
kick alone.  `LostLeaseGivenUp` needs the clock: a lease that the relay has
dropped expires if nobody notices earlier.  `CandidateSettled` assumes that
discovery goes on: its ticker fires again and each request ends by its timeout.
`Command` assumes that a process and its goroutine are scheduled, that its output
is read, that the deadline of a loser passes, and that cancellation closes the
exposure and makes `ProxyWithConfig` return, which `Proxy` shows (`CancelReturns`).

## 4. Proofs

Every invariant and every action property of the passing runs, and the
refinement, is a theorem that holds for every value of the constants.  Where TLC
needs two relays and one connection, the theorem speaks of any finite set of
relays, any number of connections, callers, flows or processes, and any
capacity.  Each proof has the same shape: an inductive invariant, which TLC
checked on the instance of the run first, one step per action of `Next`, frame
facts for what an action leaves alone, and the property as a consequence.

### Exposure

`ExposureProofs`:

* `TypeCorrect`: `TypeOK` is inductive as it stands.
* `CountsCorrect` (`CountsMatch`).  An add that is not explicit must not be of an
  explicit relay, or `discoveredCount` would count it against the cap.  That this
  cannot happen needs `AddOrder`: explicit relays are added before discovery
  starts, and one of them is missing later only if the exposure has ended, in
  which case `addRelay` refuses everything.  With `DiscExhausts` (discovery is
  inside `markExhausted` only after its own verdict) this is `CountInv`.
* `SignalCorrect` (`SignalMeansAllFailed`).  `SignalInv` adds that with discovery
  no supervisor runs `markExhausted`, and that from discovery's verdict to the
  next adoption every member stays failed.  `CountInv` turns the comparison of
  two counters into the equality of two sets.

`ExposureSafety`:

* `OwnersCorrect` (`OneOwnerPerConn`): the queue is a sequence without repetition;
  `HeldInHand` says when a call may have a connection in its hands.
* `CloseCorrect` (`CloseIsFinal`).  `CloseOrder` states what each wait of `Close`
  has achieved and what nobody can undo behind it; `SupervisorScope` says that a
  supervisor outlives its workers' publications, offers and `markExhausted`, so
  waiting for supervisors is enough.
* `NoCrashWithDiscovery` and `NoSendAfterClose`.  Without discovery `NoCrash` is
  false (`ExposureStartupCrash`); what remains true there is that no update is
  sent after `Close`.  With discovery there is one executor of `markExhausted`;
  `OnceGuardsSignal` relates the Once, its mutex and the signal it guards, so an
  adoption never replaces a Once under a running `Do`.
* `CandidatesCorrect` (`NoUsableCandidateLeft`), from `CandidatesTaken`: a
  candidate that the current refresh has dealt with is a member or beyond the cap.
* `WakeupsCorrect` (`NoLostWakeup`), with and without discovery: it is inductive
  with the types, `DiscExhausts` and `SupervisorScope`, which say that whoever is to
  notify cannot disappear before it has.

`ExposureRefinement` proves `ListenerImplemented`: under `DiscoveryEnabled`,
`Spec => ImplementsListener`.  `LinkInv` adds that a connection came in through a
member and that a call that received has exactly one connection.  Every action is
shown to be a step of `Listener` or to leave the mapped state alone.  Without
discovery the statement is false: the race of `ExposureStartupCrash` can make a
late `markExhausted` drain the connection of a relay that is alive.

### The other components

* `UpdateStreamProofs`: `StreamTypeCorrect`, `StreamOrdered` (`UpdateOrder`),
  `NoUpdateLost` (`NothingDropped`).  `Placed` relates the life of a relay, the
  position of each of its publishers and the contents of the channel; `Distinct`
  says that apart from "udp_ready" nothing is in the channel twice.  Without UDP
  the channel is then an injection into three kinds per relay that misses the
  notification about to be sent, hence has room for it.  The theorem assumes
  `UpdatesPerRelay >= 3`; the code has 4, and with 2 TLC finds an eviction.
* `RelayLeaseProofs`: `TypeCorrect`, `TokenCertainAlways`, `SignersNeverLeak`,
  `FailuresAreReal`, `RefreshesJustified`, `SignFailuresCurrent`, `LeaseReleased`,
  `RetryDecided`.  `LeaseInv` consists
  of `Phases` (workers run while a lease is held), `Results` (whoever cancels the
  lease context has a reason of its own), `Issued` (a token is known here only
  after the relay issued it), `Renewal` (the loop renews the lease that is held
  and marks it while it does), `Rejections` (a token that was refused is never
  accepted again), and the three invariants themselves.
  `RefreshesJustified` rests on `Rejections` and `Renewal` together: a rejection
  compares the token with the current one under the lock, and a rotated token
  makes it stale.  `SignFailuresCurrent` rests on the same comparison together with
  `TokenCertain`.  The lemmas `APIDecisions`, `CutOffDecision` and `DelayBounds`
  carry `RetryDecided` for every status, code and delay.
* `ProxyProofs`: `ProxyTypeCorrect`, `NoSocketOrphaned` (`NoOrphanSocket`),
  `ProxyReturnsClean` (`ReturnsClean`).  `PairsOwn` says who closes each side of a
  pair in each of its states, `FlowsKnown` and `FlowPhases` what the flow map, the
  readers and the cleanup loop may hold, `FlowLimit` that the map stays within
  `MaxFlows`, `ResultsSent` that a worker's result is its last act.
* `DiscoveryProofs`: `DiscoveryTypeCorrect`, `RelaysSupervisedOnce`
  (`OneSupervisorPerRelay`), `AdoptionsJustified` (`AdoptionSound`).
  `CanonicalForm` says what every accepted spelling is turned into, and
  `CanonicalUnique` that two such forms with one dial address are equal.
  `CandidatesInv` says that both maps of a candidate come from the one descriptor
  taken last, `SelectionInv` that what is selected stays backed by it until it is
  added.  That the loops over sorted URLs take a member of their set, and that the
  last of several descriptors is one of them, follow from the well-foundedness of
  the natural numbers (`LeastNatural`).
* `CommandProofs`: `CommandTypeCorrect`, `OneIdentity` (`SameIdentity`),
  `TornFilesExplained` (`TornOnlyAfterFault`), `IdentityKept` (`NeverOverwritten`),
  and `NewestUpdateWritten`: a reader that has caught up with the stream, for which
  the end of a process waits, has written the newest update on it, however many
  were evicted.
  `Writes` says that a process which writes or removes the file created it, which
  `O_EXCL` ensures, so there is one at most; `Runs`, that the identity of a running
  process is in the file or was taken back; `Complete`, that a file whose creator
  no longer looks after it can be read.  `RoundTrip` is what writing and parsing
  an identity must satisfy for that.

### Assumptions

Those named in the modules, which TLC evaluates in the runs: finitely many
relays, the explicit ones among them and at least one, positive capacities,
disjoint names for the parties; in `Discovery`, that a document is a sequence of
descriptors with their fields and any values in them; in `Command`, that a
generated key is not empty and a random name is a valid one.  Counters that the
model caps (tokens, sockets, clock) are capped by constants of any size.

### Only model-checked

The liveness properties `WaitersUnblock`, `CloseCompletes`, `CancelTerminates`,
`LostLeaseGivenUp`, `CancelReturns`, `TCPErrorReturns`, `CandidateSettled`,
`LoadSettles` and `SignalExits`: fairness and `ENABLED` are outside what the proof
system handles.  `ImplementsListener` without discovery is not claimed.
`ExposureLock` has one property, a liveness one that TLC refutes.

## 5. Not modelled

* The datagram queue: `offerDatagram` drops what does not fit, `AcceptDatagram`
  takes what is there, `SendDatagram` and `sendDatagram` look a supervisor or a
  connection up and change no state.  The queue has no owner to hand over and
  nothing to close; which relay fills it is a matter of rates.
* Cryptography: keys, addresses, signatures, certificates and the keyless TLS
  handshake.  `Discovery` and `Command` keep only whether they match.
* String processing: `NormalizeTarget`, the details of URL and header parsing,
  frame layout, JSON, and the flags and output of the command line tool.  Where a
  property depends on a conversion, it is modelled by the classes of its inputs.
* The registry (a list of URLs) and the HTTP demo (an example).
* Wall-clock durations: the poll interval, retry delays and timeouts are steps
  that may happen.  `RetryPolicy` computes delays, `Discovery` compares instants.  So
  are rates: that a dial refused for a stale token is repeated without a wait
  (`relay.go:861`) is in the model, how often it happens is not.

## 6. Plan

Done: all modules above; the theorems of section 4, which cover every safety and
action property of the passing runs; the refinement of `Listener` by model
checking and, with discovery, by proof.

Next theorems: what of `Listener` an exposure without discovery keeps; the safety
half of the liveness arguments, for example that cancellation is never undone
and that every blocked worker of `RelayLease`, `Proxy` and `Exposure` has a step
that unblocks it; mutual exclusion of `ExposureLock`.

Next modules, if the runs allow: a composition of `Exposure` and `RelayLease` for
the statuses seen by the application, and a `DatagramPath` for the order of
datagrams across a replaced backhaul.  New questions are asked by new properties
of existing runs where the instance allows it, so that the set of runs stays
small.
