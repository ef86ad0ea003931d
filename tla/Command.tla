------------------------------- MODULE Command -------------------------------
(***************************************************************************)
(* Processes of the command line tool (cmd/portalite/main.go) that share   *)
(* one identity file: each checks its arguments, loads or creates the      *)
(* identity, exposes it, and proxies until a signal or an error ends it.   *)
(* A process may be killed between any two steps, and every operation on   *)
(* the file system may fail.                                               *)
(*                                                                         *)
(* An identity is a name and a key.  The file's document keeps the fields  *)
(* that identity.go reads; a public key or an address is represented by    *)
(* the key it belongs to.  Expose and ProxyWithConfig are reduced to what  *)
(* the command sees of them.                                               *)
(***************************************************************************)
EXTENDS Integers, FiniteSets

CONSTANTS
    Processes,
    Args,            \* the command lines: records of kind, name, ephemeral, identityFlag
    Existing,        \* documents that the file may hold beforehand
    Levels,          \* directories above the file
    Setups,          \* bound: which processes start, and which of them (the runners) are
                     \* followed after they have loaded the identity
    UpdateCap,       \* the buffer of the Updates channel
    MaxUpdates       \* bound: relay updates per process

ASSUME CommandAssumption == Levels \in Nat /\ UpdateCap \in Nat \ {0} /\ MaxUpdates \in Nat

None == "none"

----------------------------------------------------------------------------
(* identity.go.                                                            *)

\* Spellings that ToLower and TrimSpace make a DNS label, and others.
GoodForms == {"plain", "upperCase", "padded"}
BadForms  == {"blank", "tooLong", "hyphenEdge", "dotted"}
BadName   == "bad name"

NoName    == [label |-> None, form |-> None]

\* A process stands for the key, and for the random name, that it generates: a
\* key is not empty and a random name is a DNS label.  The markers are no labels.
ASSUME IdentityAssumption ==
    /\ Processes \cap {None, BadName, "user"} = {}
    /\ \A a \in Args : a.name.form \in GoodForms => a.name.label \notin {None, BadName}

normalizeIdentityName(raw) == IF raw.form \in GoodForms THEN raw.label ELSE BadName

Identity(name, key) == [name |-> name, key |-> key]
NoIdentity          == [name |-> None, key |-> None]

\* MarshalJSON of an identity, as written to the file.
Document(i) == [json |-> TRUE, name |-> [label |-> i.name, form |-> "plain"], privateKey |-> i.key,
                publicKey |-> i.key, address |-> i.key]

\* ParseIdentity: the name and the private key are required, a public key and
\* an address are optional, and must be those of the private key.
ParseIdentity(d) ==
    IF /\ d.json /\ d.privateKey # None
       /\ normalizeIdentityName(d.name) # BadName
       /\ d.publicKey \in {None, d.privateKey} /\ d.address \in {None, d.privateKey}
    THEN Identity(normalizeIdentityName(d.name), d.privateKey)
    ELSE NoIdentity

----------------------------------------------------------------------------
VARIABLES
    setup,           \* the member of Setups
    file,            \* the file: who made it, how much of its document is there
    dirs,            \* how many of the directories above it exist
    pc, args,
    id,              \* the identity a process has generated or loaded
    expired,         \* has the deadline of readIdentityAfterCreateRace passed?
    signalled,       \* ctx: has SIGINT or SIGTERM arrived?
    stream,          \* Exposure.Updates: none, open, closed
    sent,            \* updates put on the stream, numbered from 1
    taken,           \* how many of them have left it, so that it holds taken+1 .. sent
    written,         \* the last update that the goroutine has written, or 0
    result,          \* what ProxyWithConfig returned
    code,            \* the exit status
    withdrawn,       \* history: identities whose creator failed to complete the file
    faulted          \* history: has a process been killed, or a removal failed?

fileVars == <<setup, file, dirs, withdrawn, faulted>>
runVars  == <<stream, sent, taken, written, result>>
vars     == <<fileVars, pc, args, id, expired, signalled, runVars, code>>

File(by, stage, doc) == [by |-> by, stage |-> stage, doc |-> doc]
NoFile == File(None, "absent", Document(NoIdentity))
NoArgs == [kind |-> None, name |-> NoName, ephemeral |-> FALSE, identityFlag |-> FALSE]

\* What ParseIdentity makes of the bytes that are in the file now.
parsed == IF file.stage = "full" THEN ParseIdentity(file.doc) ELSE NoIdentity

Init ==
    /\ file \in {NoFile} \cup {File("user", "full", d) : d \in Existing}
    /\ dirs \in 0..Levels /\ (file # NoFile => dirs = Levels)
    /\ setup \in Setups
    /\ pc = [p \in Processes |-> IF p \in setup.processes THEN "start" ELSE "idle"]
    /\ args = [p \in Processes |-> NoArgs]
    /\ id = [p \in Processes |-> NoIdentity]
    /\ expired = [p \in Processes |-> FALSE]
    /\ signalled = [p \in Processes |-> FALSE]
    /\ stream = [p \in Processes |-> None]
    /\ sent = [p \in Processes |-> 0] /\ taken = [p \in Processes |-> 0]
    /\ written = [p \in Processes |-> 0]
    /\ result = [p \in Processes |-> None]
    /\ code = [p \in Processes |-> -1]
    /\ withdrawn = {} /\ faulted = FALSE

Loading == {"read", "dir", "create", "race", "raceCheck", "write", "remove"}
Running == {"loaded", "expose", "proxy", "wait"}

at(p, here)   == pc[p] = here
goto(p, l)    == pc' = [pc EXCEPT ![p] = l] /\ UNCHANGED <<id, args, code>>
hold(p, i, l) == id' = [id EXCEPT ![p] = i] /\ pc' = [pc EXCEPT ![p] = l] /\ UNCHANGED code
forget(p)     == id' = [id EXCEPT ![p] = NoIdentity] /\ args' = [args EXCEPT ![p] = NoArgs]
exit(p, n)    == pc' = [pc EXCEPT ![p] = "exited"] /\ code' = [code EXCEPT ![p] = n] /\ forget(p)

----------------------------------------------------------------------------
(* Arguments.                                                              *)

normalizeRequestedIdentityName(raw) == IF raw = NoName THEN None ELSE normalizeIdentityName(raw)
requested(p) == normalizeRequestedIdentityName(args[p].name)

\* A fresh key, under the requested or a random name.
generated(p, name) == Identity(IF name = None THEN p ELSE name, p)

Refused(a) ==
    \/ a.kind = "badUsage"
    \/ a.ephemeral /\ a.identityFlag
    \/ normalizeRequestedIdentityName(a.name) = BadName

\* The arguments, and loadEphemeralIdentity, which fails if no key can be generated.
start(p) ==
    /\ at(p, "start")
    /\ \/ \E a \in Args : a.kind = "help" /\ exit(p, 0)
       \/ \E a \in Args : a.kind # "help" /\ Refused(a) /\ exit(p, 2)
       \/ \E a \in Args : a.kind # "help" /\ ~Refused(a) /\ a.ephemeral /\ exit(p, 1)
       \/ \E a \in Args :
             /\ a.kind # "help" /\ ~Refused(a)
             /\ args' = [args EXCEPT ![p] = a]
             /\ \/ a.ephemeral /\ hold(p, generated(p, normalizeRequestedIdentityName(a.name)), "loaded")
                \/ ~a.ephemeral /\ hold(p, NoIdentity, "read")
    /\ UNCHANGED <<fileVars, expired, signalled, runVars>>

----------------------------------------------------------------------------
(* loadOrCreateIdentityWith.                                               *)

\* checkIdentityName
nameMatches(p) == requested(p) \in {None, parsed.name}

\* The identity in the file is used, or its name refused.
useFile(p) ==
    /\ parsed # NoIdentity
    /\ \/ nameMatches(p) /\ hold(p, parsed, "loaded") /\ UNCHANGED args
       \/ ~nameMatches(p) /\ exit(p, 2)

\* The first read: without a file, an identity is generated.
readIdentity(p) ==
    /\ at(p, "read")
    /\ \/ file = NoFile /\ hold(p, generated(p, requested(p)), "dir") /\ UNCHANGED args
       \/ file # NoFile /\ useFile(p)
       \/ file # NoFile /\ parsed = NoIdentity /\ exit(p, 1)
    /\ UNCHANGED <<fileVars, expired, signalled, runVars>>

\* Mutant: missing parents of the directory are not created.
mkdirOnly(p) ==
    /\ at(p, "dir")
    /\ dirs' = IF dirs < Levels THEN dirs + 1 ELSE dirs
    /\ goto(p, "create")
    /\ UNCHANGED <<setup, file, withdrawn, faulted, expired, signalled, runVars>>

\* ensureIdentityDirectory, level by level; other processes create levels too.
ensureIdentityDirectory(p) ==
    /\ at(p, "dir")
    /\ \/ dirs < Levels /\ dirs' = dirs + 1 /\ UNCHANGED <<pc, args, id, code>>
       \/ dirs = Levels /\ goto(p, "create") /\ UNCHANGED dirs
    /\ UNCHANGED <<setup, file, withdrawn, faulted, expired, signalled, runVars>>

\* Mutant: the file is opened without O_EXCL.
openAnyway(p) ==
    /\ at(p, "create")
    /\ file' = File(p, "empty", Document(id[p]))
    /\ goto(p, "write")
    /\ UNCHANGED <<setup, dirs, withdrawn, faulted, expired, signalled, runVars>>

\* OpenFile with O_CREATE and O_EXCL: created, or there is a file already.
openFile(p) ==
    /\ at(p, "create")
    /\ \/ file = NoFile /\ file' = File(p, "empty", Document(id[p])) /\ goto(p, "write") /\ UNCHANGED expired
       \/ file # NoFile /\ expired' = [expired EXCEPT ![p] = FALSE] /\ goto(p, "race") /\ UNCHANGED file
    /\ UNCHANGED <<setup, dirs, withdrawn, faulted, signalled, runVars>>

\* Mutant: the loser goes on with the identity it generated.
raceReadKeepsOwn(p) ==
    /\ at(p, "race")
    /\ \/ file = NoFile /\ goto(p, "create")
       \/ file # NoFile /\ parsed # NoIdentity /\ goto(p, "loaded")
       \/ file # NoFile /\ parsed = NoIdentity /\ goto(p, "raceCheck")
    /\ UNCHANGED <<fileVars, expired, signalled, runVars>>

\* readIdentityAfterCreateRace, one round: the winner has withdrawn its file, or
\* completed it, or the file is not readable yet.
raceRead(p) ==
    /\ at(p, "race")
    /\ \/ file = NoFile /\ goto(p, "create")
       \/ file # NoFile /\ useFile(p)
       \/ file # NoFile /\ parsed = NoIdentity /\ goto(p, "raceCheck")
    /\ UNCHANGED <<fileVars, expired, signalled, runVars>>

\* Mutant: the loser polls for ever.
raceCheckForever(p) ==
    /\ at(p, "raceCheck") /\ goto(p, "race")
    /\ UNCHANGED <<fileVars, expired, signalled, runVars>>

\* What it has read did not parse: it gives up after the deadline, or polls again.
raceCheck(p) ==
    /\ at(p, "raceCheck")
    /\ IF expired[p] THEN exit(p, 1) ELSE goto(p, "race")
    /\ UNCHANGED <<fileVars, expired, signalled, runVars>>

\* waitLimit passes.
deadline(p) ==
    /\ pc[p] \in {"race", "raceCheck"} /\ ~expired[p]
    /\ expired' = [expired EXCEPT ![p] = TRUE]
    /\ UNCHANGED <<fileVars, pc, args, id, signalled, runVars, code>>

\* The document reaches the file in pieces that readers may see.
writeSome(p) ==
    /\ at(p, "write") /\ file.stage # "full"
    /\ file' = [file EXCEPT !.stage = IF @ = "empty" THEN "partial" ELSE "full"]
    /\ UNCHANGED <<setup, dirs, withdrawn, faulted, pc, args, id, expired, signalled, runVars, code>>

\* Written and closed: the file is kept.
writeDone(p) ==
    /\ at(p, "write") /\ file.stage = "full"
    /\ goto(p, "loaded")
    /\ UNCHANGED <<fileVars, expired, signalled, runVars>>

\* Mutant: a file that could not be completed is kept.
writeFailsKeeps(p) ==
    /\ at(p, "write") /\ exit(p, 1)
    /\ withdrawn' = withdrawn \cup {id[p]}
    /\ UNCHANGED <<setup, file, dirs, faulted, expired, signalled, runVars>>

\* Chmod, Write or Close fails, the latter with the whole document in the file.
writeFails(p) ==
    /\ at(p, "write") /\ goto(p, "remove")
    /\ withdrawn' = withdrawn \cup {id[p]}
    /\ UNCHANGED <<setup, file, dirs, faulted, expired, signalled, runVars>>

\* The deferred Remove, whose own error is ignored.
removeFile(p) ==
    /\ at(p, "remove") /\ exit(p, 1)
    /\ \/ file' = NoFile /\ UNCHANGED faulted
       \/ faulted' = TRUE /\ UNCHANGED file
    /\ UNCHANGED <<setup, dirs, withdrawn, expired, signalled, runVars>>

\* Another error of the file system or of the generator.
loadFails(p) ==
    /\ pc[p] \in {"read", "dir", "create", "race"} /\ exit(p, 1)
    /\ UNCHANGED <<fileVars, expired, signalled, runVars>>

----------------------------------------------------------------------------
(* The run.                                                                *)

status(p, ok) == IF signalled[p] \/ ok THEN 0 ELSE 1

checkContext(p) ==
    /\ at(p, "loaded") /\ p \in setup.runners
    /\ IF signalled[p] THEN exit(p, 0) ELSE goto(p, "expose")
    /\ UNCHANGED <<fileVars, expired, signalled, runVars>>

\* Expose fails, or returns an exposure whose updates a goroutine writes.
Expose(p) ==
    /\ at(p, "expose")
    /\ \/ exit(p, status(p, FALSE)) /\ UNCHANGED stream
       \/ goto(p, "proxy") /\ stream' = [stream EXCEPT ![p] = "open"]
    /\ UNCHANGED <<fileVars, expired, signalled, sent, taken, written, result>>

\* A supervisor never waits for the reader: a full channel loses its oldest update
\* to the new one.  (UpdateStream has the three channel operations of the call.)
publishUpdate(p) ==
    /\ stream[p] = "open" /\ sent[p] < MaxUpdates /\ at(p, "proxy")
    /\ sent' = [sent EXCEPT ![p] = @ + 1]
    /\ taken' = [taken EXCEPT ![p] = IF sent[p] - @ = UpdateCap THEN @ + 1 ELSE @]
    /\ UNCHANGED <<fileVars, pc, args, id, expired, signalled, stream, written, result, code>>

\* The goroutine that ranges over Updates writes the oldest update on the stream.
writeRelayStatus(p) ==
    /\ taken[p] < sent[p] /\ pc[p] \in {"proxy", "wait"}
    /\ taken' = [taken EXCEPT ![p] = @ + 1]
    /\ written' = [written EXCEPT ![p] = taken[p] + 1]
    /\ UNCHANGED <<fileVars, pc, args, id, expired, signalled, stream, sent, result, code>>

\* ProxyWithConfig, or the end of ctx, closes the exposure and with it the stream.
closeExposure(p) ==
    /\ at(p, "proxy") /\ stream[p] = "open"
    /\ stream' = [stream EXCEPT ![p] = "closed"]
    /\ UNCHANGED <<fileVars, pc, args, id, expired, signalled, sent, taken, written, result, code>>

\* It returns only then: nil after cancellation, otherwise nil or an error.
ProxyWithConfig(p) ==
    /\ at(p, "proxy") /\ stream[p] = "closed"
    /\ \E r \in {"nil", "error"} :
          /\ signalled[p] => r = "nil"
          /\ result' = [result EXCEPT ![p] = r]
    /\ goto(p, "wait")
    /\ UNCHANGED <<fileVars, expired, signalled, stream, sent, taken, written>>

\* Mutant: the status is the proxy's result.
updatesWaitResult(p) ==
    /\ at(p, "wait") /\ taken[p] = sent[p]
    /\ exit(p, IF result[p] = "nil" THEN 0 ELSE 1)
    /\ UNCHANGED <<fileVars, expired, signalled, runVars>>

\* updates.Wait: the stream is closed and drained.
updatesWait(p) ==
    /\ at(p, "wait") /\ taken[p] = sent[p]
    /\ exit(p, status(p, result[p] = "nil"))
    /\ UNCHANGED <<fileVars, expired, signalled, runVars>>

----------------------------------------------------------------------------
\* SIGINT or SIGTERM cancels ctx at any time; before the identity is loaded nobody
\* looks at it.  (Bound: only runners are signalled.)
signal(p) ==
    /\ pc[p] \in {"start"} \cup Loading \cup Running /\ p \in setup.runners /\ ~signalled[p]
    /\ signalled' = [signalled EXCEPT ![p] = TRUE]
    /\ UNCHANGED <<fileVars, pc, args, id, expired, runVars, code>>

kill(p) ==
    /\ pc[p] \in Loading \/ (p \in setup.runners /\ pc[p] \in Running)
    /\ pc' = [pc EXCEPT ![p] = "killed"] /\ forget(p) /\ faulted' = TRUE
    /\ UNCHANGED <<setup, file, dirs, withdrawn, expired, signalled, runVars, code>>

load(p) ==
    \/ readIdentity(p) \/ ensureIdentityDirectory(p) \/ openFile(p)
    \/ raceRead(p) \/ raceCheck(p)
    \/ writeSome(p) \/ writeDone(p) \/ writeFails(p) \/ removeFile(p)

proceed(p) == checkContext(p) \/ Expose(p) \/ updatesWait(p)

Next == \E p \in Processes :
    \/ start(p) \/ load(p) \/ loadFails(p) \/ deadline(p)
    \/ proceed(p) \/ publishUpdate(p) \/ writeRelayStatus(p)
    \/ closeExposure(p) \/ ProxyWithConfig(p)
    \/ signal(p) \/ kill(p)

\* The process and its goroutine are scheduled, its output is read, the clock passes
\* the deadline, and cancellation closes the exposure and ends the proxy
\* (Proxy!CancelReturns).  A process that has been signalled has been started.
Fairness == \A p \in Processes :
    /\ WF_vars(load(p)) /\ WF_vars(deadline(p)) /\ WF_vars(proceed(p)) /\ WF_vars(writeRelayStatus(p))
    /\ WF_vars(signalled[p] /\ start(p))
    /\ WF_vars(signalled[p] /\ closeExposure(p)) /\ WF_vars(signalled[p] /\ ProxyWithConfig(p))

Spec == Init /\ [][Next]_vars /\ Fairness

----------------------------------------------------------------------------
(* Properties.                                                             *)

\* Types; the file is in its directory, an exit status is that of a process that has
\* exited, and the stream holds no more than its buffer.
TypeOK ==
    /\ file.by \in Processes \cup {"user", None} /\ file.stage \in {"absent", "empty", "partial", "full"}
    /\ dirs \in 0..Levels /\ (file # NoFile => dirs = Levels)
    /\ \A p \in Processes :
          /\ pc[p] \in Loading \cup Running \cup {"idle", "start", "exited", "killed"}
          /\ code[p] \in -1..2 /\ (code[p] # -1 <=> pc[p] = "exited")
          /\ written[p] \in 0..taken[p] /\ taken[p] \in 0..sent[p]
          /\ sent[p] <= MaxUpdates /\ sent[p] <= taken[p] + UpdateCap

\* Processes that share the file run under one identity, however their reads and
\* creations interleave, each under the name it asked for; the exception is an
\* identity whose creator could not complete the file and took it back.
SameIdentity ==
    \A p, q \in Processes :
        /\ pc[p] \in Running /\ ~args[p].ephemeral
        /\ pc[q] \in Running /\ ~args[q].ephemeral
        => /\ id[p] = id[q] \/ id[p] \in withdrawn \/ id[q] \in withdrawn
           /\ requested(p) \in {None, id[p].name}

\* An identity in the file is never overwritten: it stays, or its creator, which
\* has not used it, takes it back (docs/usage.md:199).
NeverOverwritten ==
    [][ parsed # NoIdentity =>
          \/ file' = file
          \/ file' = NoFile /\ parsed \in withdrawn /\ pc[file.by] = "remove" ]_vars

\* A file that no later process can read or replace is left behind only by a kill
\* or by a failed removal.
TornOnlyAfterFault ==
    file.by \in Processes /\ parsed = NoIdentity =>
        pc[file.by] \in {"write", "remove"} \/ faulted

\* Loading ends, also when the winner of a race was killed before it wrote.
LoadSettles ==
    \A p \in Processes : pc[p] \in Loading ~> pc[p] \notin Loading

\* A signal ends the process whenever it arrives.  One that finds the identity loaded
\* ends it with status 0 (docs/usage.md:197) and with the newest update written, even
\* if older ones were evicted.  A load that fails after the signal still decides the
\* status (main.go:153).
SignalExits ==
    \A p \in Processes :
        /\ signalled[p] ~> pc[p] \in {"killed", "exited"}
        /\ signalled[p] /\ pc[p] \in Running ~>
               \/ pc[p] = "killed"
               \/ pc[p] = "exited" /\ code[p] = 0 /\ written[p] = sent[p]
=============================================================================
