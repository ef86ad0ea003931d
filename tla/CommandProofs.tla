---------------------------- MODULE CommandProofs ----------------------------
(***************************************************************************)
(* Proofs about the processes of the command line tool that share one      *)
(* identity file, for every number of processes, every set of command      *)
(* lines and every document that the file may hold beforehand: they run    *)
(* under one identity, they never overwrite one, and they leave a torn     *)
(* file behind only after a kill or a failed removal.                      *)
(***************************************************************************)
EXTENDS Command, TLAPS

Labels == Loading \cup Running \cup {"idle", "start", "exited", "killed"}

----------------------------------------------------------------------------
(* The inductive invariant.                                                *)

\* What the process itself keeps: a status only after its exit, a stream no longer
\* than its buffer, and nothing written that has not been taken from the stream.
StatusInv ==
    /\ pc \in [Processes -> Labels]
    /\ code \in [Processes -> -1..2]
    /\ sent \in [Processes -> 0..MaxUpdates] /\ taken \in [Processes -> 0..MaxUpdates]
    /\ written \in [Processes -> 0..MaxUpdates]
    /\ \A p \in Processes :
          /\ code[p] # -1 <=> pc[p] = "exited"
          /\ written[p] <= taken[p] /\ taken[p] <= sent[p] /\ sent[p] <= taken[p] + UpdateCap
          /\ taken[p] = sent[p] => written[p] = sent[p]

\* The file is absent, or has a writer and a stage, and is then in its directory.
FileInv ==
    /\ file = File(file.by, file.stage, file.doc)
    /\ file.by \in Processes \cup {"user", None} /\ file.stage \in {"absent", "empty", "partial", "full"}
    /\ file.stage = "absent" => file = NoFile
    /\ dirs \in 0..Levels /\ (file # NoFile => dirs = Levels)

\* A process that loads holds, after its first read, the identity it generated
\* under the name it was asked for, and no directory it passed is missing.
Loads(p) ==
    /\ pc[p] \in Loading => requested(p) # BadName
    /\ pc[p] \in Loading \ {"read"} => id[p] = generated(p, requested(p))
    /\ pc[p] \in Loading \ {"read", "dir"} => dirs = Levels

\* The process that writes or removes the file is the one that created it, so
\* there is one at most.
Writes(p) ==
    /\ pc[p] \in {"write", "remove"} => file # NoFile /\ file.by = p /\ file.doc = Document(id[p])
    /\ pc[p] = "remove" => id[p] \in withdrawn

\* The identity of a running process is in the file, or was taken back.
Runs(p) ==
    pc[p] \in Running /\ ~args[p].ephemeral =>
        /\ id[p] # NoIdentity /\ requested(p) \in {None, id[p].name}
        /\ id[p] \in withdrawn \/ parsed = id[p]

\* A file that its creator no longer looks after is complete.
Complete ==
    file.by \in Processes =>
        pc[file.by] \in {"write", "remove"} \/ faulted \/ parsed # NoIdentity

LoadInv ==
    /\ pc \in [Processes -> Labels]
    /\ DOMAIN id = Processes /\ DOMAIN args = Processes
    /\ FileInv
    /\ \A p \in Processes : Loads(p) /\ Writes(p) /\ Runs(p)
    /\ Complete

----------------------------------------------------------------------------
(* Identities and documents.                                               *)

\* What MarshalJSON writes of an identity with a name and a key, ParseIdentity
\* reads back.
LEMMA RoundTrip ==
    ASSUME NEW n, NEW k, n # BadName, k # None
    PROVE  ParseIdentity(Document(Identity(n, k))) = Identity(n, k)
BY DEF ParseIdentity, Document, Identity, normalizeIdentityName, GoodForms

\* The identity a process generates has a name and a key, the name it was asked
\* for, and survives the file.
LEMMA GeneratedReadsBack ==
    ASSUME NEW p \in Processes, requested(p) # BadName
    PROVE  /\ generated(p, requested(p)) # NoIdentity
           /\ requested(p) \in {None, generated(p, requested(p)).name}
           /\ ParseIdentity(Document(generated(p, requested(p)))) = generated(p, requested(p))
<1>1. p # None /\ p # BadName
  BY IdentityAssumption
<1>2. generated(p, requested(p)) # NoIdentity /\ requested(p) \in {None, generated(p, requested(p)).name}
  BY <1>1 DEF generated, Identity, NoIdentity
<1>3. ParseIdentity(Document(generated(p, requested(p)))) = generated(p, requested(p))
  <2>1. CASE requested(p) = None
    BY <1>1, <2>1, RoundTrip DEF generated
  <2>2. CASE requested(p) # None
    BY <1>1, <2>2, RoundTrip DEF generated
  <2> QED
    BY <2>1, <2>2
<1> QED
  BY <1>2, <1>3

\* A file from which an identity can be read is complete, and there.
LEMMA ParsedIsFull ==
    ASSUME parsed # NoIdentity
    PROVE  file.stage = "full" /\ file # NoFile /\ parsed = ParseIdentity(file.doc)
BY DEF parsed, NoFile, File

----------------------------------------------------------------------------
(* Exit statuses and updates.                                              *)

\* No process has ended, and nothing has been sent.
LEMMA StatusInitially == Init => StatusInv
<1> SUFFICES ASSUME Init PROVE StatusInv
  OBVIOUS
<1>1. pc \in [Processes -> Labels] /\ \A p \in Processes : pc[p] # "exited"
  BY DEF Init, Labels
<1>2. /\ code = [p \in Processes |-> -1] /\ sent = [p \in Processes |-> 0]
      /\ taken = [p \in Processes |-> 0] /\ written = [p \in Processes |-> 0]
  BY DEF Init
<1> QED
  BY <1>1, <1>2, CommandAssumption DEF StatusInv

LEMMA StatusKept == StatusInv /\ [Next]_vars => StatusInv'
<1> SUFFICES ASSUME StatusInv, [Next]_vars PROVE StatusInv'
  OBVIOUS
<1> USE CommandAssumption
<1>1. ASSUME NEW p \in Processes, NEW n \in 0..2, exit(p, n), UNCHANGED <<sent, taken, written>>
      PROVE  StatusInv'
  BY <1>1 DEF StatusInv, exit, Labels
<1>2. ASSUME NEW p \in Processes, NEW l \in Labels \ {"exited"}, pc[p] # "exited",
             pc' = [pc EXCEPT ![p] = l], UNCHANGED <<code, sent, taken, written>>
      PROVE  StatusInv'
  BY <1>2 DEF StatusInv
<1>3. ASSUME UNCHANGED <<pc, code, sent, taken, written>>
      PROVE  StatusInv'
  BY <1>3 DEF StatusInv
<1>4. CASE UNCHANGED vars
  BY <1>3, <1>4 DEF vars, runVars
<1>5. ASSUME NEW p \in Processes, start(p) \/ load(p) \/ loadFails(p) \/ deadline(p)
      PROVE  StatusInv'
  <2>1. CASE start(p)
    <3>1. UNCHANGED <<sent, taken, written>> /\ at(p, "start")
      BY <2>1 DEF start, runVars
    <3>2. exit(p, 0) \/ exit(p, 1) \/ exit(p, 2)
          \/ \E i : hold(p, i, "loaded") \/ hold(p, i, "read")
      BY <2>1 DEF start
    <3> QED
      BY <1>1, <1>2, <3>1, <3>2 DEF hold, at, Labels, Loading, Running
  <2>2. CASE readIdentity(p) \/ raceRead(p)
    <3>1. UNCHANGED <<sent, taken, written>> /\ pc[p] \in {"read", "race"}
      BY <2>2 DEF readIdentity, raceRead, at, runVars
    <3>2. exit(p, 1) \/ exit(p, 2) \/ goto(p, "create") \/ goto(p, "raceCheck")
          \/ \E i : hold(p, i, "loaded") \/ hold(p, i, "dir")
      BY <2>2 DEF readIdentity, raceRead, useFile
    <3> QED
      BY <1>1, <1>2, <3>1, <3>2 DEF hold, goto, Labels, Loading, Running
  <2>3. CASE ensureIdentityDirectory(p)
    BY <1>2, <1>3, <2>3 DEF ensureIdentityDirectory, at, goto, runVars, Labels, Loading
  <2>4. CASE openFile(p)
    BY <1>2, <2>4 DEF openFile, at, goto, runVars, Labels, Loading
  <2>5. CASE raceCheck(p)
    BY <1>1, <1>2, <2>5 DEF raceCheck, at, goto, runVars, Labels, Loading
  <2>6. CASE writeSome(p) \/ deadline(p)
    BY <1>3, <2>6 DEF writeSome, deadline, runVars
  <2>7. CASE writeDone(p) \/ writeFails(p)
    BY <1>2, <2>7 DEF writeDone, writeFails, at, goto, runVars, Labels, Loading, Running
  <2>8. CASE removeFile(p) \/ loadFails(p)
    BY <1>1, <2>8 DEF removeFile, loadFails, runVars
  <2> QED
    BY <1>5, <2>1, <2>2, <2>3, <2>4, <2>5, <2>6, <2>7, <2>8 DEF load
<1>6. ASSUME NEW p \in Processes, proceed(p) \/ closeExposure(p) \/ ProxyWithConfig(p) \/ signal(p) \/ kill(p)
      PROVE  StatusInv'
  <2>1. CASE checkContext(p)
    BY <1>1, <1>2, <2>1 DEF checkContext, at, goto, runVars, Labels, Running
  <2>2. CASE Expose(p)
    <3>1. status(p, FALSE) \in 0..2
      BY DEF status
    <3> QED
      BY <1>1, <1>2, <2>2, <3>1 DEF Expose, at, goto, Labels, Running
  <2>3. CASE updatesWait(p)
    <3>1. status(p, result[p] = "nil") \in 0..2
      BY DEF status
    <3> QED
      BY <1>1, <2>3, <3>1 DEF updatesWait, runVars
  <2>4. CASE closeExposure(p) \/ signal(p)
    BY <1>3, <2>4 DEF closeExposure, signal, runVars
  <2>5. CASE ProxyWithConfig(p)
    BY <1>2, <2>5 DEF ProxyWithConfig, at, goto, Labels, Running
  <2>6. CASE kill(p)
    BY <1>2, <2>6 DEF kill, runVars, Labels, Loading, Running
  <2> QED
    BY <1>6, <2>1, <2>2, <2>3, <2>4, <2>5, <2>6 DEF proceed
<1>7. ASSUME NEW p \in Processes, publishUpdate(p) \/ writeRelayStatus(p)
      PROVE  StatusInv'
  <2>1. UNCHANGED <<pc, code>> /\ p \in Processes
    BY <1>7 DEF publishUpdate, writeRelayStatus
  <2>2. CASE publishUpdate(p)
    BY <2>1, <2>2 DEF publishUpdate, StatusInv
  <2>3. CASE writeRelayStatus(p)
    BY <2>1, <2>3 DEF writeRelayStatus, StatusInv
  <2> QED
    BY <1>7, <2>2, <2>3
<1> QED
  BY <1>4, <1>5, <1>6, <1>7 DEF Next

----------------------------------------------------------------------------
(* Loading.                                                                *)

LEMMA LoadInitially == Init => LoadInv
<1> SUFFICES ASSUME Init PROVE LoadInv
  OBVIOUS
<1>1. /\ pc \in [Processes -> Labels] /\ \A p \in Processes : pc[p] \in {"start", "idle"}
      /\ DOMAIN id = Processes /\ DOMAIN args = Processes
  BY DEF Init, Labels
<1>2. FileInv /\ file.by \notin Processes
  <2>1. dirs \in 0..Levels /\ (file # NoFile => dirs = Levels)
    BY DEF Init
  <2>2. CASE file = NoFile
    BY <2>1, <2>2, IdentityAssumption DEF FileInv, NoFile, File
  <2>3. CASE \E d \in Existing : file = File("user", "full", d)
    BY <2>1, <2>3, IdentityAssumption DEF FileInv, File
  <2> QED
    BY <2>2, <2>3 DEF Init
<1>3. ASSUME NEW p \in Processes PROVE Loads(p) /\ Writes(p) /\ Runs(p)
  BY <1>1 DEF Loads, Writes, Runs, Loading, Running
<1> QED
  BY <1>1, <1>2, <1>3 DEF LoadInv, Complete

\* Only p's position, identity and arguments change.
Others(p) ==
    /\ pc' \in [Processes -> Labels] /\ DOMAIN id' = Processes /\ DOMAIN args' = Processes
    /\ \A q \in Processes \ {p} : pc'[q] = pc[q] /\ id'[q] = id[q] /\ args'[q] = args[q]

\* A step of p that leaves the file as it is keeps the invariant if p does, and
\* does not abandon a file that is not complete.
LEMMA FileLeft ==
    ASSUME LoadInv, NEW p \in Processes, Others(p), UNCHANGED file,
           withdrawn \subseteq withdrawn', faulted => faulted',
           dirs' \in 0..Levels /\ (dirs = Levels => dirs' = Levels),
           Loads(p)', Writes(p)', Runs(p)',
           pc[p] \in {"write", "remove"} /\ pc'[p] \notin {"write", "remove"} =>
               faulted' \/ parsed # NoIdentity
    PROVE  LoadInv'
<1>1. ASSUME NEW q \in Processes \ {p} PROVE Loads(q)' /\ Writes(q)' /\ Runs(q)'
  <2>1. pc'[q] = pc[q] /\ id'[q] = id[q] /\ args'[q] = args[q] /\ requested(q)' = requested(q)
    BY <1>1 DEF Others, requested
  <2>2. Loads(q) /\ Writes(q) /\ Runs(q) /\ q \in Processes
    BY <1>1 DEF LoadInv
  <2>3. Loads(q)'
    BY <2>1, <2>2 DEF Loads
  <2>4. Writes(q)'
    BY <2>1, <2>2 DEF Writes
  <2>5. Runs(q)'
    BY <2>1, <2>2 DEF Runs, parsed
  <2> QED
    BY <2>3, <2>4, <2>5
<1>2. FileInv'
  BY DEF LoadInv, FileInv
<1>3. Complete'
  <2>1. parsed' = parsed
    BY DEF parsed
  <2>2. CASE file.by = p
    BY <2>1, <2>2 DEF LoadInv, Complete
  <2>3. CASE file.by # p
    BY <2>1, <2>3 DEF LoadInv, Complete, Others
  <2> QED
    BY <2>2, <2>3
<1> QED
  BY <1>1, <1>2, <1>3 DEF LoadInv, Others

\* The same for a process that ends, or that only moves on.
LEMMA Ending ==
    ASSUME LoadInv, NEW p \in Processes, NEW l \in {"exited", "killed"},
           pc' = [pc EXCEPT ![p] = l], forget(p), UNCHANGED <<file, dirs, withdrawn>>,
           faulted => faulted', pc[p] \in {"write", "remove"} => faulted'
    PROVE  LoadInv'
<1>1. Others(p) /\ pc'[p] = l
  BY DEF Others, LoadInv, forget, Labels
<1>2. Loads(p)' /\ Writes(p)' /\ Runs(p)'
  BY <1>1 DEF Loads, Writes, Runs, Loading, Running
<1>3. dirs \in 0..Levels
  BY DEF LoadInv, FileInv
<1> QED
  BY <1>1, <1>2, <1>3, FileLeft

LEMMA Moving ==
    ASSUME LoadInv, NEW p \in Processes, NEW l \in Labels, goto(p, l),
           UNCHANGED <<file, withdrawn, faulted>>,
           dirs' \in 0..Levels /\ (dirs = Levels => dirs' = Levels),
           Loads(p)', Writes(p)', Runs(p)',
           pc[p] \in {"write", "remove"} => l \in {"write", "remove"} \/ parsed # NoIdentity
    PROVE  LoadInv'
<1>1. Others(p) /\ pc'[p] = l
  BY DEF Others, LoadInv, goto
<1> QED
  BY <1>1, FileLeft

\* useFile: the identity read from the file is in the file.
LEMMA Using ==
    ASSUME LoadInv, NEW p \in Processes, useFile(p), pc[p] \in {"read", "race"}, UNCHANGED fileVars
    PROVE  LoadInv'
<1> USE DEF fileVars
<1>1. CASE exit(p, 2)
  BY <1>1, Ending DEF exit
<1>2. CASE nameMatches(p) /\ hold(p, parsed, "loaded") /\ UNCHANGED args
  <2>1. Others(p) /\ pc'[p] = "loaded" /\ id'[p] = parsed /\ requested(p)' = requested(p) /\ parsed' = parsed
    BY <1>2 DEF Others, LoadInv, hold, Labels, Running, requested, parsed
  <2>2. parsed # NoIdentity /\ requested(p) \in {None, parsed.name}
    BY <1>2 DEF useFile, nameMatches
  <2>3. Loads(p)' /\ Writes(p)'
    BY <2>1 DEF Loads, Writes, Loading
  <2>4. Runs(p)'
    BY <2>1, <2>2 DEF Runs
  <2>5. dirs \in 0..Levels
    BY DEF LoadInv, FileInv
  <2> QED
    BY <2>1, <2>3, <2>4, <2>5, FileLeft
<1> QED
  BY <1>1, <1>2 DEF useFile

\* Every step of loading keeps the invariant.
LEMMA LoadingKept ==
    ASSUME LoadInv, NEW p \in Processes, start(p) \/ load(p) \/ loadFails(p) \/ deadline(p)
    PROVE  LoadInv'
<1> USE DEF fileVars
<1>0. /\ Loads(p) /\ Writes(p) /\ Runs(p) /\ FileInv /\ dirs \in 0..Levels
      /\ pc \in [Processes -> Labels] /\ DOMAIN id = Processes /\ DOMAIN args = Processes
  BY DEF LoadInv, FileInv
<1>1. CASE start(p)
  <2>1. pc[p] = "start" /\ UNCHANGED fileVars
    BY <1>1 DEF start, at
  <2>2. CASE exit(p, 0) \/ exit(p, 1) \/ exit(p, 2)
    BY <2>1, <2>2, Ending DEF exit
  <2>3. ASSUME NEW a \in Args, a.kind # "help" /\ ~Refused(a), args' = [args EXCEPT ![p] = a],
               NEW i, NEW l \in {"read", "loaded"}, hold(p, i, l), a.ephemeral => l = "loaded",
               ~a.ephemeral => l = "read"
        PROVE  LoadInv'
    <3>1. Others(p) /\ pc'[p] = l /\ args'[p] = a
      BY <1>0, <2>3 DEF Others, hold, Labels, Loading, Running
    <3>2. requested(p)' # BadName
      BY <2>3, <3>1 DEF Refused, requested
    <3>3. Loads(p)' /\ Writes(p)' /\ Runs(p)'
      BY <2>3, <3>1, <3>2 DEF Loads, Writes, Runs, Loading, Running
    <3> QED
      BY <1>0, <2>1, <3>1, <3>3, FileLeft
  <2>4. \/ exit(p, 0) \/ exit(p, 1) \/ exit(p, 2)
        \/ \E a \in Args :
              /\ a.kind # "help" /\ ~Refused(a) /\ args' = [args EXCEPT ![p] = a]
              /\ \/ a.ephemeral /\ hold(p, generated(p, normalizeRequestedIdentityName(a.name)), "loaded")
                 \/ ~a.ephemeral /\ hold(p, NoIdentity, "read")
    BY <1>1 DEF start
  <2> QED
    BY <2>2, <2>3, <2>4
<1>2. CASE readIdentity(p)
  <2>1. pc[p] = "read" /\ UNCHANGED fileVars
    BY <1>2 DEF readIdentity, at
  <2>2. CASE hold(p, generated(p, requested(p)), "dir") /\ UNCHANGED args
    <3>1. Others(p) /\ pc'[p] = "dir" /\ requested(p)' = requested(p) /\ id'[p] = generated(p, requested(p))
      BY <1>0, <2>2 DEF Others, hold, Labels, Loading, requested
    <3>2. Loads(p)' /\ Writes(p)' /\ Runs(p)'
      BY <1>0, <2>1, <3>1 DEF Loads, Writes, Runs, Loading, Running, generated
    <3> QED
      BY <1>0, <2>1, <3>1, <3>2, FileLeft
  <2>3. CASE exit(p, 1)
    BY <2>1, <2>3, Ending DEF exit
  <2> QED
    BY <1>2, <2>1, <2>2, <2>3, Using DEF readIdentity
<1>3. CASE ensureIdentityDirectory(p)
  <2>1. pc[p] = "dir" /\ UNCHANGED <<file, withdrawn, faulted>>
    BY <1>3 DEF ensureIdentityDirectory, at
  <2>2. CASE dirs < Levels /\ dirs' = dirs + 1 /\ UNCHANGED <<pc, args, id, code>>
    <3>1. Others(p) /\ dirs' \in 0..Levels /\ requested(p)' = requested(p)
      BY <1>0, <2>2, CommandAssumption DEF Others, requested
    <3>2. Loads(p)' /\ Writes(p)' /\ Runs(p)'
      BY <1>0, <2>1, <2>2, <3>1 DEF Loads, Writes, Runs, Loading, Running, generated
    <3> QED
      BY <1>0, <2>1, <2>2, <3>1, <3>2, FileLeft, CommandAssumption
  <2>3. CASE dirs = Levels /\ goto(p, "create") /\ UNCHANGED dirs
    <3>1. /\ pc'[p] = "create" /\ id'[p] = id[p] /\ "create" \in Labels
          /\ requested(p)' = requested(p)
      BY <1>0, <2>3 DEF goto, Labels, Loading, requested
    <3>2. Loads(p)' /\ Writes(p)' /\ Runs(p)'
      BY <1>0, <2>1, <2>3, <3>1 DEF Loads, Writes, Runs, Loading, Running, generated
    <3> QED
      BY <1>0, <2>1, <2>3, <3>1, <3>2, Moving
  <2> QED
    BY <1>3, <2>2, <2>3 DEF ensureIdentityDirectory
<1>4. CASE openFile(p)
  <2>1. pc[p] = "create" /\ UNCHANGED <<dirs, withdrawn, faulted>>
    BY <1>4 DEF openFile, at
  <2>2. CASE file = NoFile /\ file' = File(p, "empty", Document(id[p])) /\ goto(p, "write")
    <3>1. /\ Others(p) /\ pc'[p] = "write" /\ id'[p] = id[p] /\ requested(p)' = requested(p)
          /\ parsed = NoIdentity
      BY <1>0, <2>2 DEF Others, goto, Labels, Loading, requested, parsed, NoFile, File
    <3>2. file' # NoFile /\ file'.by = p /\ file'.doc = Document(id[p]) /\ file'.stage = "empty"
      BY <2>2, IdentityAssumption DEF NoFile, File
    <3>3. FileInv'
      BY <1>0, <2>1, <2>2, <3>2 DEF FileInv, File, Loads, Loading
    <3>4. Loads(p)' /\ Writes(p)' /\ Runs(p)'
      BY <1>0, <2>1, <3>1, <3>2 DEF Loads, Writes, Runs, Loading, Running, generated
    <3>5. ASSUME NEW q \in Processes \ {p} PROVE Loads(q)' /\ Writes(q)' /\ Runs(q)'
      <4>1. pc'[q] = pc[q] /\ id'[q] = id[q] /\ args'[q] = args[q] /\ requested(q)' = requested(q)
        BY <3>1, <3>5 DEF Others, requested
      <4>2. Loads(q) /\ Writes(q) /\ Runs(q) /\ q \in Processes
        BY <3>5 DEF LoadInv
      <4>3. Loads(q)'
        BY <2>1, <4>1, <4>2 DEF Loads
      <4>4. Writes(q)'
        BY <2>2, <4>1, <4>2 DEF Writes
      <4>5. Runs(q)'
        BY <2>1, <3>1, <4>1, <4>2 DEF Runs
      <4> QED
        BY <4>3, <4>4, <4>5
    <3> QED
      BY <3>1, <3>2, <3>3, <3>4, <3>5 DEF LoadInv, Others, Complete
  <2>3. CASE goto(p, "race") /\ UNCHANGED file
    <3>1. /\ pc'[p] = "race" /\ id'[p] = id[p] /\ "race" \in Labels
          /\ requested(p)' = requested(p)
      BY <1>0, <2>3 DEF goto, Labels, Loading, requested
    <3>2. Loads(p)' /\ Writes(p)' /\ Runs(p)'
      BY <1>0, <2>1, <3>1 DEF Loads, Writes, Runs, Loading, Running, generated
    <3> QED
      BY <1>0, <2>1, <2>3, <3>1, <3>2, Moving
  <2> QED
    BY <1>4, <2>2, <2>3 DEF openFile
<1>5. CASE raceRead(p)
  <2>1. pc[p] = "race" /\ UNCHANGED fileVars
    BY <1>5 DEF raceRead, at
  <2>2. ASSUME NEW l \in {"create", "raceCheck"}, goto(p, l) PROVE LoadInv'
    <3>1. pc'[p] = l /\ id'[p] = id[p] /\ l \in Labels /\ requested(p)' = requested(p)
      BY <1>0, <2>2 DEF goto, Labels, Loading, requested
    <3>2. Loads(p)' /\ Writes(p)' /\ Runs(p)'
      BY <1>0, <2>1, <3>1 DEF Loads, Writes, Runs, Loading, Running, generated
    <3> QED
      BY <1>0, <2>1, <2>2, <3>1, <3>2, Moving
  <2> QED
    BY <1>5, <2>1, <2>2, Using DEF raceRead
<1>6. CASE raceCheck(p)
  <2>1. pc[p] = "raceCheck" /\ UNCHANGED fileVars
    BY <1>6 DEF raceCheck, at
  <2>2. CASE goto(p, "race")
    <3>1. pc'[p] = "race" /\ id'[p] = id[p] /\ "race" \in Labels /\ requested(p)' = requested(p)
      BY <1>0, <2>2 DEF goto, Labels, Loading, requested
    <3>2. Loads(p)' /\ Writes(p)' /\ Runs(p)'
      BY <1>0, <2>1, <3>1 DEF Loads, Writes, Runs, Loading, Running, generated
    <3> QED
      BY <1>0, <2>1, <2>2, <3>1, <3>2, Moving
  <2>3. CASE exit(p, 1)
    BY <2>1, <2>3, Ending DEF exit
  <2> QED
    BY <1>6, <2>2, <2>3 DEF raceCheck
<1>7. CASE deadline(p)
  <2>1. UNCHANGED <<file, dirs, withdrawn, faulted, pc, args, id>>
    BY <1>7 DEF deadline
  <2>2. Others(p)
    BY <1>0, <2>1 DEF Others
  <2>3. Loads(p)' /\ Writes(p)' /\ Runs(p)'
    BY <1>0, <2>1 DEF Loads, Writes, Runs, requested, generated, parsed
  <2> QED
    BY <1>0, <2>1, <2>2, <2>3, FileLeft
<1>8. CASE writeSome(p)
  <2>1. /\ pc[p] = "write" /\ file.stage # "full" /\ UNCHANGED <<dirs, withdrawn, faulted, pc, args, id>>
        /\ file' = [file EXCEPT !.stage = IF @ = "empty" THEN "partial" ELSE "full"]
    BY <1>8 DEF writeSome, at
  <2>2. parsed = NoIdentity /\ file # NoFile /\ file.by = p
    BY <1>0, <2>1 DEF parsed, Writes
  <2>3. /\ file' = File(p, file'.stage, file.doc) /\ file'.stage \in {"partial", "full"}
        /\ file'.by = p /\ file'.doc = file.doc
    BY <1>0, <2>1, <2>2 DEF FileInv, File
  <2>4. file' # NoFile
    BY <2>3 DEF NoFile, File
  <2>5. FileInv'
    BY <1>0, <2>1, <2>2, <2>3 DEF FileInv
  <2>6. ASSUME NEW q \in Processes PROVE Loads(q)' /\ Writes(q)' /\ Runs(q)'
    <3>1. Loads(q) /\ Writes(q) /\ Runs(q)
      BY <2>6 DEF LoadInv
    <3>2. Loads(q)'
      BY <2>1, <3>1 DEF Loads, requested, generated
    <3>3. Writes(q)'
      BY <2>1, <2>2, <2>3, <2>4, <3>1 DEF Writes
    <3>4. Runs(q)'
      BY <2>1, <2>2, <3>1 DEF Runs, requested
    <3> QED
      BY <3>2, <3>3, <3>4
  <2>7. Complete'
    BY <2>1, <2>3 DEF Complete
  <2> QED
    BY <1>0, <2>1, <2>5, <2>6, <2>7 DEF LoadInv
<1>9. CASE writeDone(p)
  <2>1. pc[p] = "write" /\ file.stage = "full" /\ goto(p, "loaded") /\ UNCHANGED fileVars
    BY <1>9 DEF writeDone, at
  <2>2. id[p] # NoIdentity /\ requested(p) \in {None, id[p].name} /\ parsed = id[p]
    BY <1>0, <2>1, GeneratedReadsBack DEF Loads, Writes, parsed, Loading
  <2>3. /\ pc'[p] = "loaded" /\ id'[p] = id[p] /\ "loaded" \in Labels
        /\ requested(p)' = requested(p) /\ parsed' = parsed
    BY <1>0, <2>1 DEF goto, Labels, Running, requested, parsed
  <2>4. Loads(p)' /\ Writes(p)' /\ Runs(p)'
    BY <2>2, <2>3 DEF Loads, Writes, Runs, Loading
  <2> QED
    BY <1>0, <2>1, <2>2, <2>3, <2>4, Moving
<1>10. CASE writeFails(p)
  <2>1. /\ pc[p] = "write" /\ goto(p, "remove") /\ UNCHANGED <<file, dirs, faulted>>
        /\ withdrawn' = withdrawn \cup {id[p]}
    BY <1>10 DEF writeFails, at
  <2>2. Others(p) /\ pc'[p] = "remove" /\ id'[p] = id[p] /\ requested(p)' = requested(p)
    BY <1>0, <2>1 DEF Others, goto, Labels, Loading, requested
  <2>3. Loads(p)' /\ Writes(p)' /\ Runs(p)'
    BY <1>0, <2>1, <2>2 DEF Loads, Writes, Runs, Loading, Running, generated
  <2> QED
    BY <1>0, <2>1, <2>2, <2>3, FileLeft
<1>11. CASE removeFile(p)
  <2>1. pc[p] = "remove" /\ exit(p, 1) /\ UNCHANGED <<dirs, withdrawn>>
    BY <1>11 DEF removeFile, at
  <2>2. CASE faulted' = TRUE /\ UNCHANGED file
    BY <2>1, <2>2, Ending DEF exit
  <2>3. CASE file' = NoFile /\ UNCHANGED faulted
    <3>1. Others(p) /\ pc'[p] = "exited"
      BY <1>0, <2>1 DEF Others, exit, forget, Labels
    <3>2. file.by = p /\ file.doc = Document(id[p]) /\ id[p] \in withdrawn
      BY <1>0, <2>1 DEF Writes
    <3>3. parsed = NoIdentity \/ parsed \in withdrawn
      BY <1>0, <2>1, <3>2, GeneratedReadsBack DEF Loads, parsed, Loading
    <3>4. file'.by \notin Processes /\ FileInv'
      BY <1>0, <2>1, <2>3, IdentityAssumption DEF FileInv, NoFile, File
    <3>5. Loads(p)' /\ Writes(p)' /\ Runs(p)'
      BY <3>1 DEF Loads, Writes, Runs, Loading, Running
    <3>6. ASSUME NEW q \in Processes \ {p} PROVE Loads(q)' /\ Writes(q)' /\ Runs(q)'
      <4>1. pc'[q] = pc[q] /\ id'[q] = id[q] /\ args'[q] = args[q] /\ requested(q)' = requested(q)
        BY <3>1, <3>6 DEF Others, requested
      <4>2. Loads(q) /\ Writes(q) /\ Runs(q) /\ q \in Processes /\ q # p
        BY <3>6 DEF LoadInv
      <4>3. Loads(q)'
        BY <2>1, <4>1, <4>2 DEF Loads
      <4>4. Writes(q)'
        BY <3>2, <4>1, <4>2 DEF Writes
      <4>5. Runs(q)'
        BY <2>1, <3>3, <4>1, <4>2 DEF Runs
      <4> QED
        BY <4>3, <4>4, <4>5
    <3> QED
      BY <3>1, <3>4, <3>5, <3>6 DEF LoadInv, Others, Complete
  <2> QED
    BY <1>11, <2>2, <2>3 DEF removeFile
<1>12. CASE loadFails(p)
  <2>1. pc[p] \in {"read", "dir", "create", "race"} /\ exit(p, 1) /\ UNCHANGED fileVars
    BY <1>12 DEF loadFails
  <2> QED
    BY <2>1, Ending DEF exit
<1> QED
  BY <1>1, <1>2, <1>3, <1>4, <1>5, <1>6, <1>7, <1>8, <1>9, <1>10, <1>11, <1>12 DEF load

\* Every step of the run keeps the invariant: it uses the identity and leaves
\* the file alone.
LEMMA RunningKept ==
    ASSUME LoadInv, NEW p \in Processes,
           \/ proceed(p) \/ publishUpdate(p) \/ writeRelayStatus(p)
           \/ closeExposure(p) \/ ProxyWithConfig(p) \/ signal(p) \/ kill(p)
    PROVE  LoadInv'
<1> USE DEF fileVars
<1>0. /\ Loads(p) /\ Writes(p) /\ Runs(p) /\ dirs \in 0..Levels
      /\ pc \in [Processes -> Labels] /\ DOMAIN id = Processes /\ DOMAIN args = Processes
  BY DEF LoadInv, FileInv
<1>1. ASSUME pc[p] \in Running, NEW l \in Running, goto(p, l), UNCHANGED fileVars
      PROVE  LoadInv'
  <2>1. /\ pc'[p] = l /\ id'[p] = id[p] /\ args'[p] = args[p] /\ l \in Labels
        /\ requested(p)' = requested(p) /\ parsed' = parsed
    BY <1>0, <1>1 DEF goto, Labels, requested, parsed
  <2>2. Loads(p)' /\ Writes(p)' /\ Runs(p)'
    BY <1>0, <1>1, <2>1 DEF Loads, Writes, Runs, Loading, Running
  <2> QED
    BY <1>0, <1>1, <2>1, <2>2, Moving DEF Running
<1>2. ASSUME pc[p] \in Running, NEW n, exit(p, n), UNCHANGED fileVars
      PROVE  LoadInv'
  BY <1>2, Ending DEF exit, Running
<1>3. CASE checkContext(p) \/ Expose(p) \/ updatesWait(p) \/ ProxyWithConfig(p)
  <2>1. pc[p] \in Running /\ UNCHANGED fileVars
    BY <1>3 DEF checkContext, Expose, updatesWait, ProxyWithConfig, at, Running
  <2>2. \/ \E l \in Running : goto(p, l)
        \/ \E n : exit(p, n)
    BY <1>3 DEF checkContext, Expose, updatesWait, ProxyWithConfig, Running
  <2> QED
    BY <1>1, <1>2, <2>1, <2>2
<1>4. CASE publishUpdate(p) \/ writeRelayStatus(p) \/ closeExposure(p) \/ signal(p)
  <2>1. UNCHANGED <<file, dirs, withdrawn, faulted, pc, args, id>>
    BY <1>4 DEF publishUpdate, writeRelayStatus, closeExposure, signal
  <2>2. Others(p) /\ Loads(p)' /\ Writes(p)' /\ Runs(p)'
    BY <1>0, <2>1 DEF Others, Loads, Writes, Runs, requested, generated, parsed
  <2> QED
    BY <1>0, <2>1, <2>2, FileLeft
<1>5. CASE kill(p)
  BY <1>5, Ending DEF kill
<1> QED
  BY <1>3, <1>4, <1>5 DEF proceed

LEMMA LoadKept == LoadInv /\ [Next]_vars => LoadInv'
<1> SUFFICES ASSUME LoadInv, [Next]_vars PROVE LoadInv'
  OBVIOUS
<1>1. CASE UNCHANGED vars
  <2>1. UNCHANGED <<file, dirs, withdrawn, faulted, pc, args, id>>
    BY <1>1 DEF vars, fileVars
  <2>2. ASSUME NEW p \in Processes PROVE Loads(p)' /\ Writes(p)' /\ Runs(p)'
    BY <2>1, <2>2 DEF LoadInv, Loads, Writes, Runs, requested, generated, parsed
  <2> QED
    BY <2>1, <2>2 DEF LoadInv, FileInv, Complete, parsed
<1>2. CASE Next
  BY <1>2, LoadingKept, RunningKept DEF Next
<1> QED
  BY <1>1, <1>2

CommandInv == StatusInv /\ LoadInv

LEMMA CommandInvariant == Spec => []CommandInv
<1>1. Init => CommandInv
  BY StatusInitially, LoadInitially DEF CommandInv
<1>2. CommandInv /\ [Next]_vars => CommandInv'
  BY StatusKept, LoadKept DEF CommandInv
<1> QED
  BY <1>1, <1>2, PTL DEF Spec

----------------------------------------------------------------------------
(* Theorems.                                                               *)

\* Every state is well formed: a file is there only once all its directories
\* are, and exactly the processes that have exited have a status.
THEOREM CommandTypeCorrect == Spec => []TypeOK
<1>1. CommandInv => TypeOK
  BY CommandAssumption DEF CommandInv, StatusInv, LoadInv, FileInv, TypeOK, Labels
<1> QED
  BY <1>1, CommandInvariant, PTL

\* However many processes share the file, and however their reads, creations,
\* failures and kills interleave, loadOrCreateIdentityWith gives all of them one
\* identity, except one whose creator took it back, under the name each asked for.
THEOREM OneIdentity == Spec => []SameIdentity
<1>1. LoadInv => SameIdentity
  <2> SUFFICES ASSUME LoadInv, NEW p \in Processes, NEW q \in Processes,
                      pc[p] \in Running, ~args[p].ephemeral, pc[q] \in Running, ~args[q].ephemeral
               PROVE  /\ id[p] = id[q] \/ id[p] \in withdrawn \/ id[q] \in withdrawn
                      /\ requested(p) \in {None, id[p].name}
    BY DEF SameIdentity
  <2> QED
    BY DEF LoadInv, Runs
<1> QED
  BY <1>1, CommandInvariant, PTL DEF CommandInv

\* A file that can be neither read nor replaced by later processes is the work
\* of a kill or of a failed removal, never of a race or of a failed write.
THEOREM TornFilesExplained == Spec => []TornOnlyAfterFault
<1>1. LoadInv => TornOnlyAfterFault
  BY DEF LoadInv, Complete, TornOnlyAfterFault
<1> QED
  BY <1>1, CommandInvariant, PTL DEF CommandInv

\* O_EXCL, and the removal by the creator alone, keep every identity that is in
\* the file until its creator takes it back.
THEOREM IdentityKept == Spec => NeverOverwritten
<1>1. ASSUME LoadInv, [Next]_vars, parsed # NoIdentity, file' # file
      PROVE  file' = NoFile /\ parsed \in withdrawn /\ pc[file.by] = "remove"
  <2>1. file.stage = "full" /\ file # NoFile
    BY <1>1, ParsedIsFull
  <2>2. PICK p \in Processes : openFile(p) \/ writeSome(p) \/ removeFile(p)
    <3>1. ASSUME UNCHANGED fileVars PROVE FALSE
      BY <1>1, <3>1 DEF fileVars
    <3>2. PICK p \in Processes :
             \/ start(p) \/ load(p) \/ loadFails(p) \/ deadline(p)
             \/ proceed(p) \/ publishUpdate(p) \/ writeRelayStatus(p)
             \/ closeExposure(p) \/ ProxyWithConfig(p)
             \/ signal(p) \/ kill(p)
      BY <1>1, <3>1 DEF Next, vars
    <3>3. ~start(p) /\ ~loadFails(p) /\ ~deadline(p) /\ ~publishUpdate(p) /\ ~writeRelayStatus(p)
      BY <3>1 DEF start, loadFails, deadline, publishUpdate, writeRelayStatus
    <3>4. ~closeExposure(p) /\ ~ProxyWithConfig(p) /\ ~signal(p) /\ ~proceed(p)
      BY <3>1 DEF closeExposure, ProxyWithConfig, signal, proceed, checkContext, Expose, updatesWait
    <3>5. ~kill(p) /\ ~ensureIdentityDirectory(p) /\ ~writeFails(p)
      BY <1>1 DEF kill, ensureIdentityDirectory, writeFails
    <3>6. ~readIdentity(p) /\ ~raceRead(p) /\ ~raceCheck(p) /\ ~writeDone(p)
      BY <3>1 DEF readIdentity, raceRead, raceCheck, writeDone
    <3> QED
      BY <3>2, <3>3, <3>4, <3>5, <3>6 DEF load
  <2>3. removeFile(p)
    BY <1>1, <2>1, <2>2 DEF openFile, writeSome
  <2>4. pc[p] = "remove" /\ file' = NoFile
    BY <1>1, <2>3 DEF removeFile, at
  <2>5. Loads(p) /\ Writes(p)
    BY <1>1 DEF LoadInv
  <2> QED
    BY <2>1, <2>4, <2>5, GeneratedReadsBack DEF Loads, Writes, Loading, parsed
<1>2. LoadInv /\ [Next]_vars => [parsed # NoIdentity =>
                                     \/ file' = file
                                     \/ file' = NoFile /\ parsed \in withdrawn /\ pc[file.by] = "remove"]_vars
  BY <1>1
<1> QED
  BY <1>2, CommandInvariant, PTL DEF CommandInv, Spec, NeverOverwritten

\* A reader that catches up with the stream has written the newest update, whatever
\* publishUpdate evicted and whatever the size of the buffer; updatesWait, which ends
\* the process, waits for exactly that.
THEOREM NewestUpdateWritten ==
    Spec => [](\A p \in Processes : taken[p] = sent[p] => written[p] = sent[p])
<1>1. StatusInv => \A p \in Processes : taken[p] = sent[p] => written[p] = sent[p]
  BY DEF StatusInv
<1> QED
  BY <1>1, CommandInvariant, PTL DEF CommandInv

=============================================================================
