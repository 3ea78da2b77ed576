----------------------------- MODULE Deployment -----------------------------
(***************************************************************************)
(* How spt-txn-init puts a deployment on disk (cmd/spt-txn-init/main.go,   *)
(* generator.run, cleanupOnSignal, populate, write): every file is staged  *)
(* in a temporary sibling, the issuer key is hard-linked beside the output *)
(* path and the directory renamed into place.  Runs of the tool, their     *)
(* signal handlers and somebody else writing at the output path            *)
(* interleave at every system call.                                        *)
(*                                                                         *)
(* The configuration is one validate accepts (module DeployConfig).  A     *)
(* removal of the temporary directory takes one file per step, the newest  *)
(* first (a directory is listed in any order; this one keeps the keys      *)
(* longest), and does not fail.                                            *)
(***************************************************************************)
EXTENDS Integers, Sequences, FiniteSets, SequencesExt

CONSTANTS
  Runs,         \* executions of spt-txn-init with the same -out
  SelfIssued,   \* the runs without -tts-pub, which generate an issuer key
  MaxSignals,   \* bound: SIGINT, SIGTERM and SIGHUP delivered
  MaxKills,     \* bound: SIGKILL or power loss
  MaxOutside    \* bound: changes at the output path by others

ASSUME DeploymentAssumption ==
  /\ SelfIssued \subseteq Runs /\ "nobody" \notin Runs
  /\ {MaxSignals, MaxKills, MaxOutside} \subseteq Nat

\* populate's writes in order, for the mcp profile.  The registry body comes out of a scratch file
\* written and removed under the lock, and the manifest is written only once
\* the snapshot verifies.
published ==
  <<"issuer.pub", "log.key", "publication.key", "publication.pub", "registry.json",
    "registry.json.manifest.json", "policy.json", "run.sh", "mint.sh", "README.md">>

artifacts(r) ==
  IF r \in SelfIssued THEN <<"issuer.key">> \o published ELSE published

NoDir == [kind |-> "absent", run |-> "nobody", files |-> {}]
Dir(k) == [kind |-> k, run |-> "nobody", files |-> {}]
Placed(r, fs) == [kind |-> "deployment", run |-> r, files |-> fs]

VARIABLES
  out,        \* what is at the output path
  keyFile,    \* whose issuer key is at <out>-issuer.key ("nobody": no file)
  stray,      \* history: the runs that could not remove their key again
  tmpDir,     \* tmpDir[r]: the temporary directory exists
  tmp,        \* tmp[r]: the files in it
  pc,         \* pc[r]: the next step of run
  lock,       \* lock[r]: who holds g.mu
  notified,   \* notified[r]: signal.Notify is in force
  caught,     \* caught[r]: the handler goroutine has received a signal
  success,    \* success[r]: the success flag of run
  ended,      \* ended[r]: how the process ended
  signals, kills, outside

deployVars == <<out, keyFile, stray, tmpDir, tmp, pc, lock, notified, caught, success, ended,
                signals, kills, outside>>
faults == <<signals, kills, outside>>

Ends == {"running", "ok", "error", "interrupted", "signalled", "killed"}

DeployTypeOK ==
  /\ out.kind \in {"absent", "empty", "file", "full", "deployment"}
  /\ keyFile \in Runs \cup {"nobody"} /\ stray \subseteq SelfIssued
  /\ tmpDir \in [Runs -> BOOLEAN] /\ \A r \in Runs : tmp[r] \subseteq ToSet(artifacts(r))
  /\ lock \in [Runs -> {"free", "main", "handler"}]
  /\ notified \in [Runs -> BOOLEAN] /\ caught \in [Runs -> BOOLEAN]
  /\ success \in [Runs -> BOOLEAN] /\ ended \in [Runs -> Ends]

DeployInit ==
  /\ out \in {NoDir, Dir("empty")} /\ keyFile = "nobody" /\ stray = {}
  /\ tmpDir = [r \in Runs |-> FALSE] /\ tmp = [r \in Runs |-> {}]
  /\ pc = [r \in Runs |-> "check"] /\ lock = [r \in Runs |-> "free"]
  /\ notified = [r \in Runs |-> FALSE] /\ caught = [r \in Runs |-> FALSE]
  /\ success = [r \in Runs |-> FALSE] /\ ended = [r \in Runs |-> "running"]
  /\ signals = 0 /\ kills = 0 /\ outside = 0

\* A process that is gone holds nothing and does nothing.
dies(r, how) ==
  /\ ended' = [ended EXCEPT ![r] = how]
  /\ pc' = [pc EXCEPT ![r] = "gone"] /\ caught' = [caught EXCEPT ![r] = FALSE]
  /\ notified' = [notified EXCEPT ![r] = FALSE] /\ lock' = [lock EXCEPT ![r] = "free"]

at(r, where) == pc[r] = where /\ ended[r] = "running"
goes(r, where) == pc' = [pc EXCEPT ![r] = where]

\* checkOutDir: an absent path or an empty directory; nothing else.
checkOutDir(o) == o.kind \in {"absent", "empty"}

(***************************************************************************)
(* run(), up to the staged deployment.                                     *)
(***************************************************************************)
\* checkOutDir and Lstat of the issuer key path; a refusal writes nothing.
RunChecks(r) ==
  /\ at(r, "check")
  /\ IF checkOutDir(out) /\ (r \in SelfIssued => keyFile = "nobody")
     THEN goes(r, "mkdir") /\ UNCHANGED <<ended, caught, notified, lock>>
     ELSE dies(r, "error")
  /\ UNCHANGED <<out, keyFile, stray, tmpDir, tmp, success>> /\ UNCHANGED faults

\* MkdirTemp: the directory exists before cleanupOnSignal is called.
RunMakesTemp(r) ==
  /\ at(r, "mkdir")
  /\ tmpDir' = [tmpDir EXCEPT ![r] = TRUE]
  /\ goes(r, "arm")
  /\ UNCHANGED <<out, keyFile, stray, tmp, lock, notified, caught, success, ended>>
  /\ UNCHANGED faults

RunArms(r) ==
  /\ at(r, "arm")
  /\ notified' = [notified EXCEPT ![r] = TRUE]
  /\ goes(r, "populate")
  /\ UNCHANGED <<out, keyFile, stray, tmpDir, tmp, lock, caught, success, ended>>
  /\ UNCHANGED faults

\* One write under the lock; a failed one leaves what it created and unwinds.
RunWrites(r) ==
  /\ at(r, "populate") /\ lock[r] = "free"
  /\ Cardinality(tmp[r]) < Len(artifacts(r))
  /\ tmp' = [tmp EXCEPT ![r] = @ \cup {artifacts(r)[Cardinality(@) + 1]}]
  /\ \/ UNCHANGED pc
     \/ goes(r, "stop")
  /\ UNCHANGED <<out, keyFile, stray, tmpDir, lock, notified, caught, success, ended>>
  /\ UNCHANGED faults

RunLocks(r) ==
  /\ at(r, "populate") /\ lock[r] = "free"
  /\ Cardinality(tmp[r]) = Len(artifacts(r))
  /\ lock' = [lock EXCEPT ![r] = "main"]
  /\ goes(r, "recheck")
  /\ UNCHANGED <<out, keyFile, stray, tmpDir, tmp, notified, caught, success, ended>>
  /\ UNCHANGED faults

(***************************************************************************)
(* Placing it, under the lock.  fails(r) undoes the issuer key: the return *)
(* of every error from here on, which the deferred functions follow.       *)
(***************************************************************************)
RunRechecks(r) ==
  /\ at(r, "recheck")
  /\ goes(r, IF ~ checkOutDir(out) THEN "unlock"
             ELSE IF r \in SelfIssued THEN "link" ELSE "remove")
  /\ UNCHANGED <<out, keyFile, stray, tmpDir, tmp, lock, notified, caught, success, ended>>
  /\ UNCHANGED faults

\* os.Link refuses a path that exists.
RunLinksKey(r) ==
  /\ at(r, "link")
  /\ IF keyFile = "nobody" THEN keyFile' = r /\ goes(r, "unstage")
                           ELSE goes(r, "unlock") /\ UNCHANGED keyFile
  /\ UNCHANGED <<stray, out, tmpDir, tmp, lock, notified, caught, success, ended>>
  /\ UNCHANGED faults

\* The placed key is removed again; an error of that removal is ignored.
undoKey(r) ==
  \/ keyFile' = (IF r \in SelfIssued THEN "nobody" ELSE keyFile) /\ UNCHANGED stray
  \/ r \in SelfIssued /\ stray' = stray \cup {r} /\ UNCHANGED keyFile

\* The staged link is removed, or that fails and the placed key goes again.
RunUnstages(r) ==
  /\ at(r, "unstage")
  /\ \/ tmp' = [tmp EXCEPT ![r] = @ \ {"issuer.key"}] /\ goes(r, "remove") /\ UNCHANGED <<keyFile, stray>>
     \/ undoKey(r) /\ goes(r, "unlock") /\ UNCHANGED tmp
  /\ UNCHANGED <<out, tmpDir, lock, notified, caught, success, ended>> /\ UNCHANGED faults

\* Mutant: whatever is at the path is removed.
RunRemovesOut_all(r) ==
  /\ at(r, "remove")
  /\ out' = NoDir /\ goes(r, "rename") /\ UNCHANGED <<keyFile, stray>>
  /\ UNCHANGED <<tmpDir, tmp, lock, notified, caught, success, ended>> /\ UNCHANGED faults

\* os.Remove takes an absent path, an empty directory and a file alike.
RunRemovesOut(r) ==
  /\ at(r, "remove")
  /\ IF out.kind \in {"full", "deployment"}
     THEN undoKey(r) /\ goes(r, "unlock") /\ UNCHANGED out
     ELSE out' = NoDir /\ goes(r, "rename") /\ UNCHANGED <<keyFile, stray>>
  /\ UNCHANGED <<tmpDir, tmp, lock, notified, caught, success, ended>> /\ UNCHANGED faults

\* rename(2) of a directory replaces an empty directory and nothing else.
RunRenames(r) ==
  /\ at(r, "rename")
  /\ IF tmpDir[r] /\ out.kind \in {"absent", "empty"}
     THEN /\ out' = Placed(r, tmp[r])
          /\ tmpDir' = [tmpDir EXCEPT ![r] = FALSE] /\ tmp' = [tmp EXCEPT ![r] = {}]
          /\ success' = [success EXCEPT ![r] = TRUE]
          /\ UNCHANGED <<keyFile, stray>>
     ELSE undoKey(r) /\ UNCHANGED <<out, tmpDir, tmp, success>>
  /\ goes(r, "unlock")
  /\ UNCHANGED <<lock, notified, caught, ended>> /\ UNCHANGED faults

(***************************************************************************)
(* The deferred functions: Unlock, stop, RemoveAll; then main exits.       *)
(***************************************************************************)
RunUnlocks(r) ==
  /\ at(r, "unlock")
  /\ lock' = [lock EXCEPT ![r] = "free"] /\ goes(r, "stop")
  /\ UNCHANGED <<out, keyFile, stray, tmpDir, tmp, notified, caught, success, ended>>
  /\ UNCHANGED faults

\* stop uninstalls the handler.  A signal the goroutine has not yet taken is
\* lost if its select picks done.
RunStops(r) ==
  /\ at(r, "stop")
  /\ notified' = [notified EXCEPT ![r] = FALSE]
  /\ \/ UNCHANGED caught
     \/ caught[r] /\ lock[r] # "handler" /\ caught' = [caught EXCEPT ![r] = FALSE]
  /\ goes(r, "cleanup")
  /\ UNCHANGED <<out, keyFile, stray, tmpDir, tmp, lock, success, ended>> /\ UNCHANGED faults

newest(r) == Last(SelectSeq(artifacts(r), LAMBDA f : f \in tmp[r]))

RunCleansUp(r) ==
  /\ at(r, "cleanup") /\ ~ success[r] /\ tmpDir[r]
  /\ IF tmp[r] = {}
     THEN tmpDir' = [tmpDir EXCEPT ![r] = FALSE] /\ UNCHANGED tmp
     ELSE tmp' = [tmp EXCEPT ![r] = @ \ {newest(r)}] /\ UNCHANGED tmpDir
  /\ UNCHANGED <<out, keyFile, stray, pc, lock, notified, caught, success, ended>>
  /\ UNCHANGED faults

RunExits(r) ==
  /\ at(r, "cleanup") /\ (success[r] \/ ~ tmpDir[r])
  /\ dies(r, IF success[r] THEN "ok" ELSE "error")
  /\ UNCHANGED <<out, keyFile, stray, tmpDir, tmp, success>> /\ UNCHANGED faults

(***************************************************************************)
(* The handler goroutine, and what ends a process from outside.            *)
(***************************************************************************)
\* Mutant: the handler does not wait for the lock.
HandlerLocks_now(r) ==
  /\ caught[r] /\ ended[r] = "running" /\ lock[r] # "handler"
  /\ lock' = [lock EXCEPT ![r] = "handler"]
  /\ UNCHANGED <<out, keyFile, stray, tmpDir, tmp, pc, notified, caught, success, ended>>
  /\ UNCHANGED faults

HandlerLocks(r) ==
  /\ caught[r] /\ ended[r] = "running" /\ lock[r] = "free"
  /\ lock' = [lock EXCEPT ![r] = "handler"]
  /\ UNCHANGED <<out, keyFile, stray, tmpDir, tmp, pc, notified, caught, success, ended>>
  /\ UNCHANGED faults

\* RemoveAll, then the signal again with its default action.
HandlerRemoves(r) ==
  /\ lock[r] = "handler" /\ ended[r] = "running"
  /\ IF tmpDir[r]
     THEN /\ IF tmp[r] = {}
             THEN tmpDir' = [tmpDir EXCEPT ![r] = FALSE] /\ UNCHANGED tmp
             ELSE tmp' = [tmp EXCEPT ![r] = @ \ {newest(r)}] /\ UNCHANGED tmpDir
          /\ UNCHANGED <<pc, lock, notified, caught, ended>>
     ELSE dies(r, "interrupted") /\ UNCHANGED <<tmpDir, tmp>>
  /\ UNCHANGED <<out, keyFile, stray, success>> /\ UNCHANGED faults

\* SIGINT, SIGTERM or SIGHUP: to the handler while Notify is in force, and
\* fatal before and after.
Signal(r) ==
  /\ ended[r] = "running" /\ signals < MaxSignals
  /\ signals' = signals + 1
  /\ IF notified[r]
     THEN caught' = [caught EXCEPT ![r] = TRUE] /\ UNCHANGED <<pc, ended, notified, lock>>
     ELSE dies(r, "signalled")
  /\ UNCHANGED <<out, keyFile, stray, tmpDir, tmp, success, kills, outside>>

Kill(r) ==
  /\ ended[r] = "running" /\ kills < MaxKills
  /\ kills' = kills + 1
  /\ dies(r, "killed")
  /\ UNCHANGED <<out, keyFile, stray, tmpDir, tmp, success, signals, outside>>

\* Somebody else writes at a free output path.
Outsider ==
  /\ outside < MaxOutside /\ outside' = outside + 1
  /\ out.kind \in {"absent", "empty"}
  /\ \E k \in {"empty", "file", "full"} : k # out.kind /\ out' = Dir(k)
  /\ UNCHANGED <<keyFile, stray, tmpDir, tmp, pc, lock, notified, caught, success, ended>>
  /\ UNCHANGED <<signals, kills>>

DeployNext ==
  \/ \E r \in Runs :
       \/ RunChecks(r) \/ RunMakesTemp(r) \/ RunArms(r) \/ RunWrites(r) \/ RunLocks(r)
       \/ RunRechecks(r) \/ RunLinksKey(r) \/ RunUnstages(r) \/ RunRemovesOut(r)
       \/ RunRenames(r) \/ RunUnlocks(r) \/ RunStops(r) \/ RunCleansUp(r) \/ RunExits(r)
       \/ HandlerLocks(r) \/ HandlerRemoves(r) \/ Signal(r) \/ Kill(r)
  \/ Outsider

(***************************************************************************)
(* Properties.                                                             *)
(***************************************************************************)
\* What is at the output path once a run has renamed is all of that run's
\* files, its issuer key among none of them and beside it, whatever other
\* runs, signals and kills came between.
WholeDeployment ==
  out.kind = "deployment" =>
    /\ out.files = ToSet(artifacts(out.run)) \ {"issuer.key"}
    /\ out.run \in SelfIssued => keyFile = out.run

\* A run never changes an output path that has something in it: a non-empty
\* directory, or the deployment of another run, stays as it is.
NeverOverwrites == [][out.kind \in {"full", "deployment"} => out' = out]_deployVars

\* A run that ended with an error, or through its signal handler, has left
\* no temporary directory, and no issuer key without its deployment unless the
\* removal of the key failed, an error the code ignores.
EndedLeavesNoKeys ==
  \A r \in Runs : ended[r] \in {"ok", "error", "interrupted"} =>
    ~ tmpDir[r] /\ (keyFile = r => out.run = r \/ r \in stray)

\* A deployment on disk is whole or not there, and a run that has ended left
\* no key behind that it could remove.
DeploymentSafe == WholeDeployment /\ EndedLeavesNoKeys
=============================================================================
