---------------------------- MODULE TrustSnapshot ----------------------------
(***************************************************************************)
(* How issuer keys reach the services that trust them: cmd/snapshot signs  *)
(* the registry's body, the two files are distributed, and a service opens *)
(* them with trustregistry.OpenVerified (pkg/trustsnapshot.Verify and the  *)
(* service's own acceptance record, FileState) before it resolves keys.    *)
(*                                                                         *)
(* agentsvc resolves every key through the registry; deanonsvc copies the  *)
(* keys when it starts.  Signer and distribution replace the files one at  *)
(* a time and at any moment, older signed files may be put back, a service *)
(* may die anywhere, and a power loss may take back a rename whose         *)
(* directory was not synced.                                               *)
(*                                                                         *)
(* A signature is a manifest's presence in published, a digest the body    *)
(* itself.  Time is in units of MaxAge's granularity.                      *)
(*                                                                         *)
(* The signer writes the body it read back over the registry's file, which *)
(* trsvc may have rewritten meanwhile: what trsvc holds in memory and what *)
(* the file shows may then differ until trsvc saves again or restarts.     *)
(***************************************************************************)
EXTENDS Integers

CONSTANTS
    Readers,         \* services, each with its own acceptance record
    Copies,          \* the readers that copy the keys at start (deanonsvc)
    IssuerKeys,       \* keys in the registry
    MaxAge,           \* Options.MaxAge
    FutureSkew,       \* Options.FutureSkew, and the bound on the signer's skew
    MaxSignDelay,     \* bound on the time between a signer's read and its stamp
    MaxSnapshots,     \* bound on the snapshots signed
    MaxSnapshotFaults,\* bound on the crashes, power losses and failed writes
    MaxSnapshotTime   \* bound on the clock

ASSUME SnapshotAssumption ==
    /\ Copies \subseteq Readers
    /\ MaxAge \in Nat \ {0} /\ FutureSkew \in Nat /\ MaxSignDelay \in Nat
    /\ MaxSnapshots \in Nat /\ MaxSnapshotFaults \in Nat /\ MaxSnapshotTime \in Nat

\* A body gives each key the status of its record.
Body == [IssuerKeys -> {"absent", "active", "revoked"}]

\* The signed head of a snapshot.
Manifest == [id : Nat, issued : Nat, body : Body]

\* The file or record does not exist.
NoManifest == [id |-> 0, issued |-> 0, body |-> [k \in IssuerKeys |-> "absent"]]

State == [id : Nat, issued : Nat]
NoState == [id |-> 0, issued |-> 0]

VARIABLES
    time,          \* the clock
    registry,      \* the body the registry's file shows
    held,          \* the body trsvc holds in memory
    published,     \* the manifests that were signed
    signing,       \* the signer: its progress, the body it read and when
    manifestFile,  \* the files where the readers look
    bodyFile,
    pc,            \* each reader's progress through its start
    man,           \* the manifest a reader read and then verified
    body,          \* the body it read and then loaded
    record,        \* FileState: the last snapshot the reader accepted
    durableRecord, \* the record after a power loss
    failures,      \* failures so far
    \* History, read by no action:
    powered,       \* the power was never lost
    revokedAt,     \* since when the file shows a key revoked, and without
                   \* break, MaxSnapshotTime + 1 while it does not
    usedAt,        \* the last time a reader relied on a key, -1 if never
    served         \* the latest issued a reader served

signVars  == <<registry, held, published, signing>>
fileVars  == <<manifestFile, bodyFile>>
failureVars == <<failures, powered>>
histVars  == <<revokedAt, usedAt, served>>
snapshotVars == <<time, registry, held, published, signing, manifestFile, bodyFile, pc, man,
                  body, record, durableRecord, failures, powered, revokedAt, usedAt, served>>

\* snapshot sign under way: it has read the file, or also written it back.
Signing    == [stage : {"read", "written"}, body : Body, at : Nat]
NotSigning == [stage |-> "idle"]

-----------------------------------------------------------------------------
(* The registry, the signer and the distribution.                          *)

\* The file is rewritten as b.
shownSince(b) ==
    [k \in IssuerKeys |->
        IF b[k] # "revoked" THEN MaxSnapshotTime + 1
        ELSE IF registry[k] = "revoked" THEN revokedAt[k] ELSE time]

\* trsvc changes a record and saves all that it holds.
Save(b) ==
    /\ held' = b /\ registry' = b
    /\ revokedAt' = shownSince(b)
    /\ UNCHANGED <<time, published, signing, fileVars, pc, man, body, record, durableRecord,
                   failureVars, usedAt, served>>

RegisterKey(k) == held[k] = "absent" /\ Save([held EXCEPT ![k] = "active"])
RevokeKey(k)   == held[k] = "active" /\ Save([held EXCEPT ![k] = "revoked"])

\* trsvc starts again and loads the file.
Reload ==
    /\ held # registry
    /\ held' = registry
    /\ UNCHANGED <<time, registry, published, signing, fileVars, pc, man, body, record,
                   durableRecord, failureVars, histVars>>

NextId == 1 + (CHOOSE n \in 0..MaxSnapshots :
                  /\ n = 0 \/ \E m \in published : m.id = n
                  /\ \A m \in published : m.id <= n)

\* snapshot sign reads the registry's file.  A signature beyond the bound is
\* not begun.
signRead ==
    /\ signing = NotSigning
    /\ NextId <= MaxSnapshots
    /\ signing' = [stage |-> "read", body |-> registry, at |-> time]
    /\ UNCHANGED <<time, registry, held, published, fileVars, pc, man, body, record,
                   durableRecord, failureVars, histVars>>

\* It writes the canonical body back, over the file it read.
signBody ==
    /\ signing.stage = "read"
    /\ signing' = [stage |-> "written", body |-> signing.body, at |-> signing.at]
    /\ registry' = signing.body
    /\ revokedAt' = shownSince(signing.body)
    /\ bodyFile' = signing.body
    /\ UNCHANGED <<time, held, published, manifestFile, pc, man, body, record,
                   durableRecord, failureVars, usedAt, served>>

\* It then stamps the manifest with its own clock, which is ahead by skew.
signManifest(skew) ==
    LET m == [id |-> NextId, issued |-> time + skew, body |-> signing.body]
    IN  /\ signing.stage = "written"
        /\ NextId <= MaxSnapshots
        /\ published' = published \union {m}
        /\ manifestFile' = m
        /\ signing' = NotSigning
        /\ UNCHANGED <<time, registry, held, bodyFile, pc, man, body, record, durableRecord,
                       failureVars, histVars>>

\* A file is replaced: an older manifest is put back, or another body.
PlaceManifest(m) ==
    /\ m # manifestFile /\ manifestFile' = m
    /\ UNCHANGED <<time, signVars, bodyFile, pc, man, body, record, durableRecord,
                   failureVars, histVars>>

PlaceBody(b) ==
    /\ b # bodyFile /\ bodyFile' = b
    /\ UNCHANGED <<time, signVars, manifestFile, pc, man, body, record, durableRecord,
                   failureVars, histVars>>

-----------------------------------------------------------------------------
(* A reader starts: OpenVerified and what the service does with it.        *)

\* PersistentRegistry.fresh.
fresh(m) == time <= m.issued + MaxAge

\* The process ends.
Exit(r) ==
    /\ pc' = [pc EXCEPT ![r] = "down"]
    /\ man' = [man EXCEPT ![r] = NoManifest]
    /\ body' = [body EXCEPT ![r] = NoManifest.body]

readManifest(r) ==
    /\ pc[r] = "down"
    /\ manifestFile # NoManifest
    /\ man' = [man EXCEPT ![r] = manifestFile]
    /\ pc' = [pc EXCEPT ![r] = "body"]
    /\ UNCHANGED <<time, signVars, fileVars, body, record, durableRecord, failureVars, histVars>>

readBody(r) ==
    /\ pc[r] = "body"
    /\ body' = [body EXCEPT ![r] = bodyFile]
    /\ pc' = [pc EXCEPT ![r] = "verify"]
    /\ UNCHANGED <<time, signVars, fileVars, man, record, durableRecord, failureVars, histVars>>

\* Mutant: the record is compared but a snapshot of the past is not refused.
notOlder_missing(r) == man[r].issued = record[r].issued => man[r].id = record[r].id

\* The acceptance record does not refuse the manifest.
notOlder(r) ==
    \/ record[r] = NoState
    \/ man[r].issued > record[r].issued
    \/ man[r].issued = record[r].issued /\ man[r].id = record[r].id

\* trustsnapshot.Verify up to the record: signature, digest, staleness in
\* both directions, rollback.
Accepts(r) ==
    /\ man[r] \in published
    /\ body[r] = man[r].body
    /\ man[r].issued <= time + FutureSkew
    /\ fresh(man[r])
    /\ notOlder(r)

verify(r) ==
    /\ pc[r] = "verify"
    /\ \/ ~Accepts(r) /\ Exit(r)
       \/ /\ Accepts(r)
          /\ pc' = [pc EXCEPT ![r] = IF man[r].id = record[r].id THEN "load" ELSE "save"]
          /\ UNCHANGED <<man, body>>
    /\ UNCHANGED <<time, signVars, fileVars, record, durableRecord, failureVars, histVars>>

\* FileState.Save: temp file, fsync, rename; the directory is not synced.  A
\* failure refuses the snapshot.
saveRecord(r) ==
    /\ pc[r] = "save"
    /\ \/ /\ record' = [record EXCEPT ![r] = [id |-> man[r].id, issued |-> man[r].issued]]
          /\ pc' = [pc EXCEPT ![r] = "load"]
          /\ UNCHANGED <<man, body, failures>>
       \/ /\ failures < MaxSnapshotFaults
          /\ failures' = failures + 1
          /\ Exit(r)
          /\ UNCHANGED record
    /\ UNCHANGED <<time, signVars, fileVars, durableRecord, powered, histVars>>

\* issuerKeysPresent: agentsvc refuses a snapshot without records.
issuerKeysPresent(r) == r \in Copies \/ \E k \in IssuerKeys : body[r][k] # "absent"

\* The bytes that were verified are the ones loaded.
loadFrom(r) == UNCHANGED body

\* The service lists the records, which checks freshness, and serves.
load(r) ==
    /\ pc[r] = "load"
    /\ \/ /\ issuerKeysPresent(r) /\ fresh(man[r])
          /\ loadFrom(r)
          /\ pc' = [pc EXCEPT ![r] = "serving"]
          /\ served' = [served EXCEPT ![r] = IF man[r].issued > @ THEN man[r].issued ELSE @]
          /\ UNCHANGED man
       \/ /\ ~(issuerKeysPresent(r) /\ fresh(man[r]))
          /\ Exit(r)
          /\ UNCHANGED served
    /\ UNCHANGED <<time, signVars, fileVars, record, durableRecord, failureVars, revokedAt, usedAt>>

\* Mutant: freshness is checked when the snapshot is opened only.
mayUse_opened(r, k) == body[r][k] = "active"

\* Lookup by agentsvc; deanonsvc has copied the key and asks no more.
mayUse(r, k) == body[r][k] = "active" /\ (r \in Copies \/ fresh(man[r]))

Use(r, k) ==
    /\ pc[r] = "serving"
    /\ mayUse(r, k)
    /\ usedAt' = [usedAt EXCEPT ![r][k] = time]
    /\ UNCHANGED <<time, signVars, fileVars, pc, man, body, record, durableRecord, failureVars,
                   revokedAt, served>>

-----------------------------------------------------------------------------
(* Failures and time.                                                      *)

ReaderDies(r) ==
    /\ pc[r] # "down"
    /\ failures < MaxSnapshotFaults
    /\ failures' = failures + 1
    /\ Exit(r)
    /\ UNCHANGED <<time, signVars, fileVars, record, durableRecord, powered, histVars>>

PowerLoss ==
    /\ failures < MaxSnapshotFaults
    /\ failures' = failures + 1
    /\ powered' = FALSE
    /\ pc' = [r \in Readers |-> "down"]
    /\ man' = [r \in Readers |-> NoManifest]
    /\ body' = [r \in Readers |-> NoManifest.body]
    /\ record' = durableRecord
    /\ UNCHANGED <<time, signVars, fileVars, durableRecord, histVars>>

\* The file system writes the directory of the record back.
FlushRecord(r) ==
    /\ durableRecord[r] # record[r]
    /\ durableRecord' = [durableRecord EXCEPT ![r] = record[r]]
    /\ UNCHANGED <<time, signVars, fileVars, pc, man, body, record, failureVars, histVars>>

\* Time passes; a signer that has read the registry is not stalled longer
\* than MaxSignDelay.
SnapshotTick ==
    /\ time < MaxSnapshotTime
    /\ signing # NotSigning => time < signing.at + MaxSignDelay
    /\ time' = time + 1
    /\ UNCHANGED <<signVars, fileVars, pc, man, body, record, durableRecord, failureVars, histVars>>

-----------------------------------------------------------------------------
SnapshotInit ==
    /\ time = 0
    /\ registry = [k \in IssuerKeys |-> "absent"] /\ held = registry
    /\ published = {} /\ signing = NotSigning
    /\ manifestFile = NoManifest /\ bodyFile = NoManifest.body
    /\ pc = [r \in Readers |-> "down"]
    /\ man = [r \in Readers |-> NoManifest]
    /\ body = [r \in Readers |-> NoManifest.body]
    /\ record = [r \in Readers |-> NoState] /\ durableRecord = [r \in Readers |-> NoState]
    /\ failures = 0 /\ powered = TRUE
    /\ revokedAt = [k \in IssuerKeys |-> MaxSnapshotTime + 1]
    /\ usedAt = [r \in Readers |-> [k \in IssuerKeys |-> -1]]
    /\ served = [r \in Readers |-> 0]

Publisher ==
    \/ \E k \in IssuerKeys : RegisterKey(k) \/ RevokeKey(k)
    \/ Reload
    \/ signRead \/ signBody
    \/ \E skew \in 0..FutureSkew : signManifest(skew)
    \/ \E m \in published : PlaceManifest(m)
    \/ \E b \in Body : PlaceBody(b)

Reader(r) ==
    \/ readManifest(r) \/ readBody(r) \/ verify(r) \/ saveRecord(r) \/ load(r)
    \/ \E k \in IssuerKeys : Use(r, k)
    \/ ReaderDies(r) \/ FlushRecord(r)

SnapshotNext == Publisher \/ (\E r \in Readers : Reader(r)) \/ PowerLoss \/ SnapshotTick

SnapshotSpec == SnapshotInit /\ [][SnapshotNext]_snapshotVars

-----------------------------------------------------------------------------
(* Properties.                                                             *)

\* Every variable keeps its type.
SnapshotTypeOK ==
    /\ time \in Nat
    /\ registry \in Body /\ held \in Body /\ published \subseteq Manifest
    /\ signing = NotSigning \/ signing \in Signing
    /\ manifestFile \in Manifest /\ bodyFile \in Body
    /\ pc \in [Readers -> {"down", "body", "verify", "save", "load", "serving"}]
    /\ man \in [Readers -> Manifest] /\ body \in [Readers -> Body]
    /\ record \in [Readers -> State] /\ durableRecord \in [Readers -> State]
    /\ failures \in Nat /\ powered \in BOOLEAN
    /\ revokedAt \in [IssuerKeys -> Nat] /\ usedAt \in [Readers -> [IssuerKeys -> Nat \union {-1}]]
    /\ served \in [Readers -> Nat]

\* A service trusts exactly the records of one signed snapshot, although the
\* two files are read apart and may be replaced in between and afterwards
\* ("Verify what you load; load what you verified", OpenVerified).
LoadedIsSigned ==
    \A r \in Readers : pc[r] = "serving" =>
        /\ man[r] \in published
        /\ body[r] = man[r].body

\* "anything issued earlier than what was accepted before is refused,
\* signature or no signature" (comment of Verify, verify.go): a service never
\* serves a snapshot older than one it served before, across its restarts.
NoRollback ==
    \A r \in Readers : pc[r] = "serving" => man[r].issued >= served[r]

\* Short of a power loss it holds: crashes of the service and failed writes
\* of its acceptance record between any two steps do not take it back.
NoRollbackWhilePowered == powered => NoRollback

\* What a service has loaded is one signed snapshot, not older than any it
\* served before.
SnapshotSafe == SnapshotTypeOK /\ LoadedIsSigned /\ NoRollbackWhilePowered

\* "a process that runs past `max_age` stops resolving keys from it, so a
\* revocation published since cannot be missed indefinitely" (section 7 of
\* docs/spec/TRUST-REGISTRY-SNAPSHOT.md): no service that looks keys up relies
\* on one later than max_age after the registry's file came to show it revoked,
\* give or take the signer's delay and its clock, as long as it goes on showing
\* it.  A revocation saved while snapshot sign is between its read and its
\* write back is overwritten, and no bound holds for it until trsvc saves
\* again.  deanonsvc, which copies the keys, is not among the services.
RevocationReaches ==
    \A r \in Readers \ Copies, k \in IssuerKeys :
        usedAt[r][k] <= revokedAt[k] + MaxAge + FutureSkew + MaxSignDelay

=============================================================================
