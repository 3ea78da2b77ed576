---------------------------- MODULE TrustRegistry ----------------------------
(***************************************************************************)
(* The trust registry's writer: PersistentRegistry of                      *)
(* internal/trustregistry/persist.go, as cmd/trsvc runs it.                *)
(*                                                                         *)
(* Records live in memory and in one JSON file, which every mutation       *)
(* rewrites under the write lock: temp file, fsync, rename, fsync of the   *)
(* directory.  Each of these may fail, the process may die between any two *)
(* of them, and a power loss may take back a rename whose directory was    *)
(* not synced.  The temp file is synced before the rename, so the file is  *)
(* never torn.  trsvc is taken as the only writer of its file: that        *)
(* cmd/snapshot writes it back too is in TrustSnapshot.                    *)
(***************************************************************************)
EXTENDS Integers, Sequences

CONSTANTS
    Names,            \* registryKey: an issuer and a role
    Keys,             \* keys an operator may register
    ZeroKey,          \* the placeholder of seedIfEmpty
    Seeds,            \* the names seedIfEmpty registers, in order
    Lifetime,         \* validity of a record: one year
    MaxRecords,       \* bound on the records of a name
    MaxFaults,        \* bound on the failed writes, failed syncs and crashes
    MaxTime           \* bound on the clock

Statuses == {"active", "revoked", "superseded"}

Record == [key : Keys \union {ZeroKey}, from : Nat, until : Nat, status : Statuses]
Records == [Names -> Seq(Record)]

ASSUME RegistryAssumption ==
    /\ ZeroKey \notin Keys
    /\ Seeds \in Seq(Names)
    /\ Lifetime \in Nat \ {0}
    /\ MaxRecords \in Nat /\ MaxFaults \in Nat /\ MaxTime \in Nat

VARIABLES
    now,      \* the wall clock
    svc,      \* trsvc: "down", "seeding" or "up"
    seed,     \* position of seedIfEmpty in Seeds
    mem,      \* PersistentRegistry.records
    file,     \* what the path names
    durable,  \* what the path names after a power loss
    op,       \* the mutation that holds the lock: its progress and rollback
    faults,   \* failures so far
    \* History, read by no action:
    synced,   \* no sync of the directory has failed
    acked,    \* the records when a mutation was last acknowledged
    withdrawn \* names for which Revoke or Supersede was called

diskVars  == <<file, durable>>
countVars == <<faults, synced>>
vars == <<now, svc, seed, mem, file, durable, op, faults, synced,
          acked, withdrawn>>

\* Also a path that does not exist: a fresh deploy.
NoRecords == [n \in Names |-> <<>>]
Idle      == [stage |-> "idle"]

-----------------------------------------------------------------------------
(* Reading.                                                                *)

Active(recs) == {i \in DOMAIN recs : recs[i].status = "active"}

IsCurrentlyValid(r) == r.status = "active" /\ r.from <= now /\ now < r.until

\* The position Lookup returns: the valid record with the latest ValidFrom,
\* the earliest of them on a tie; 0 for ErrNotFound.
Lookup(n) ==
    LET valid == {i \in DOMAIN mem[n] : IsCurrentlyValid(mem[n][i])}
        best  == {i \in valid : \A j \in valid : mem[n][j].from <= mem[n][i].from}
    IN  IF best = {} THEN 0 ELSE CHOOSE i \in best : \A j \in best : i <= j

-----------------------------------------------------------------------------
(* Mutations.                                                              *)

\* A mutation takes the lock and changes memory; save is still to run.
Mutate(n, recs) ==
    /\ op = Idle
    /\ mem' = [mem EXCEPT ![n] = recs]
    /\ op' = [stage |-> "save", before |-> mem]
    /\ UNCHANGED <<now, svc, diskVars, countVars, acked>>

\* setStatus changes the first active record.
withStatus(recs, status) ==
    [i \in DOMAIN recs |->
        IF i \in Active(recs) /\ \A j \in Active(recs) : i <= j
        THEN [recs[i] EXCEPT !.status = status] ELSE recs[i]]

\* The record of handleRegister.
newRecord(k) == [key |-> k, from |-> now, until |-> now + Lifetime, status |-> "active"]

\* seedIfEmpty registers the next placeholder.  Register refuses a name that
\* has an active record, expired or not.
Register ==
    /\ svc = "seeding" /\ seed <= Len(Seeds)
    /\ LET n == Seeds[seed]
       IN  /\ Active(mem[n]) = {}
           /\ Mutate(n, Append(mem[n], [newRecord(ZeroKey) EXCEPT !.status = "revoked"]))
    /\ seed' = seed + 1
    /\ UNCHANGED withdrawn

\* Mutant: the record in force stays active.
Replace_append(n, k) ==
    /\ svc = "up"
    /\ Len(mem[n]) < MaxRecords
    /\ Mutate(n, Append(mem[n], newRecord(k)))
    /\ UNCHANGED <<seed, withdrawn>>

\* handleRegister: revoke the record in force and append the new one.
Replace(n, k) ==
    /\ svc = "up"
    /\ Len(mem[n]) < MaxRecords
    /\ Mutate(n, Append(withStatus(mem[n], "revoked"), newRecord(k)))
    /\ UNCHANGED <<seed, withdrawn>>

setStatus(n, status) ==
    /\ svc = "up"
    /\ Active(mem[n]) # {}
    /\ Mutate(n, withStatus(mem[n], status))
    /\ withdrawn' = withdrawn \union {n}
    /\ UNCHANGED seed

Revoke(n)    == setStatus(n, "revoked")
Supersede(n) == setStatus(n, "superseded")

\* save returns an error before or at the rename: the mutation is rolled
\* back, and a failed seed ends the process.
saveFails ==
    /\ op.stage = "save"
    /\ faults < MaxFaults
    /\ mem' = IF svc = "seeding" THEN NoRecords ELSE op.before
    /\ op' = Idle
    /\ svc' = IF svc = "seeding" THEN "down" ELSE svc
    /\ faults' = faults + 1
    /\ UNCHANGED <<now, seed, diskVars, synced, acked, withdrawn>>

\* Mutant: the mutation is acknowledged after the rename.
rename_acks ==
    /\ op.stage = "save"
    /\ file' = mem
    /\ op' = Idle
    /\ acked' = mem
    /\ UNCHANGED <<now, svc, seed, mem, durable, countVars, withdrawn>>

rename ==
    /\ op.stage = "save"
    /\ file' = mem
    /\ op' = [op EXCEPT !.stage = "sync"]
    /\ UNCHANGED <<now, svc, seed, mem, durable, countVars, acked, withdrawn>>

\* The directory is synced and the mutation acknowledged.  A failure of the
\* sync is ignored.
syncDir ==
    /\ op.stage = "sync"
    /\ \/ durable' = file /\ UNCHANGED countVars
       \/ /\ faults < MaxFaults
          /\ faults' = faults + 1
          /\ synced' = FALSE
          /\ UNCHANGED durable
    /\ op' = Idle
    /\ acked' = mem
    /\ UNCHANGED <<now, svc, seed, mem, file, withdrawn>>

-----------------------------------------------------------------------------
(* The process and the machine.                                            *)

\* NewPersistentRegistry and the test of seedIfEmpty.
Start ==
    /\ svc = "down"
    /\ mem' = file
    /\ svc' = IF file = NoRecords THEN "seeding" ELSE "up"
    /\ seed' = 1
    /\ UNCHANGED <<now, diskVars, op, countVars, acked, withdrawn>>

\* seedIfEmpty is done.
Seeded ==
    /\ svc = "seeding" /\ op = Idle /\ seed > Len(Seeds)
    /\ svc' = "up"
    /\ UNCHANGED <<now, seed, mem, diskVars, op, countVars, acked, withdrawn>>

\* The process dies, alone or with the machine.
Crash ==
    /\ svc # "down"
    /\ faults < MaxFaults
    /\ faults' = faults + 1
    /\ svc' = "down"
    /\ mem' = NoRecords
    /\ op' = Idle
    /\ \/ UNCHANGED file
       \/ file' = durable
    /\ UNCHANGED <<now, seed, durable, synced, acked, withdrawn>>

\* The file system writes the directory back on its own.
Flush ==
    /\ durable # file
    /\ durable' = file
    /\ UNCHANGED <<now, svc, seed, mem, file, op, countVars, acked, withdrawn>>

SetClock(t) ==
    /\ t # now
    /\ now' = t
    /\ UNCHANGED <<svc, seed, mem, diskVars, op, countVars, acked, withdrawn>>

-----------------------------------------------------------------------------
Init ==
    /\ now = 0
    /\ svc = "down" /\ seed = 1
    /\ mem = NoRecords /\ op = Idle
    /\ file = NoRecords /\ durable = NoRecords
    /\ faults = 0 /\ synced = TRUE
    /\ acked = NoRecords /\ withdrawn = {}

Mutation ==
    \/ Register
    \/ \E n \in Names, k \in Keys : Replace(n, k)
    \/ \E n \in Names : Revoke(n) \/ Supersede(n)

save == saveFails \/ rename \/ syncDir

Next ==
    \/ Mutation \/ save
    \/ Start \/ Seeded \/ Crash \/ Flush
    \/ \E t \in 0..MaxTime : SetClock(t)

Spec == Init /\ [][Next]_vars

-----------------------------------------------------------------------------
(* Properties.                                                             *)

\* Every variable keeps its type.
TypeOK ==
    /\ now \in Nat
    /\ svc \in {"down", "seeding", "up"}
    /\ seed \in Nat
    /\ mem \in Records /\ acked \in Records
    /\ file \in Records /\ durable \in Records
    /\ op = Idle \/ (op.stage \in {"save", "sync"} /\ op.before \in Records)
    /\ faults \in Nat /\ synced \in BOOLEAN
    /\ withdrawn \subseteq Names

AtMostOne(S) == \A i, j \in S : i = j

\* One key in force per issuer and role, in memory, on disk and after a power
\* loss: Lookup never has to choose (Register's conflict, Replace).
OneActive ==
    \A n \in Names : \A recs \in {mem[n], file[n], durable[n]} :
        AtMostOne(Active(recs))

\* Memory and file agree while nothing is being saved: a mutation whose save
\* failed leaves no trace in what Lookup serves (the rollbacks of Register,
\* Replace and setStatus).
MemoryIsStored ==
    svc # "down" /\ op = Idle => mem = file

\* Every record of a is in b, and what a withdrew b withdrew.
Keeps(b, a) ==
    \A n \in Names :
        /\ Len(a[n]) <= Len(b[n])
        /\ \A i \in DOMAIN a[n] :
              /\ b[n][i] = [a[n][i] EXCEPT !.status = b[n][i].status]
              /\ a[n][i].status # "active" => b[n][i].status = a[n][i].status

\* What was acknowledged survives any crash: no registered key is lost and
\* no revocation is undone (save's fsync of the directory, SVC-3).  save
\* drops an error of that fsync, so this and the next two hold as long as
\* there was none.
AckedSurvives ==
    synced => Keeps(file, acked) /\ Keeps(durable, acked)

\* Rotation never leaves an issuer without a key: one that has an
\* acknowledged key nobody withdrew has a key in force in memory, on disk and
\* after a power loss, whatever rotation was interrupted where (Replace,
\* SVC-1).
NeverKeyless ==
    synced => \A n \in Names \ withdrawn : Active(acked[n]) # {} =>
        /\ Active(file[n]) # {} /\ Active(durable[n]) # {}
        /\ svc # "down" => Active(mem[n]) # {}

\* The records are sound at every step of a mutation: one key in force, what
\* is served is what is stored, and what was acknowledged stays.
RegistrySafe == TypeOK /\ OneActive /\ MemoryIsStored /\ AckedSurvives /\ NeverKeyless

\* After a rotation is acknowledged Lookup never returns an older key again,
\* although a crash may come in between and the clock may go back.
NoRetiredKey ==
    synced /\ svc = "up" /\ op = Idle =>
        \A n \in Names : \A i \in Active(acked[n]) : Lookup(n) # 0 => Lookup(n) >= i

=============================================================================
