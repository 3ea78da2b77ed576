------------------------------ MODULE AuditLog -------------------------------
(***************************************************************************)
(* The transparency log of pkg/audit: a file of hash-chained lines, the    *)
(* copy of it in memory, and the heads signed over that copy.              *)
(*                                                                         *)
(* An entry's hash covers its contents and the hash before it; it is       *)
(* modelled by what it commits to, the sequence of bodies up to the entry. *)
(* A write can fail having written nothing or part of a line, the flush    *)
(* after it can fail, the process can stop between the two, and a loss of  *)
(* power keeps any part of what was not flushed.                           *)
(***************************************************************************)
EXTENDS Integers, Sequences, SequencesExt, FiniteSets

CONSTANTS
    Body,        \* what an entry records: type, subject and detail
    MaxIOFaults, \* bound on failed writes and flushes and on losses of power
    MaxCrashes,  \* bound on the process stopping
    MaxHeads,    \* bound on the heads published
    PowerLossAfterRecovery \* whether power may fail while recovered lines are
                           \* not on the disk

VARIABLES
    file,     \* the lines of the file, Torn for one that does not parse
    synced,   \* how many of them have reached the disk
    up,       \* the process has the log open
    entries,  \* Log.entries; while the process is down, what it last held
    heads,    \* the logs PublishRoot has signed a root over
    ioFaults, crashes, \* occurrences so far
    acked     \* history: the entries Append has returned

logVars == <<file, synced, up, entries, heads, ioFaults, crashes, acked>>

\* What a short write leaves behind.
Torn == [seq |-> 0]

bodies(es) == [i \in DOMAIN es |-> es[i].body]

\* Entry.Hash, by what it commits to.
computeHash(e) == Append(e.prev, e.body)

\* lastHash and nextSeq are functions of the entries.
lastHash(es) == IF es = <<>> THEN <<>> ELSE computeHash(Last(es))

\* Mutant: an entry numbered after those acknowledged instead of those loaded.
newEntry_acked(b) ==
    [seq |-> Cardinality(acked) + 1, prev |-> lastHash(entries), body |-> b]

newEntry(b) ==
    [seq |-> Len(entries) + 1, prev |-> lastHash(entries), body |-> b]

\* load accepts the file f: each line parses, is numbered in sequence and
\* carries the hash of the line before it.
loads(f) ==
    \A i \in DOMAIN f :
        /\ f[i] # Torn
        /\ f[i].seq = i
        /\ f[i].prev = lastHash(SubSeq(f, 1, i - 1))

LogInit ==
    /\ file = <<>> /\ synced = 0 /\ up = TRUE /\ entries = <<>>
    /\ heads = {} /\ acked = {}
    /\ ioFaults = 0 /\ crashes = 0

\* Mutant: append that acknowledges an entry it has not flushed.
AppendOK_unflushed(b) ==
    /\ up
    /\ file' = Append(file, newEntry(b))
    /\ entries' = Append(entries, newEntry(b))
    /\ acked' = acked \union {newEntry(b)}
    /\ UNCHANGED <<synced, up, heads, ioFaults, crashes>>

\* Append returns the entry: the line is written and flushed, then kept in
\* memory.
AppendOK(b) ==
    /\ up
    /\ file' = Append(file, newEntry(b))
    /\ synced' = Len(file')
    /\ entries' = Append(entries, newEntry(b))
    /\ acked' = acked \union {newEntry(b)}
    /\ UNCHANGED <<up, heads, ioFaults, crashes>>

\* Append fails: nothing, part of the line or, when it is the flush that
\* fails, all of it is in the file.  Memory is not touched.
AppendFails(b) ==
    /\ up
    /\ ioFaults < MaxIOFaults
    /\ file' \in {file, Append(file, Torn), Append(file, newEntry(b))}
    /\ ioFaults' = ioFaults + 1
    /\ UNCHANGED <<synced, up, entries, heads, crashes, acked>>

\* PublishRoot(Entries()).
PublishRoot ==
    /\ up
    /\ Cardinality(heads) < MaxHeads
    /\ heads' = heads \union {bodies(entries)}
    /\ UNCHANGED <<file, synced, up, entries, ioFaults, crashes, acked>>

\* The process stops; InFlight is the set of bodies whose line it may have
\* written without returning.
LogCrash(InFlight) ==
    /\ up
    /\ crashes < MaxCrashes
    /\ file' \in {file} \union {Append(file, newEntry(b)) : b \in InFlight}
    /\ up' = FALSE
    /\ crashes' = crashes + 1
    /\ UNCHANGED <<synced, entries, heads, ioFaults, acked>>

\* What Open took over from a process that stopped inside Append: load does
\* not flush the file, the next Append does.
recovered == {entries[i] : i \in (synced + 1)..Len(entries)} \ acked

\* The machine loses power: of the lines that were not flushed, some are
\* kept and the next may be torn.
LogPowerLoss ==
    /\ ioFaults < MaxIOFaults
    /\ recovered = {} \/ PowerLossAfterRecovery
    /\ \E n \in synced..Len(file) :
          /\ file' \in {SubSeq(file, 1, n)}
                       \union {Append(SubSeq(file, 1, n), Torn) : i \in 1..(Len(file) - n)}
          /\ synced' = Len(file')
    /\ up' = FALSE
    /\ ioFaults' = ioFaults + 1
    /\ UNCHANGED <<entries, heads, crashes, acked>>

\* Open succeeds: the entries are those of the file.  When load refuses the
\* file, Open fails and the process does not start.
LogOpen ==
    /\ ~up
    /\ loads(file)
    /\ entries' = file
    /\ up' = TRUE
    /\ UNCHANGED <<file, synced, heads, ioFaults, crashes, acked>>

(***************************************************************************)
(* Properties.                                                             *)
(***************************************************************************)

\* With no failed write, no failed flush and no loss of power, the file
\* always loads: stopping the process at any point never leaves a log that
\* Open refuses (pkg/audit/log.go Open, load, Append).
ReopensAfterCrash == ioFaults = 0 => loads(file)

\* Whatever failed on the way, a log that is open holds every entry Append
\* returned, at the sequence number and over the hash it was returned with:
\* a later run of the process that lost or moved one does not start.
AckedStays ==
    up => \A e \in acked : e.seq \in DOMAIN entries /\ entries[e.seq] = e

\* What was acknowledged survives whatever failed, and a crash alone never
\* leaves a file that the next start refuses.
LogSurvives == ReopensAfterCrash /\ AckedStays

\* The log implements AppendOnly.
AO == INSTANCE AppendOnly WITH log <- bodies(entries), heads <- heads

\* Over crashes, failed and torn writes and losses of power, what readers
\* see of the log only grows at the end, one entry at a time, and what is
\* published is the log as it stands.
ImplementsAppendOnly == AO!Spec

=============================================================================
