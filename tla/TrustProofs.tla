----------------------------- MODULE TrustProofs -----------------------------
(***************************************************************************)
(* Proofs about TrustRegistry and TrustSnapshot, for any names, keys,      *)
(* readers and lifetimes, and any number of faults.                        *)
(***************************************************************************)
EXTENDS TrustRegistry, TrustSnapshot, SequenceTheorems, TLAPS

-----------------------------------------------------------------------------
(* Snapshots.  The argument of no rollback: a manifest is determined by    *)
(* its id, a reader that loads or serves one has that very manifest in its *)
(* acceptance record, and while the power stays on the record is never     *)
(* older than what was served.                                             *)

\* The ids of the signed manifests have a greatest one, which NextId passes.
LastId(n) ==
    /\ n = 0 \/ \E m \in published : m.id = n
    /\ \A m \in published : m.id <= n

\* The signed manifests: told apart by their ids, dated by a clock that is
\* ahead by no more than the skew.
SignedInv ==
    /\ \E n \in 0..MaxSnapshots : LastId(n)
    /\ \A m \in published : m.id >= 1 /\ m.issued <= time + FutureSkew
    /\ \A m, p \in published : m.id = p.id => m = p

\* A record is empty or that of a signed manifest.
Attested(s) == s = NoState \/ \E m \in published : s = [id |-> m.id, issued |-> m.issued]

\* The acceptance record of each reader, at each stage of its start.
RecordInv ==
    \A r \in Readers :
        /\ Attested(record[r]) /\ Attested(durableRecord[r])
        /\ pc[r] \in {"save", "load", "serving"} =>
              man[r] \in published /\ body[r] = man[r].body
        /\ pc[r] = "save" => man[r].issued >= record[r].issued
        /\ pc[r] \in {"load", "serving"} =>
              record[r] = [id |-> man[r].id, issued |-> man[r].issued]
        /\ powered => served[r] <= record[r].issued

SnapshotInv == SnapshotTypeOK /\ SignedInv /\ RecordInv

\* The next id is above every id in use.
LEMMA NextIdFresh ==
    ASSUME SnapshotTypeOK, SignedInv
    PROVE  NextId \in Nat \ {0} /\ \A m \in published : m.id < NextId
  <1> DEFINE last == CHOOSE n \in 0..MaxSnapshots : LastId(n)
  <1>1. last \in 0..MaxSnapshots /\ LastId(last)
    BY DEF SignedInv
  <1>2. NextId = 1 + last
    BY DEF NextId, LastId
  <1>3. \A m \in published : m.id \in Nat
    BY DEF SnapshotTypeOK, Manifest
  <1> HIDE DEF last
  <1> QED  BY <1>1, <1>2, <1>3, SnapshotAssumption DEF LastId

\* The fields of the values that are passed on.
LEMMA ManifestFields ==
    /\ \A m \in Manifest : m.id \in Nat /\ m.issued \in Nat /\ m.body \in Body
    /\ \A s \in State : s.id \in Nat /\ s.issued \in Nat
    /\ NoManifest \in Manifest /\ NoState \in State
    /\ NoManifest.body \in Body /\ NoState.issued = 0 /\ NoState.id = 0
  BY DEF Manifest, State, NoManifest, NoState, Body

LEMMA SnapshotInitially == SnapshotInit => SnapshotInv
  <1> SUFFICES ASSUME SnapshotInit  PROVE SnapshotInv
    OBVIOUS
  <1>1. SnapshotTypeOK
    <2>1. [k \in IssuerKeys |-> "absent"] \in Body
      BY DEF Body
    <2> QED  BY <2>1, ManifestFields, SnapshotAssumption DEF SnapshotInit, SnapshotTypeOK
  <1>2. SignedInv
    <2>1. LastId(0) /\ 0 \in 0..MaxSnapshots
      BY SnapshotAssumption DEF SnapshotInit, LastId
    <2> QED  BY <2>1 DEF SnapshotInit, SignedInv
  <1>3. RecordInv
    BY ManifestFields DEF SnapshotInit, RecordInv, Attested
  <1> QED  BY <1>1, <1>2, <1>3 DEF SnapshotInv

\* Every step keeps the types; only signManifest makes a new manifest.
LEMMA SnapshotTypeStep ==
    SnapshotTypeOK /\ SignedInv /\ [SnapshotNext]_snapshotVars => SnapshotTypeOK'
  <1> SUFFICES ASSUME SnapshotTypeOK, SignedInv, [SnapshotNext]_snapshotVars
               PROVE  SnapshotTypeOK'
    OBVIOUS
  <1> USE ManifestFields DEF SnapshotTypeOK
  <1>d. ASSUME NEW b \in Body  PROVE shownSince(b) \in [IssuerKeys -> Nat]
    BY SnapshotAssumption DEF shownSince
  <1>0. CASE Reload
    BY <1>0 DEF Reload, fileVars, failureVars, histVars
  <1>1. ASSUME NEW k \in IssuerKeys, RegisterKey(k) \/ RevokeKey(k)  PROVE SnapshotTypeOK'
    <2>1. \A s \in {"active", "revoked"} : [held EXCEPT ![k] = s] \in Body
      BY DEF Body
    <2>2. ASSUME NEW b \in Body, Save(b)  PROVE SnapshotTypeOK'
      BY <1>d, <2>2 DEF Save, fileVars, failureVars
    <2> QED  BY <1>1, <2>1, <2>2 DEF RegisterKey, RevokeKey
  <1>2. CASE signRead \/ signBody
    <2>1. CASE signRead
      BY <2>1 DEF signRead, fileVars, failureVars, histVars, Signing
    <2>2. CASE signBody
      <3>1. signing \in Signing
        BY <2>2 DEF signBody, NotSigning
      <3>2. signing.body \in Body /\ signing.at \in Nat
        BY <3>1 DEF Signing
      <3>3. signing' \in Signing
        BY <2>2, <3>2 DEF signBody, Signing
      <3> QED  BY <1>d, <2>2, <3>2, <3>3 DEF signBody, failureVars
    <2> QED  BY <1>2, <2>1, <2>2
  <1>3. ASSUME NEW skew \in 0..FutureSkew, signManifest(skew)  PROVE SnapshotTypeOK'
    <2> DEFINE m == [id |-> NextId, issued |-> time + skew, body |-> signing.body]
    <2>1. m \in Manifest
      <3>1. signing.body \in Body
        BY <1>3 DEF signManifest, NotSigning, Signing
      <3> QED  BY <1>3, <3>1, NextIdFresh, SnapshotAssumption DEF Manifest
    <2> QED  BY <1>3, <2>1 DEF signManifest, failureVars, histVars
  <1>4. ASSUME NEW m \in published, PlaceManifest(m)  PROVE SnapshotTypeOK'
    BY <1>4 DEF PlaceManifest, signVars, failureVars, histVars
  <1>5. ASSUME NEW b \in Body, PlaceBody(b)  PROVE SnapshotTypeOK'
    BY <1>5 DEF PlaceBody, signVars, failureVars, histVars
  <1>6. ASSUME NEW r \in Readers, readManifest(r) \/ readBody(r) \/ verify(r) \/ saveRecord(r)
        PROVE  SnapshotTypeOK'
    <2> USE DEF signVars, fileVars, failureVars, histVars, Exit
    <2>1. CASE readManifest(r)  BY <2>1 DEF readManifest
    <2>2. CASE readBody(r)      BY <2>2 DEF readBody
    <2>3. CASE verify(r)        BY <2>3 DEF verify
    <2>4. CASE saveRecord(r)
      <3>1. [id |-> man[r].id, issued |-> man[r].issued] \in State
        BY DEF State
      <3>2. record' \in [Readers -> State]
        BY <2>4, <3>1 DEF saveRecord
      <3>3. pc' \in [Readers -> {"down", "body", "verify", "save", "load", "serving"}]
            /\ man' \in [Readers -> Manifest] /\ body' \in [Readers -> Body]
            /\ failures' \in Nat
        <4>1. CASE pc' = [pc EXCEPT ![r] = "load"] /\ UNCHANGED <<man, body, failures>>
          BY <4>1
        <4>2. CASE Exit(r) /\ failures' = failures + 1
          BY <4>2
        <4> QED  BY <2>4, <4>1, <4>2 DEF saveRecord
      <3> QED  BY <2>4, <3>2, <3>3 DEF saveRecord
    <2> QED  BY <1>6, <2>1, <2>2, <2>3, <2>4
  <1>7. ASSUME NEW r \in Readers, load(r) \/ ReaderDies(r) \/ FlushRecord(r)
        PROVE  SnapshotTypeOK'
    <2> USE DEF signVars, fileVars, failureVars, histVars, Exit
    <2>1. CASE load(r)         BY <2>1 DEF load, loadFrom
    <2>2. CASE ReaderDies(r)   BY <2>2 DEF ReaderDies
    <2>3. CASE FlushRecord(r)  BY <2>3 DEF FlushRecord
    <2> QED  BY <1>7, <2>1, <2>2, <2>3
  <1>8. ASSUME NEW r \in Readers, NEW k \in IssuerKeys, Use(r, k)  PROVE SnapshotTypeOK'
    BY <1>8 DEF Use, signVars, fileVars, failureVars
  <1>9. CASE PowerLoss
    <2>1. pc' = [r \in Readers |-> "down"] /\ man' = [r \in Readers |-> NoManifest]
          /\ body' = [r \in Readers |-> NoManifest.body] /\ powered' = FALSE
          /\ record' = durableRecord /\ failures' = failures + 1
          /\ UNCHANGED <<time, registry, held, published, signing, manifestFile, bodyFile,
                         durableRecord, revokedAt, usedAt, served>>
      BY <1>9 DEF PowerLoss, signVars, fileVars, histVars
    <2>2. man' \in [Readers -> Manifest] /\ body' \in [Readers -> Body]
      BY <2>1
    <2>3. powered' \in BOOLEAN
      BY <2>1, Zenon
    <2> QED  BY <2>1, <2>2, <2>3
  <1>10. CASE SnapshotTick
    BY <1>10 DEF SnapshotTick, signVars, fileVars, failureVars, histVars
  <1>11. CASE UNCHANGED snapshotVars
    BY <1>11 DEF snapshotVars
  <1> QED
    BY <1>0, <1>1, <1>2, <1>3, <1>4, <1>5, <1>6, <1>7, <1>8, <1>9, <1>10, <1>11
    DEF SnapshotNext, Publisher, Reader

\* Every step keeps the signed manifests apart.
LEMMA SignedStep ==
    SnapshotTypeOK /\ SignedInv /\ [SnapshotNext]_snapshotVars => SignedInv'
  <1> SUFFICES ASSUME SnapshotTypeOK, SignedInv, [SnapshotNext]_snapshotVars
               PROVE  SignedInv'
    OBVIOUS
  <1>1. ASSUME NEW skew \in 0..FutureSkew, signManifest(skew)  PROVE SignedInv'
    <2> DEFINE m == [id |-> NextId, issued |-> time + skew, body |-> signing.body]
    <2>1. published' = published \union {m} /\ time' = time /\ NextId <= MaxSnapshots
      BY <1>1 DEF signManifest
    <2>2. NextId \in Nat \ {0} /\ \A p \in published : p.id < NextId
      BY NextIdFresh
    <2>3. m.id = NextId /\ m.issued = time + skew
      OBVIOUS
    <2>4. \A p \in published : p.id \in Nat /\ p.issued \in Nat
      BY ManifestFields DEF SnapshotTypeOK
    <2> HIDE DEF m
    <2>5. PICK next \in 0..MaxSnapshots : next = NextId
      BY <2>1, <2>2, SnapshotAssumption
    <2>8. LastId(next)'
      BY <2>1, <2>2, <2>3, <2>4, <2>5 DEF LastId
    <2>6. \A p \in published' : p.id >= 1 /\ p.issued <= time' + FutureSkew
      BY <2>1, <2>2, <2>3, <2>4, SnapshotAssumption DEF SignedInv, SnapshotTypeOK
    <2>7. \A p, q \in published' : p.id = q.id => p = q
      BY <2>1, <2>2, <2>3, <2>4 DEF SignedInv
    <2> QED  BY <2>6, <2>7, <2>8 DEF SignedInv
  <1>2. ASSUME published' = published, time' \in Nat, time' >= time  PROVE SignedInv'
    <2>1. \A m \in published : m.issued \in Nat
      BY ManifestFields DEF SnapshotTypeOK
    <2>2. \A n \in Nat : LastId(n) => LastId(n)'
      BY <1>2 DEF LastId
    <2> QED  BY <1>2, <2>1, <2>2, SnapshotAssumption DEF SignedInv, SnapshotTypeOK
  <1>3. \/ \E skew \in 0..FutureSkew : signManifest(skew)
        \/ published' = published /\ time' \in Nat /\ time' >= time
    <2>1. time \in Nat
      BY DEF SnapshotTypeOK
    <2>2. \/ \E skew \in 0..FutureSkew : signManifest(skew)
          \/ published' = published /\ time' \in {time, time + 1}
      BY DEF SnapshotNext, Publisher, Reader, snapshotVars, signVars, RegisterKey, RevokeKey,
             Save, Reload, signRead, signBody, PlaceManifest, PlaceBody, readManifest,
             readBody, verify, saveRecord, load, Use, ReaderDies, FlushRecord, PowerLoss,
             SnapshotTick
    <2> QED  BY <2>1, <2>2
  <1> QED  BY <1>1, <1>2, <1>3

\* Every step keeps the acceptance records.
LEMMA RecordStep ==
    SnapshotInv /\ [SnapshotNext]_snapshotVars => RecordInv'
  <1> SUFFICES ASSUME SnapshotInv, [SnapshotNext]_snapshotVars
               PROVE  RecordInv'
    OBVIOUS
  <1> USE ManifestFields
  <1> DEFINE readerVars == <<pc, man, body, record, durableRecord, powered, served>>
  <1>t. /\ SnapshotTypeOK /\ SignedInv /\ RecordInv
        /\ pc \in [Readers -> {"down", "body", "verify", "save", "load", "serving"}]
        /\ man \in [Readers -> Manifest] /\ body \in [Readers -> Body]
        /\ record \in [Readers -> State] /\ durableRecord \in [Readers -> State]
        /\ served \in [Readers -> Nat] /\ published \subseteq Manifest
    BY DEF SnapshotInv, SnapshotTypeOK
  <1>1. ASSUME published \subseteq published', UNCHANGED readerVars  PROVE RecordInv'
    <2>1. \A s : Attested(s) => Attested(s)'
      BY <1>1 DEF Attested
    <2>2. \A r \in Readers : Attested(record[r])' /\ Attested(durableRecord[r])'
      BY <1>1, <1>t, <2>1 DEF RecordInv, Attested
    <2> QED  BY <1>1, <1>t, <2>2 DEF RecordInv
  <1>2. ASSUME NEW r \in Readers, UNCHANGED <<published, durableRecord, powered>>,
               \A q \in Readers \ {r} :
                  /\ pc'[q] = pc[q] /\ man'[q] = man[q] /\ body'[q] = body[q]
                  /\ record'[q] = record[q] /\ served'[q] = served[q],
               /\ Attested(record[r])'
               /\ pc'[r] \in {"save", "load", "serving"} =>
                     man'[r] \in published /\ body'[r] = man'[r].body
               /\ pc'[r] = "save" => man'[r].issued >= record'[r].issued
               /\ pc'[r] \in {"load", "serving"} =>
                     record'[r] = [id |-> man'[r].id, issued |-> man'[r].issued]
               /\ powered => served'[r] <= record'[r].issued
        PROVE  RecordInv'
    <2>1. \A q \in Readers : Attested(record[q])' /\ Attested(durableRecord[q])'
      <3> TAKE q \in Readers
      <3>1. Attested(durableRecord[q])'
        BY <1>2, <1>t DEF RecordInv, Attested
      <3>2. ASSUME q # r  PROVE Attested(record[q])'
        <4>1. record'[q] = record[q] /\ published' = published
          BY <1>2, <3>2
        <4>2. Attested(record[q])
          BY <1>t DEF RecordInv
        <4> QED  BY <4>1, <4>2 DEF Attested
      <3> QED  BY <1>2, <3>1, <3>2
    <2> QED  BY <1>2, <1>t, <2>1 DEF RecordInv
  <1>3. ASSUME NEW r \in Readers, readManifest(r) \/ readBody(r) \/ ReaderDies(r)
        PROVE  RecordInv'
    <2>1. /\ UNCHANGED <<published, durableRecord, powered, record, served>>
          /\ pc'[r] \in {"down", "body", "verify"}
          /\ \A q \in Readers \ {r} :
                pc'[q] = pc[q] /\ man'[q] = man[q] /\ body'[q] = body[q]
      BY <1>3, <1>t DEF readManifest, readBody, ReaderDies, Exit, signVars, failureVars, histVars
    <2>2. Attested(record[r])' /\ (powered => served'[r] <= record'[r].issued)
      BY <1>t, <2>1 DEF RecordInv, Attested
    <2> QED  BY <1>2, <2>1, <2>2
  <1>4. ASSUME NEW r \in Readers, verify(r)  PROVE RecordInv'
    <2>1. /\ UNCHANGED <<published, durableRecord, powered, record, served>>
          /\ \A q \in Readers \ {r} :
                pc'[q] = pc[q] /\ man'[q] = man[q] /\ body'[q] = body[q]
      BY <1>4, <1>t DEF verify, Exit, signVars, failureVars, histVars
    <2>2. Attested(record[r])' /\ (powered => served'[r] <= record'[r].issued)
      BY <1>t, <2>1 DEF RecordInv, Attested
    <2>3. CASE Accepts(r)
      <3>1. /\ pc'[r] = IF man[r].id = record[r].id THEN "load" ELSE "save"
            /\ man'[r] = man[r] /\ body'[r] = body[r]
        BY <1>4, <1>t, <2>3 DEF verify
      <3>2. man[r] \in published /\ body[r] = man[r].body /\ notOlder(r)
        BY <2>3 DEF Accepts
      <3>3. man[r].issued >= record[r].issued
        BY <1>t, <3>2 DEF notOlder
      <3>4. ASSUME man[r].id = record[r].id
            PROVE  record[r] = [id |-> man[r].id, issued |-> man[r].issued]
        <4>1. PICK m \in published : record[r] = [id |-> m.id, issued |-> m.issued]
          BY <1>t, <3>2, <3>4 DEF RecordInv, Attested, SignedInv
        <4>2. m = man[r]
          BY <1>t, <3>2, <3>4, <4>1 DEF SignedInv
        <4> QED  BY <4>1, <4>2
      <3> QED  BY <1>2, <2>1, <2>2, <3>1, <3>2, <3>3, <3>4
    <2>4. CASE ~Accepts(r)
      <3>1. pc'[r] = "down"
        BY <1>4, <1>t, <2>4 DEF verify, Exit
      <3> QED  BY <1>2, <2>1, <2>2, <3>1
    <2> QED  BY <2>3, <2>4
  <1>5. ASSUME NEW r \in Readers, saveRecord(r)  PROVE RecordInv'
    <2>1. /\ UNCHANGED <<published, durableRecord, powered, served>>
          /\ \A q \in Readers \ {r} :
                /\ pc'[q] = pc[q] /\ man'[q] = man[q] /\ body'[q] = body[q]
                /\ record'[q] = record[q] /\ served'[q] = served[q]
      BY <1>5, <1>t DEF saveRecord, Exit, signVars, failureVars, histVars
    <2>2. man[r] \in published /\ body[r] = man[r].body /\ man[r].issued >= record[r].issued
      BY <1>5, <1>t DEF RecordInv, saveRecord
    <2>3. CASE /\ record' = [record EXCEPT ![r] = [id |-> man[r].id, issued |-> man[r].issued]]
               /\ pc' = [pc EXCEPT ![r] = "load"] /\ UNCHANGED <<man, body>>
      <3>1. record'[r] = [id |-> man[r].id, issued |-> man[r].issued]
            /\ pc'[r] = "load" /\ man'[r] = man[r] /\ body'[r] = body[r]
        BY <1>t, <2>3
      <3>2. Attested(record[r])'
        BY <2>1, <2>2, <3>1 DEF Attested
      <3>3. powered => served'[r] <= record'[r].issued
        BY <1>t, <2>1, <2>2, <3>1 DEF RecordInv
      <3> QED  BY <1>2, <2>1, <2>2, <3>1, <3>2, <3>3
    <2>4. CASE Exit(r) /\ UNCHANGED record
      <3>1. pc'[r] = "down"
        BY <1>t, <2>4 DEF Exit
      <3>2. Attested(record[r])' /\ (powered => served'[r] <= record'[r].issued)
        BY <1>t, <2>1, <2>4 DEF RecordInv, Attested
      <3> QED  BY <1>2, <2>1, <3>1, <3>2
    <2> QED  BY <1>5, <2>3, <2>4 DEF saveRecord
  <1>6. ASSUME NEW r \in Readers, load(r)  PROVE RecordInv'
    <2>1. /\ UNCHANGED <<published, durableRecord, powered, record>>
          /\ \A q \in Readers \ {r} :
                /\ pc'[q] = pc[q] /\ man'[q] = man[q] /\ body'[q] = body[q]
                /\ served'[q] = served[q]
      BY <1>6, <1>t DEF load, loadFrom, Exit, signVars, failureVars
    <2>2. /\ man[r] \in published /\ body[r] = man[r].body
          /\ record[r] = [id |-> man[r].id, issued |-> man[r].issued]
          /\ powered => served[r] <= record[r].issued
      BY <1>6, <1>t DEF RecordInv, load
    <2>3. Attested(record[r])'
      BY <1>t, <2>1 DEF RecordInv, Attested
    <2>4. \/ pc'[r] = "down" /\ served'[r] = served[r]
          \/ /\ pc'[r] = "serving" /\ man'[r] = man[r] /\ body'[r] = body[r]
             /\ served'[r] \in {man[r].issued, served[r]}
      BY <1>6, <1>t DEF load, loadFrom, Exit
    <2>5. powered => served'[r] <= record'[r].issued
      BY <1>t, <2>1, <2>2, <2>4
    <2> QED  BY <1>2, <2>1, <2>2, <2>3, <2>4, <2>5
  <1>7. ASSUME NEW r \in Readers, FlushRecord(r)  PROVE RecordInv'
    <2>1. /\ UNCHANGED <<published, pc, man, body, record, powered, served>>
          /\ \A q \in Readers : durableRecord'[q] \in {record[q], durableRecord[q]}
      BY <1>7, <1>t DEF FlushRecord, signVars, failureVars, histVars
    <2>2. \A q \in Readers : Attested(record[q])' /\ Attested(durableRecord[q])'
      <3> TAKE q \in Readers
      <3>1. Attested(record[q])'
        BY <1>t, <2>1 DEF RecordInv, Attested
      <3>2. CASE durableRecord'[q] = record[q]
        BY <1>t, <2>1, <3>2 DEF RecordInv, Attested
      <3>3. CASE durableRecord'[q] = durableRecord[q]
        BY <1>t, <2>1, <3>3 DEF RecordInv, Attested
      <3> QED  BY <2>1, <3>1, <3>2, <3>3
    <2> QED  BY <1>t, <2>1, <2>2 DEF RecordInv
  <1>8. CASE PowerLoss
    <2>1. published' = published /\ durableRecord' = durableRecord /\ record' = durableRecord
          /\ ~powered' /\ \A q \in Readers : pc'[q] = "down"
      BY <1>8 DEF PowerLoss, signVars
    <2>2. \A q \in Readers : Attested(record[q])' /\ Attested(durableRecord[q])'
      BY <1>t, <2>1 DEF RecordInv, Attested
    <2> QED  BY <2>1, <2>2 DEF RecordInv
  <1>9. \/ \E r \in Readers : \/ readManifest(r) \/ readBody(r) \/ ReaderDies(r)
                              \/ verify(r) \/ saveRecord(r) \/ load(r) \/ FlushRecord(r)
        \/ PowerLoss
        \/ published \subseteq published' /\ UNCHANGED readerVars
    BY DEF SnapshotNext, Publisher, Reader, snapshotVars, signVars, failureVars, histVars,
           Save, Reload, signRead,
           RegisterKey, RevokeKey, signBody, signManifest, PlaceManifest, PlaceBody, Use,
           SnapshotTick
  <1> HIDE DEF readerVars
  <1> QED  BY <1>1, <1>3, <1>4, <1>5, <1>6, <1>7, <1>8, <1>9

\* The inductive invariant of the snapshots holds.
LEMMA SnapshotInvariant == SnapshotSpec => []SnapshotInv
  <1>1. SnapshotInv /\ [SnapshotNext]_snapshotVars => SnapshotInv'
    BY SnapshotTypeStep, SignedStep, RecordStep DEF SnapshotInv
  <1> QED  BY <1>1, SnapshotInitially, PTL DEF SnapshotSpec

\* A service trusts exactly the records of one signed snapshot and, while the
\* power stays on, none older than one it served before, whatever files are
\* put in place between any two steps of any number of readers.
THEOREM SnapshotsAreSafe == SnapshotSpec => []SnapshotSafe
  <1>1. SnapshotInv => SnapshotSafe
    <2> SUFFICES ASSUME SnapshotInv  PROVE SnapshotSafe
      OBVIOUS
    <2>1. SnapshotTypeOK /\ RecordInv
      BY DEF SnapshotInv
    <2>2. LoadedIsSigned
      BY <2>1 DEF LoadedIsSigned, RecordInv
    <2>3. NoRollbackWhilePowered
      BY <2>1, ManifestFields DEF NoRollbackWhilePowered, NoRollback, RecordInv, SnapshotTypeOK
    <2> QED  BY <2>1, <2>2, <2>3 DEF SnapshotSafe
  <1> QED  BY <1>1, SnapshotInvariant, PTL

-----------------------------------------------------------------------------
(* Revocations arrive: a body that still shows a key as active was read    *)
(* before the key was revoked, and the manifest over it carries a date not *)
(* much later.                                                             *)

\* What the signer read, and when.
SigningInv ==
    signing # NotSigning =>
        /\ signing.at <= time /\ time <= signing.at + MaxSignDelay
        /\ \A k \in IssuerKeys : signing.body[k] = "active" => signing.at <= revokedAt[k]

\* Dates of keys, manifests and uses.
DatedInv ==
    /\ time <= MaxSnapshotTime
    /\ time <= MaxSnapshotTime
    /\ \A k \in IssuerKeys : registry[k] # "revoked" => revokedAt[k] = MaxSnapshotTime + 1
    /\ SigningInv
    /\ \A m \in published, k \in IssuerKeys :
          m.body[k] = "active" => m.issued <= revokedAt[k] + FutureSkew + MaxSignDelay
    /\ \A r \in Readers, k \in IssuerKeys : usedAt[r][k] <= time
    /\ RevocationReaches

LEMMA DatedInitially == SnapshotInit => DatedInv
  BY SnapshotAssumption DEF SnapshotInit, DatedInv, SigningInv, RevocationReaches

\* Every step keeps the dates.
LEMMA DatedStep ==
    SnapshotInv /\ DatedInv /\ [SnapshotNext]_snapshotVars => DatedInv'
  <1> SUFFICES ASSUME SnapshotInv, DatedInv, [SnapshotNext]_snapshotVars
               PROVE  DatedInv'
    OBVIOUS
  <1> USE ManifestFields, SnapshotAssumption
  <1> DEFINE datedVars == <<time, registry, published, signing, revokedAt, usedAt>>
  <1>t. /\ SignedInv /\ RecordInv /\ time \in Nat /\ registry \in Body /\ held \in Body
        /\ published \subseteq Manifest
        /\ signing = NotSigning \/ signing \in Signing
        /\ man \in [Readers -> Manifest]
        /\ revokedAt \in [IssuerKeys -> Nat]
        /\ usedAt \in [Readers -> [IssuerKeys -> Nat \union {-1}]]
    BY DEF SnapshotInv, SnapshotTypeOK
  \* The file is rewritten: what it shows anew as revoked was used until now
  \* at the latest, and what it no longer shows so may be used.
  <1>1. ASSUME NEW b \in Body, registry' = b, revokedAt' = shownSince(b),
               UNCHANGED <<time, published, usedAt>>,
               signing = NotSigning => signing' = NotSigning,
               signing # NotSigning => signing'.at = signing.at /\ signing'.body = signing.body
        PROVE  DatedInv'
    <2>1. /\ time <= MaxSnapshotTime
          /\ \A k \in IssuerKeys :
                /\ revokedAt'[k] \in {MaxSnapshotTime + 1, revokedAt[k], time}
                /\ revokedAt'[k] = revokedAt[k] \/ revokedAt'[k] >= time
                /\ b[k] # "revoked" => revokedAt'[k] = MaxSnapshotTime + 1
      BY <1>1, <1>t DEF DatedInv, shownSince
    <2>2. \A k \in IssuerKeys : revokedAt'[k] \in Nat /\ revokedAt[k] \in Nat
      BY <1>t, <2>1
    <2>3. SigningInv'
      <3> SUFFICES ASSUME signing' # NotSigning
                   PROVE  /\ signing'.at <= time /\ time <= signing'.at + MaxSignDelay
                          /\ \A k \in IssuerKeys :
                                signing'.body[k] = "active" => signing'.at <= revokedAt'[k]
        BY <1>1 DEF SigningInv
      <3>1. CASE signing = NotSigning
        BY <1>1, <3>1
      <3>2. CASE signing # NotSigning
        BY <1>1, <1>t, <2>1, <2>2, <3>2 DEF DatedInv, SigningInv, Signing
      <3> QED  BY <3>1, <3>2
    <2>4. \A m \in published', j \in IssuerKeys :
             m.body[j] = "active" => m.issued <= revokedAt'[j] + FutureSkew + MaxSignDelay
      BY <1>1, <1>t, <2>1, <2>2 DEF DatedInv, SignedInv
    <2>5. RevocationReaches'
      BY <1>1, <1>t, <2>1, <2>2 DEF DatedInv, RevocationReaches
    <2> QED  BY <1>1, <1>t, <2>1, <2>3, <2>4, <2>5 DEF DatedInv
  <1>2. ASSUME NEW k \in IssuerKeys, RegisterKey(k) \/ RevokeKey(k)  PROVE DatedInv'
    <2>1. \A s \in {"active", "revoked"} : [held EXCEPT ![k] = s] \in Body
      BY <1>t DEF Body
    <2>2. ASSUME NEW b \in Body, Save(b)  PROVE DatedInv'
      BY <1>1, <2>2 DEF Save
    <2> QED  BY <1>2, <2>1, <2>2 DEF RegisterKey, RevokeKey
  <1>3. CASE signRead \/ signBody
    <2>1. CASE signRead
      <3>1. /\ UNCHANGED <<time, registry, published, revokedAt, usedAt>>
            /\ signing' = [stage |-> "read", body |-> registry, at |-> time]
        BY <2>1 DEF signRead, histVars
      <3>2. SigningInv'
        BY <1>t, <3>1 DEF DatedInv, SigningInv
      <3> QED  BY <3>1, <3>2 DEF DatedInv, RevocationReaches
    <2>2. CASE signBody
      <3>1. /\ signing \in Signing
            /\ signing # NotSigning /\ signing' # NotSigning
            /\ registry' = signing.body /\ revokedAt' = shownSince(signing.body)
            /\ UNCHANGED <<time, published, usedAt>>
            /\ signing'.at = signing.at /\ signing'.body = signing.body
        BY <1>t, <2>2 DEF signBody, NotSigning
      <3>2. signing.body \in Body
        BY <3>1 DEF Signing
      <3> QED  BY <1>1, <3>1, <3>2
    <2> QED  BY <1>3, <2>1, <2>2
  <1>4. ASSUME NEW skew \in 0..FutureSkew, signManifest(skew)  PROVE DatedInv'
    <2> DEFINE m == [id |-> NextId, issued |-> time + skew, body |-> signing.body]
    <2>1. /\ UNCHANGED <<time, registry, revokedAt, usedAt>> /\ signing # NotSigning
          /\ published' = published \union {m} /\ signing' = NotSigning
      BY <1>4 DEF signManifest, histVars, NotSigning
    <2>2. \A j \in IssuerKeys :
             m.body[j] = "active" => m.issued <= revokedAt[j] + FutureSkew + MaxSignDelay
      BY <1>t, <2>1 DEF DatedInv, SigningInv, Signing
    <2> HIDE DEF m
    <2>3. \A p \in published', j \in IssuerKeys :
             p.body[j] = "active" => p.issued <= revokedAt'[j] + FutureSkew + MaxSignDelay
      BY <2>1, <2>2 DEF DatedInv
    <2> QED  BY <2>1, <2>3 DEF DatedInv, SigningInv, RevocationReaches
  <1>5. ASSUME NEW r \in Readers, NEW k \in IssuerKeys, Use(r, k)  PROVE DatedInv'
    <2>1. /\ UNCHANGED <<time, registry, published, signing, revokedAt>>
          /\ usedAt' = [usedAt EXCEPT ![r][k] = time]
          /\ pc[r] = "serving" /\ mayUse(r, k)
      BY <1>5 DEF Use, signVars
    <2>2. man[r] \in published /\ body[r] = man[r].body
      BY <1>t, <2>1 DEF RecordInv
    <2>3. r \notin Copies => time <= revokedAt[k] + MaxAge + FutureSkew + MaxSignDelay
      BY <1>t, <2>1, <2>2 DEF DatedInv, mayUse, fresh
    <2>4. \A q \in Readers, j \in IssuerKeys :
             usedAt'[q][j] = IF q = r /\ j = k THEN time ELSE usedAt[q][j]
      BY <1>t, <2>1
    <2>5. RevocationReaches'
      BY <1>t, <2>1, <2>3, <2>4 DEF DatedInv, RevocationReaches
    <2>6. \A q \in Readers, j \in IssuerKeys : usedAt'[q][j] <= time'
      BY <1>t, <2>1, <2>4 DEF DatedInv
    <2> QED  BY <2>1, <2>5, <2>6 DEF DatedInv, SigningInv
  <1>6. CASE SnapshotTick
    <2>1. /\ UNCHANGED <<registry, published, signing, revokedAt, usedAt>>
          /\ time' = time + 1 /\ time < MaxSnapshotTime
          /\ signing # NotSigning => time < signing.at + MaxSignDelay
      BY <1>6 DEF SnapshotTick, signVars, histVars
    <2>2. SigningInv'
      BY <1>t, <2>1 DEF DatedInv, SigningInv, Signing
    <2> QED  BY <1>t, <2>1, <2>2 DEF DatedInv, RevocationReaches
  <1>7. CASE UNCHANGED datedVars
    BY <1>7 DEF DatedInv, SigningInv, RevocationReaches
  <1>8. \/ \E k \in IssuerKeys : RegisterKey(k) \/ RevokeKey(k)
        \/ signRead \/ signBody
        \/ \E skew \in 0..FutureSkew : signManifest(skew)
        \/ \E r \in Readers, k \in IssuerKeys : Use(r, k)
        \/ SnapshotTick
        \/ UNCHANGED datedVars
    BY DEF SnapshotNext, Publisher, Reader, snapshotVars, signVars, histVars, Reload,
           PlaceManifest, PlaceBody, readManifest, readBody, verify, saveRecord, load, ReaderDies,
           FlushRecord, PowerLoss
  <1> HIDE DEF datedVars
  <1> QED  BY <1>1, <1>2, <1>3, <1>4, <1>5, <1>6, <1>7, <1>8

\* A service that looks keys up relies on a key no later than max_age after
\* the registry's file came to show it revoked for good, give or take the
\* signer's delay and clock; snapshot sign may overwrite the file in between.
THEOREM RevocationsReach == SnapshotSpec => []RevocationReaches
  <1>1. DatedInv => RevocationReaches
    BY DEF DatedInv
  <1> QED
    BY <1>1, SnapshotInvariant, DatedInitially, DatedStep, PTL DEF SnapshotSpec

-----------------------------------------------------------------------------
(* The registry.  The three copies of the records are ordered: memory      *)
(* keeps what the file has, the file what is durable, and what is durable  *)
(* keeps what was acknowledged.  A mutation only moves the newest of them. *)

\* What the lock holder has done so far.
StageInv ==
    /\ seed >= 1
    /\ op = Idle \/ op \in [stage : {"save", "sync"}, before : Records]
    /\ svc = "down" => op = Idle
    /\ svc # "down" /\ op = Idle => mem = file
    /\ op.stage = "save" => op.before = file /\ Keeps(mem, file)
    /\ op.stage = "sync" => mem = file

\* The copies keep each other's records.
KeptInv ==
    /\ Keeps(file, durable)
    /\ synced => Keeps(durable, acked)

\* One key in force, in what was acknowledged too.
SingleInv ==
    \A n \in Names : \A recs \in {mem[n], file[n], durable[n], acked[n]} :
        AtMostOne(Active(recs))

\* A key in force in one copy is in force in every newer one, unless it was
\* withdrawn.
InForceInv ==
    \A n \in Names \ withdrawn :
        /\ Active(durable[n]) # {} => Active(file[n]) # {}
        /\ svc # "down" /\ Active(file[n]) # {} => Active(mem[n]) # {}
        /\ synced /\ Active(acked[n]) # {} => Active(durable[n]) # {}

RegistryInv == TypeOK /\ StageInv /\ KeptInv /\ SingleInv /\ InForceInv

\* Keeps for the records of one name.
KeepsOne(new, old) ==
    /\ Len(old) <= Len(new)
    /\ \A i \in DOMAIN old :
          /\ new[i] = [old[i] EXCEPT !.status = new[i].status]
          /\ old[i].status # "active" => new[i].status = old[i].status

LEMMA KeepsByName ==
    ASSUME NEW a, NEW b
    PROVE  Keeps(b, a) <=> \A n \in Names : KeepsOne(b[n], a[n])
  BY DEF Keeps, KeepsOne

\* Two records that differ in their status at most.
LEMMA RecordsDiffer ==
    ASSUME NEW r \in Record, NEW s \in Record
    PROVE  s = [r EXCEPT !.status = s.status] <=>
               s.key = r.key /\ s.from = r.from /\ s.until = r.until
  BY DEF Record

LEMMA KeepsOneReflexive ==
    ASSUME NEW recs \in Seq(Record)  PROVE KeepsOne(recs, recs)
  <1>1. \A i \in DOMAIN recs : recs[i] \in Record
    OBVIOUS
  <1> QED  BY <1>1, RecordsDiffer DEF KeepsOne

LEMMA KeepsOneTransitive ==
    ASSUME NEW a \in Seq(Record), NEW b \in Seq(Record), NEW c \in Seq(Record),
           KeepsOne(b, a), KeepsOne(c, b)
    PROVE  KeepsOne(c, a)
  <1>1. Len(a) <= Len(c)
    BY DEF KeepsOne
  <1>2. ASSUME NEW i \in DOMAIN a
        PROVE  /\ c[i] = [a[i] EXCEPT !.status = c[i].status]
               /\ a[i].status # "active" => c[i].status = a[i].status
    <2>1. i \in DOMAIN b /\ i \in DOMAIN c
      BY DEF KeepsOne
    <2>2. a[i] \in Record /\ b[i] \in Record /\ c[i] \in Record
      BY <2>1
    <2>3. /\ b[i].key = a[i].key /\ b[i].from = a[i].from /\ b[i].until = a[i].until
          /\ a[i].status # "active" => b[i].status = a[i].status
      BY <1>2, <2>2, RecordsDiffer DEF KeepsOne
    <2>4. /\ c[i].key = b[i].key /\ c[i].from = b[i].from /\ c[i].until = b[i].until
          /\ b[i].status # "active" => c[i].status = b[i].status
      BY <2>1, <2>2, RecordsDiffer DEF KeepsOne
    <2> QED  BY <2>2, <2>3, <2>4, RecordsDiffer
  <1> QED  BY <1>1, <1>2 DEF KeepsOne

\* Keeping is a preorder on records.
LEMMA KeepsPreorder ==
    /\ \A a \in Records : Keeps(a, a)
    /\ \A a, b, c \in Records : Keeps(b, a) /\ Keeps(c, b) => Keeps(c, a)
  <1>1. \A a \in Records, n \in Names : a[n] \in Seq(Record)
    BY DEF Records
  <1>2. \A a \in Records : Keeps(a, a)
    BY <1>1, KeepsByName, KeepsOneReflexive
  <1>3. ASSUME NEW a \in Records, NEW b \in Records, NEW c \in Records,
               Keeps(b, a), Keeps(c, b)
        PROVE  Keeps(c, a)
    BY <1>1, <1>3, KeepsByName, KeepsOneTransitive
  <1> QED  BY <1>2, <1>3

\* setStatus: where at most one record is in force, none is afterwards.
LEMMA StatusWithdrawn ==
    ASSUME NEW recs \in Seq(Record), AtMostOne(Active(recs)),
           NEW status \in {"revoked", "superseded"}
    PROVE  /\ withStatus(recs, status) \in Seq(Record)
           /\ Len(withStatus(recs, status)) = Len(recs)
           /\ KeepsOne(withStatus(recs, status), recs)
           /\ Active(withStatus(recs, status)) = {}
  <1> DEFINE new == withStatus(recs, status)
  <1>1. Len(recs) \in Nat /\ DOMAIN recs = 1 .. Len(recs)
    OBVIOUS
  <1>2. DOMAIN new = DOMAIN recs
    BY DEF withStatus
  <1>3. ASSUME NEW i \in DOMAIN recs
        PROVE  /\ new[i] \in Record /\ new[i].status # "active"
               /\ new[i] = [recs[i] EXCEPT !.status = new[i].status]
               /\ recs[i].status # "active" => new[i].status = recs[i].status
    <2>1. recs[i] \in Record
      BY <1>3
    <2>2. CASE i \in Active(recs)
      <3>1. \A j \in Active(recs) : i <= j
        BY <1>1, <2>2 DEF AtMostOne, Active
      <3>2. new[i] = [recs[i] EXCEPT !.status = status]
        BY <1>3, <2>2, <3>1 DEF withStatus
      <3>3. new[i] \in Record /\ new[i].status = status
        BY <2>1, <3>2 DEF Record, Statuses
      <3> QED  BY <2>1, <2>2, <3>2, <3>3 DEF Active
    <2>3. CASE i \notin Active(recs)
      <3>1. new[i] = recs[i]
        BY <1>3, <2>3 DEF withStatus
      <3> QED  BY <1>3, <2>1, <2>3, <3>1, RecordsDiffer DEF Active
    <2> QED  BY <2>2, <2>3
  <1>4. new = [i \in 1 .. Len(recs) |-> new[i]]
    BY <1>1 DEF withStatus
  <1> HIDE DEF new
  <1>5. new \in [1 .. Len(recs) -> Record]
    BY <1>1, <1>3, <1>4
  <1>6. new \in Seq(Record)
    BY <1>1, <1>5, SeqDef
  <1>7. Len(new) = Len(recs)
    BY <1>1, <1>2, <1>6
  <1>8. KeepsOne(new, recs) /\ Active(new) = {}
    BY <1>2, <1>3, <1>7 DEF KeepsOne, Active
  <1> QED  BY <1>6, <1>7, <1>8 DEF new

\* Appending to the records of a name keeps them.
LEMMA AppendKeeps ==
    ASSUME NEW recs \in Seq(Record), NEW r \in Record
    PROVE  /\ Append(recs, r) \in Seq(Record)
           /\ KeepsOne(Append(recs, r), recs)
           /\ r.status # "active" => Active(Append(recs, r)) = Active(recs)
           /\ r.status = "active" =>
                 Active(Append(recs, r)) = Active(recs) \union {Len(recs) + 1}
  <1> DEFINE new == Append(recs, r)
  <1>1. /\ new \in Seq(Record) /\ Len(new) = Len(recs) + 1
        /\ DOMAIN recs = 1 .. Len(recs) /\ DOMAIN new = 1 .. Len(recs) + 1
        /\ Len(recs) \in Nat
    OBVIOUS
  <1>2. \A i \in 1 .. Len(recs) : new[i] = recs[i] /\ recs[i] \in Record
    OBVIOUS
  <1>3. new[Len(recs) + 1] = r
    OBVIOUS
  <1> HIDE DEF new
  <1>4. KeepsOne(new, recs)
    BY <1>1, <1>2, RecordsDiffer DEF KeepsOne
  <1>5. DOMAIN new = DOMAIN recs \union {Len(recs) + 1}
    BY <1>1
  <1>6. /\ r.status # "active" => Active(new) = Active(recs)
        /\ r.status = "active" => Active(new) = Active(recs) \union {Len(recs) + 1}
    BY <1>1, <1>2, <1>3, <1>5 DEF Active
  <1> QED  BY <1>1, <1>4, <1>6 DEF new

LEMMA RegistryInitially == Init => RegistryInv
  <1> SUFFICES ASSUME Init  PROVE RegistryInv
    OBVIOUS
  <1>1. NoRecords \in Records /\ \A n \in Names : NoRecords[n] = <<>>
    BY DEF NoRecords, Records
  <1>2. \A n \in Names : Active(NoRecords[n]) = {}
    <2>1. DOMAIN <<>> = {}
      OBVIOUS
    <2>2. Active(<<>>) = {}
      BY <2>1 DEF Active
    <2> QED  BY <1>1, <2>2
  <1>3. TypeOK
    BY <1>1 DEF Init, TypeOK
  <1>4. StageInv
    BY DEF Init, StageInv, Idle
  <1>5. KeptInv
    BY <1>1, KeepsPreorder DEF Init, KeptInv
  <1>6. SingleInv /\ InForceInv
    BY <1>2 DEF Init, SingleInv, InForceInv, AtMostOne
  <1> QED  BY <1>3, <1>4, <1>5, <1>6 DEF RegistryInv

\* A mutation of one name that keeps its records and leaves at most one in
\* force, and one if there was one unless the name is withdrawn.
LEMMA MutateStep ==
    ASSUME RegistryInv, svc # "down",
           NEW n \in Names, NEW recs \in Seq(Record), Mutate(n, recs),
           KeepsOne(recs, mem[n]), AtMostOne(Active(recs)),
           Active(mem[n]) # {} => Active(recs) # {} \/ n \in withdrawn',
           seed' \in Nat \ {0}, withdrawn' \subseteq Names, withdrawn \subseteq withdrawn'
    PROVE  RegistryInv'
  <1> USE DEF RegistryInv
  <1>t. /\ mem \in Records /\ file \in Records /\ durable \in Records /\ acked \in Records
        /\ now \in Nat /\ faults \in Nat /\ synced \in BOOLEAN
        /\ svc \in {"down", "seeding", "up"} /\ mem = file
    BY DEF TypeOK, StageInv, Mutate
  <1>f. /\ op' = [stage |-> "save", before |-> mem]
        /\ mem' = [mem EXCEPT ![n] = recs]
        /\ UNCHANGED <<now, svc, file, durable, faults, synced, acked>>
    BY DEF Mutate, diskVars, countVars
  <1>m. /\ mem' \in Records /\ mem'[n] = recs
        /\ \A q \in Names \ {n} : mem'[q] = mem[q]
    BY <1>t, <1>f DEF Records
  <1>1. TypeOK'
    BY <1>t, <1>f, <1>m DEF TypeOK
  <1>2. Keeps(mem', file')
    <2>1. \A q \in Names : KeepsOne(mem'[q], mem[q])
      BY <1>t, <1>m, KeepsOneReflexive DEF Records
    <2> QED  BY <1>t, <1>f, <2>1, KeepsByName
  <1>3. StageInv'
    BY <1>t, <1>f, <1>2 DEF StageInv, Idle
  <1>4. KeptInv'
    BY <1>f DEF KeptInv, Keeps
  <1>5. SingleInv'
    <2> SUFFICES ASSUME NEW q \in Names
                 PROVE  \A x \in {mem'[q], file'[q], durable'[q], acked'[q]} :
                            AtMostOne(Active(x))
      BY DEF SingleInv, AtMostOne, Active
    <2>1. AtMostOne(Active(mem'[q]))
      <3>1. CASE q = n
        BY <1>m, <3>1
      <3>2. CASE q # n
        BY <1>m, <3>2 DEF SingleInv
      <3> QED  BY <3>1, <3>2
    <2> QED  BY <1>f, <2>1 DEF SingleInv
  <1>6. InForceInv'
    <2> SUFFICES ASSUME NEW q \in Names \ withdrawn'
                 PROVE  /\ Active(durable[q]) # {} => Active(file[q]) # {}
                        /\ Active(file[q]) # {} => Active(mem'[q]) # {}
                        /\ synced /\ Active(acked[q]) # {} => Active(durable[q]) # {}
      BY <1>f DEF InForceInv, Active
    <2>1. q \in Names \ withdrawn
      OBVIOUS
    <2>2. CASE q = n
      BY <1>m, <1>t, <2>1, <2>2 DEF InForceInv
    <2>3. CASE q # n
      BY <1>m, <1>t, <2>1, <2>3 DEF InForceInv
    <2> QED  BY <2>2, <2>3
  <1> QED  BY <1>1, <1>3, <1>4, <1>5, <1>6

\* What Register, Replace, Revoke and Supersede do is such a mutation.
LEMMA MutationStep == RegistryInv /\ Mutation => RegistryInv'
  <1> SUFFICES ASSUME RegistryInv, Mutation  PROVE RegistryInv'
    OBVIOUS
  <1>t. /\ \A n \in Names : mem[n] \in Seq(Record) /\ AtMostOne(Active(mem[n]))
        /\ now \in Nat /\ seed \in Nat \ {0} /\ withdrawn \subseteq Names
    BY DEF RegistryInv, TypeOK, Records, SingleInv, StageInv
  <1>r. \A k \in Keys \union {ZeroKey} :
            /\ newRecord(k) \in Record /\ newRecord(k).status = "active"
            /\ [newRecord(k) EXCEPT !.status = "revoked"] \in Record
            /\ [newRecord(k) EXCEPT !.status = "revoked"].status = "revoked"
    BY <1>t, RegistryAssumption DEF newRecord, Record, Statuses
  <1>1. CASE Register
    <2> DEFINE n    == Seeds[seed]
               r    == [newRecord(ZeroKey) EXCEPT !.status = "revoked"]
               recs == Append(mem[n], r)
    <2>1. /\ svc # "down" /\ seed' = seed + 1 /\ withdrawn' = withdrawn
          /\ Active(mem[n]) = {} /\ Mutate(n, recs) /\ seed <= Len(Seeds)
      BY <1>1 DEF Register
    <2>2. n \in Names
      BY <1>t, <2>1, RegistryAssumption
    <2>3. /\ recs \in Seq(Record) /\ KeepsOne(recs, mem[n])
          /\ Active(recs) = {}
      BY <1>r, <1>t, <2>1, <2>2, AppendKeeps
    <2> HIDE DEF recs, n
    <2> QED  BY <1>t, <2>1, <2>2, <2>3, MutateStep DEF AtMostOne
  <1>2. ASSUME NEW n \in Names, NEW k \in Keys, Replace(n, k)
        PROVE  RegistryInv'
    <2> DEFINE old  == withStatus(mem[n], "revoked")
               recs == Append(old, newRecord(k))
    <2>1. /\ svc # "down" /\ seed' = seed /\ withdrawn' = withdrawn /\ Mutate(n, recs)
      BY <1>2 DEF Replace
    <2>2. old \in Seq(Record) /\ KeepsOne(old, mem[n]) /\ Active(old) = {}
      BY <1>t, StatusWithdrawn
    <2> HIDE DEF old
    <2>3. /\ recs \in Seq(Record) /\ KeepsOne(recs, old)
          /\ Active(recs) = {Len(old) + 1}
      BY <1>r, <2>2, AppendKeeps
    <2> HIDE DEF recs
    <2>4. KeepsOne(recs, mem[n]) /\ AtMostOne(Active(recs)) /\ Active(recs) # {}
      BY <1>t, <2>2, <2>3, KeepsOneTransitive DEF AtMostOne
    <2> QED  BY <1>t, <2>1, <2>3, <2>4, MutateStep
  <1>3. ASSUME NEW n \in Names, NEW status \in {"revoked", "superseded"},
               setStatus(n, status)
        PROVE  RegistryInv'
    <2> DEFINE recs == withStatus(mem[n], status)
    <2>1. /\ svc # "down" /\ seed' = seed /\ withdrawn' = withdrawn \union {n}
          /\ Mutate(n, recs)
      BY <1>3 DEF setStatus
    <2>2. recs \in Seq(Record) /\ KeepsOne(recs, mem[n]) /\ Active(recs) = {}
      BY <1>t, StatusWithdrawn
    <2> HIDE DEF recs
    <2> QED  BY <1>t, <2>1, <2>2, MutateStep DEF AtMostOne
  <1> QED  BY <1>1, <1>2, <1>3 DEF Mutation, Revoke, Supersede

\* The other steps only copy or drop records.
LEMMA CopyStep ==
    RegistryInv /\ (save \/ Start \/ Seeded \/ Crash \/ Flush) => RegistryInv'
  <1> SUFFICES ASSUME RegistryInv, save \/ Start \/ Seeded \/ Crash \/ Flush
               PROVE  RegistryInv'
    OBVIOUS
  <1>t. /\ mem \in Records /\ file \in Records /\ durable \in Records /\ acked \in Records
        /\ NoRecords \in Records /\ seed \in Nat /\ seed >= 1 /\ now \in Nat
        /\ svc \in {"down", "seeding", "up"} /\ faults \in Nat /\ synced \in BOOLEAN
        /\ withdrawn \subseteq Names
        /\ op = Idle \/ op \in [stage : {"save", "sync"}, before : Records]
    BY DEF RegistryInv, TypeOK, StageInv, NoRecords, Records
  <1>n. \A n \in Names : Active(NoRecords[n]) = {}
    <2>1. DOMAIN <<>> = {}
      OBVIOUS
    <2> QED  BY <2>1 DEF Active, NoRecords
  <1>i. Idle.stage = "idle"
    BY DEF Idle
  <1>k. /\ Keeps(file, durable) /\ (synced => Keeps(durable, acked))
        /\ \A a \in Records : Keeps(a, a)
        /\ \A a, b, c \in Records : Keeps(b, a) /\ Keeps(c, b) => Keeps(c, a)
    BY KeepsPreorder DEF RegistryInv, KeptInv
  <1>p. \A n \in Names : AtMostOne(Active(mem[n])) /\ AtMostOne(Active(file[n]))
            /\ AtMostOne(Active(durable[n])) /\ AtMostOne(Active(acked[n]))
            /\ AtMostOne(Active(NoRecords[n]))
    BY <1>n DEF RegistryInv, SingleInv, AtMostOne
  <1>f. \A n \in Names \ withdrawn :
            /\ Active(durable[n]) # {} => Active(file[n]) # {}
            /\ svc # "down" /\ Active(file[n]) # {} => Active(mem[n]) # {}
            /\ synced /\ Active(acked[n]) # {} => Active(durable[n]) # {}
    BY DEF RegistryInv, InForceInv
  \* Each step by the values it gives to the copies.
  <1>s. ASSUME TypeOK', StageInv',
               Keeps(file', durable'), synced' => Keeps(durable', acked'),
               \A x \in {mem', file', durable', acked'} :
                   x \in {mem, file, durable, acked, NoRecords},
               \A n \in Names \ withdrawn :
                   /\ Active(durable'[n]) # {} => Active(file'[n]) # {}
                   /\ svc' # "down" /\ Active(file'[n]) # {} => Active(mem'[n]) # {}
                   /\ synced' /\ Active(acked'[n]) # {} => Active(durable'[n]) # {},
               withdrawn' = withdrawn
        PROVE  RegistryInv'
    <2>1. KeptInv'
      BY <1>s DEF KeptInv, Keeps
    <2>2. SingleInv'
      <3>1. \A x \in {mem, file, durable, acked, NoRecords} : \A n \in Names :
                AtMostOne(Active(x[n]))
        BY <1>p
      <3>2. \A x \in {mem', file', durable', acked'} : \A n \in Names :
                AtMostOne(Active(x[n]))
        BY <1>s, <3>1
      <3> QED  BY <3>2 DEF SingleInv, AtMostOne, Active
    <2>3. InForceInv'
      BY <1>s DEF InForceInv, Active
    <2> QED  BY <1>s, <2>1, <2>2, <2>3 DEF RegistryInv
  <1>1. CASE saveFails
    <2>1. /\ op.stage = "save" /\ op.before = file /\ svc # "down"
          /\ mem' \in {NoRecords, file} /\ op' = Idle
          /\ (svc = "seeding" /\ svc' = "down") \/ (svc' = svc /\ mem' = file)
          /\ faults' \in Nat
          /\ UNCHANGED <<now, seed, file, durable, synced, acked, withdrawn>>
      BY <1>1, <1>t, <1>i DEF saveFails, RegistryInv, StageInv, diskVars
    <2>2. TypeOK' /\ StageInv'
      BY <1>t, <1>i, <2>1 DEF TypeOK, StageInv
    <2> QED  BY <1>k, <1>t, <1>f, <1>s, <2>1, <2>2
  <1>2. CASE rename
    <2>1. /\ op.stage = "save" /\ Keeps(mem, file) /\ svc # "down" /\ file' = mem
          /\ op' \in [stage : {"save", "sync"}, before : Records] /\ op'.stage = "sync"
          /\ UNCHANGED <<now, svc, seed, mem, durable, faults, synced, acked, withdrawn>>
      BY <1>2, <1>t, <1>i DEF rename, RegistryInv, StageInv, countVars
    <2>2. TypeOK' /\ StageInv'
      BY <1>t, <1>i, <2>1 DEF TypeOK, StageInv
    <2> QED  BY <1>k, <1>t, <1>f, <1>s, <2>1, <2>2
  <1>3. CASE syncDir
    <2>1. /\ op.stage = "sync" /\ mem = file /\ svc # "down" /\ op' = Idle /\ acked' = mem
          /\ durable' = file \/ (durable' = durable /\ synced' = FALSE)
          /\ synced' = synced \/ synced' = FALSE
          /\ faults' \in Nat
          /\ UNCHANGED <<now, svc, seed, mem, file, withdrawn>>
      BY <1>3, <1>t, <1>i DEF syncDir, RegistryInv, StageInv, countVars
    <2>2. TypeOK' /\ StageInv'
      BY <1>t, <1>i, <2>1 DEF TypeOK, StageInv
    <2> QED  BY <1>k, <1>t, <1>f, <1>s, <2>1, <2>2
  <1>4. CASE Start
    <2>1. /\ svc = "down" /\ op = Idle /\ mem' = file /\ svc' \in {"seeding", "up"}
          /\ seed' = 1
          /\ UNCHANGED <<now, file, durable, op, faults, synced, acked, withdrawn>>
      BY <1>4 DEF Start, RegistryInv, StageInv, diskVars, countVars
    <2>2. TypeOK' /\ StageInv'
      BY <1>t, <1>i, <2>1 DEF TypeOK, StageInv
    <2> QED  BY <1>k, <1>t, <1>f, <1>s, <2>1, <2>2
  <1>5. CASE Seeded
    <2>1. /\ svc = "seeding" /\ op = Idle /\ svc' = "up"
          /\ UNCHANGED <<now, seed, mem, file, durable, op, faults, synced, acked, withdrawn>>
      BY <1>5 DEF Seeded, diskVars, countVars
    <2>2. TypeOK' /\ StageInv'
      BY <1>t, <1>i, <2>1 DEF TypeOK, StageInv, RegistryInv
    <2> QED  BY <1>k, <1>t, <1>f, <1>s, <2>1, <2>2
  <1>6. CASE Crash
    <2>1. /\ svc' = "down" /\ mem' = NoRecords /\ op' = Idle /\ faults' \in Nat
          /\ file' \in {file, durable}
          /\ UNCHANGED <<now, seed, durable, synced, acked, withdrawn>>
      BY <1>6, <1>t DEF Crash
    <2>2. TypeOK' /\ StageInv'
      BY <1>t, <1>i, <2>1 DEF TypeOK, StageInv
    <2> QED  BY <1>k, <1>t, <1>f, <1>s, <2>1, <2>2
  <1>7. CASE Flush
    <2>1. /\ durable' = file
          /\ UNCHANGED <<now, svc, seed, mem, file, op, faults, synced, acked, withdrawn>>
      BY <1>7 DEF Flush, countVars
    <2>2. TypeOK' /\ StageInv'
      BY <1>t, <2>1 DEF TypeOK, StageInv, RegistryInv, Keeps
    <2> QED  BY <1>k, <1>t, <1>f, <1>s, <2>1, <2>2
  <1> QED  BY <1>1, <1>2, <1>3, <1>4, <1>5, <1>6, <1>7 DEF save

LEMMA RegistryInvariant == Spec => []RegistryInv
  <1>1. RegistryInv /\ [Next]_vars => RegistryInv'
    <2> SUFFICES ASSUME RegistryInv, [Next]_vars  PROVE RegistryInv'
      OBVIOUS
    <2>1. ASSUME UNCHANGED <<svc, seed, mem, file, durable, op, faults, synced, acked,
                             withdrawn>>,
                 now' \in Nat
          PROVE  RegistryInv'
      <3>1. TypeOK' /\ StageInv'
        BY <2>1 DEF RegistryInv, TypeOK, StageInv, Keeps
      <3>2. KeptInv'
        BY <2>1 DEF RegistryInv, KeptInv, Keeps
      <3>3. SingleInv' /\ InForceInv'
        BY <2>1 DEF RegistryInv, SingleInv, InForceInv, AtMostOne, Active
      <3> QED  BY <3>1, <3>2, <3>3 DEF RegistryInv
    <2>2. CASE UNCHANGED vars
      BY <2>1, <2>2 DEF vars, RegistryInv, TypeOK
    <2>3. ASSUME NEW t \in 0 .. MaxTime, SetClock(t)  PROVE RegistryInv'
      BY <2>1, <2>3, RegistryAssumption DEF SetClock, diskVars, countVars
    <2> QED  BY <2>2, <2>3, MutationStep, CopyStep DEF Next
  <1> QED  BY <1>1, RegistryInitially, PTL DEF Spec

\* RegistrySafe for every set of names, keys and seeds, every lifetime and any
\* number of failed writes, crashes and power losses: each name has one key in
\* force, memory is the file between mutations, and what trsvc acknowledged
\* survives, a name's key in force included (PersistentRegistry.save,
\* Register, Replace, setStatus).
THEOREM RegistryIsSafe == Spec => []RegistrySafe
  <1>1. RegistryInv => RegistrySafe
    <2> SUFFICES ASSUME RegistryInv  PROVE RegistrySafe
      OBVIOUS
    <2>t. mem \in Records /\ file \in Records /\ durable \in Records /\ acked \in Records
      BY DEF RegistryInv, TypeOK
    <2>1. OneActive /\ MemoryIsStored
      BY DEF RegistryInv, SingleInv, StageInv, OneActive, MemoryIsStored
    <2>2. AckedSurvives
      BY <2>t, KeepsPreorder DEF RegistryInv, KeptInv, AckedSurvives
    <2>3. NeverKeyless
      BY DEF RegistryInv, InForceInv, NeverKeyless
    <2> QED  BY <2>1, <2>2, <2>3 DEF RegistryInv, RegistrySafe
  <1> QED  BY <1>1, RegistryInvariant, PTL

\* NoRetiredKey for every instance: once a rotation is acknowledged Lookup
\* returns no older record, whatever crashed and wherever the clock went
\* (PersistentRegistry.Lookup).
THEOREM RetiredKeysStayRetired == Spec => []NoRetiredKey
  <1>1. RegistryInv => NoRetiredKey
    <2> SUFFICES ASSUME RegistryInv, synced, svc = "up", op = Idle,
                        NEW n \in Names, NEW i \in Active(acked[n]), Lookup(n) # 0
                 PROVE  Lookup(n) >= i
      BY DEF NoRetiredKey
    <2>1. /\ mem = file /\ Keeps(mem, acked)
          /\ mem[n] \in Seq(Record) /\ acked[n] \in Seq(Record)
          /\ AtMostOne(Active(acked[n])) /\ AtMostOne(Active(mem[n]))
      BY KeepsPreorder DEF RegistryInv, TypeOK, Records, StageInv, KeptInv, SingleInv
    <2> DEFINE valid == {j \in DOMAIN mem[n] : IsCurrentlyValid(mem[n][j])}
               best  == {j \in valid : \A q \in valid : mem[n][q].from <= mem[n][j].from}
    <2>2. Lookup(n) \in best
      <3>1. best # {} /\ Lookup(n) = CHOOSE j \in best : \A q \in best : j <= q
        BY DEF Lookup
      <3>2. best \subseteq Active(mem[n])
        BY DEF IsCurrentlyValid, Active
      <3>3. \A j \in best : \A q \in best : j <= q
        BY <2>1, <3>2 DEF AtMostOne, Active
      <3> HIDE DEF best
      <3> QED  BY <3>1, <3>3
    <2>3. Lookup(n) \in Active(mem[n])
      BY <2>2 DEF IsCurrentlyValid, Active
    <2> HIDE DEF best, valid
    <2>4. \A j \in DOMAIN acked[n] : acked[n][j].status # "active" =>
              mem[n][j].status # "active"
      BY <2>1 DEF Keeps
    <2>5. Lookup(n) \in DOMAIN acked[n] => Lookup(n) = i
      BY <2>1, <2>3, <2>4 DEF Active, AtMostOne
    <2> QED  BY <2>1, <2>3, <2>5 DEF Active
  <1> QED  BY <1>1, RegistryInvariant, PTL


=============================================================================
