----------------------------- MODULE StatusList -----------------------------
(***************************************************************************)
(* Token status lists (internal/statuslist): the bit-packed list an issuer *)
(* keeps, the signed snapshots it publishes, and the resolver of a         *)
(* verifier that caches them and answers offline.  Snapshots reach the     *)
(* resolver late, repeated and in any order.                               *)
(***************************************************************************)
EXTENDS Integers, FiniteSets, Functions

CONSTANTS
  Widths,       \* bit widths a list may have, among 1, 2, 4 and 8
  Entries,      \* number of entries of the list
  ListTTL,      \* lifetime of a snapshot
  MaxListTime,  \* bound on the clock
  MaxSets       \* bound on the changes of the list

ASSUME StatusAssumption ==
  /\ Widths \subseteq {1, 2, 4, 8} /\ Entries \in Nat \ {0}
  /\ {ListTTL, MaxListTime, MaxSets} \subseteq Nat

StatusValid == 0
StatusInvalid == 1
StatusSuspended == 2

VARIABLES
  list,       \* the issuer's list: bits, entries, data (bytes of eight bits)
  status,     \* status[i]: what was last set, the meaning of the list
  revokedAt,  \* revokedAt[i]: since when entry i is not valid (-1: it is)
  listClock,
  snapshots,  \* the status list tokens signed
  resolver,   \* the list cached for the uri (NoList)
  sets        \* how often the list was changed

listVars == <<list, status, revokedAt, listClock, snapshots, resolver, sets>>

Slots == 0..(Entries - 1)
byteLen(bits, n) == (bits * n + 7) \div 8
NoList == [bits |-> 0, entries |-> 0, data |-> [k \in {} |-> 0], notAfter |-> 0]

\* New: every entry VALID.  A list that no token carried is undated.
NewList(bits, n) ==
  [bits |-> bits, entries |-> n, notAfter |-> 0,
   data |-> [k \in 0..(byteLen(bits, n) - 1) |-> [j \in 0..7 |-> 0]]]

(***************************************************************************)
(* The packed list: entry i has the bits from i * bits on, its most        *)
(* significant bit first, and bytes are filled from their bit 7 down.      *)
(***************************************************************************)
Get(l, i) ==
  SumFunction([b \in 0..(l.bits - 1) |->
    LET p == i * l.bits + b IN l.data[p \div 8][7 - (p % 8)] * 2 ^ (l.bits - 1 - b)])

\* The bit that Set(i, s) puts at bit position p of the stream.
valueBit(l, i, s, p) == (s \div 2 ^ (l.bits - 1 - (p - i * l.bits))) % 2

Set(l, i, s) ==
  [l EXCEPT !.data = [k \in DOMAIN l.data |-> [j \in 0..7 |->
     LET p == 8 * k + (7 - j)
     IN  IF p \in (i * l.bits)..(i * l.bits + l.bits - 1)
         THEN valueBit(l, i, s, p) ELSE l.data[k][j]]]]

(***************************************************************************)
(* The wire form: the bytes, deflated, and the declared length.  Inflating *)
(* gives the bytes back (zlib); a declared length of zero is inferred from *)
(* the bytes, one the bytes cannot hold is refused.                        *)
(***************************************************************************)
maxEntries(t) == (8 * Cardinality(DOMAIN t.data)) \div t.bits
Decodes(t) == t.bits \in {1, 2, 4, 8} /\ t.entries <= maxEntries(t)
Decode(t) == [t EXCEPT !.entries = IF @ <= 0 THEN maxEntries(t) ELSE @]

(***************************************************************************)
(* The issuer.                                                             *)
(***************************************************************************)
ListInit ==
  /\ \E w \in Widths : list = NewList(w, Entries)
  /\ status = [i \in Slots |-> StatusValid] /\ revokedAt = [i \in Slots |-> -1]
  /\ listClock = 0 /\ snapshots = {} /\ resolver = NoList /\ sets = 0

\* A status that does not fit the width is refused.
SetStatus(i, s) ==
  /\ s < 2 ^ list.bits /\ sets < MaxSets
  /\ list' = Set(list, i, s)
  /\ status' = [status EXCEPT ![i] = s]
  /\ revokedAt' = [revokedAt EXCEPT ![i] = IF s = StatusValid THEN -1
                                           ELSE IF @ = -1 THEN listClock ELSE @]
  /\ sets' = sets + 1
  /\ UNCHANGED <<listClock, snapshots, resolver>>

SignToken ==
  /\ snapshots' = snapshots \cup {[list EXCEPT !.notAfter = listClock + ListTTL]}
  /\ UNCHANGED <<list, status, revokedAt, listClock, resolver, sets>>

ListTick ==
  /\ listClock < MaxListTime /\ listClock' = listClock + 1
  /\ UNCHANGED <<list, status, revokedAt, snapshots, resolver, sets>>

(***************************************************************************)
(* The verifier.                                                           *)
(***************************************************************************)
\* The issuer's signature (only its tokens are in snapshots), a date, and not
\* expired when it is admitted; the date goes into the cached list.
VerifyToken(t, now) == t.notAfter # 0 /\ now < t.notAfter /\ Decodes(t)

\* The cached list is replaced by any token that verifies.
AddVerified(t) ==
  /\ VerifyToken(t, listClock)
  /\ resolver' = Decode(t)
  /\ UNCHANGED <<list, status, revokedAt, listClock, snapshots, sets>>

\* Mutant: the date of the cached list is not looked at.
Check_cached(l, i, now) == l # NoList /\ i < l.entries /\ Get(l, i) = StatusValid

\* Check is nil only for a cached, current list in which the entry is valid.
Check(l, i, now) ==
  /\ l # NoList
  /\ l.notAfter # 0 /\ now < l.notAfter
  /\ i < l.entries
  /\ Get(l, i) = StatusValid

ListNext ==
  \/ \E i \in Slots, s \in {StatusValid, StatusInvalid, StatusSuspended} : SetStatus(i, s)
  \/ SignToken \/ ListTick
  \/ \E t \in snapshots : AddVerified(t)

(***************************************************************************)
(* Properties.                                                             *)
(***************************************************************************)
\* Every entry of the packed list reads back as what was last set for it:
\* Set leaves the neighbours that share its byte alone, at every width.
PackingExact == \A i \in Slots : Get(list, i) = status[i]

\* An entry that has been revoked or suspended for the lifetime of a snapshot
\* is not answered as valid, whichever snapshots reached the resolver and in
\* whichever order: the cached list is judged when it is used.
RevocationTakesEffect ==
  \A i \in Slots : revokedAt[i] # -1 /\ listClock >= revokedAt[i] + ListTTL
                     => ~ Check(resolver, i, listClock)

\* A status is stored and served as it was set.
StatusListSafe == PackingExact /\ RevocationTakesEffect
=============================================================================
