------------------------------ MODULE JsonValue ------------------------------
(***************************************************************************)
(* JSON values as the enforcement points read them: an object is the       *)
(* sequence of its members in the order written, duplicates included, and  *)
(* a scalar is its spelling.  internal/a2apep reads objects with           *)
(* scanObject before it decodes them, and looks for member names at any    *)
(* depth with walkForKey.                                                  *)
(***************************************************************************)
EXTENDS Naturals, Sequences

CONSTANT MaxNesting   \* objects and arrays that encoding/json takes inside one another
                      \* in params: 10000, less the request that params is in

ASSUME NestingAssumption == MaxNesting \in Nat

NoText == ""

Str(s) == [t |-> "str", v |-> s, e |-> <<>>]
Num(s) == [t |-> "num", v |-> s, e |-> <<>>]
Bool(s) == [t |-> "bool", v |-> s, e |-> <<>>]
Null == [t |-> "null", v |-> NoText, e |-> <<>>]
Obj(ms) == [t |-> "obj", v |-> NoText, e |-> ms]
Arr(vs) == [t |-> "arr", v |-> NoText, e |-> vs]
\* No bytes at all: a member that is not there.
Absent == [t |-> "absent", v |-> NoText, e |-> <<>>]
Mem(name, value) == [name |-> name, value |-> value]

names(o) == {o.e[i].name : i \in 1..Len(o.e)}

\* What json.Unmarshal into a map or a struct leaves for a member: the last
\* of its occurrences.
get(o, name) ==
    LET at == {i \in 1..Len(o.e) : o.e[i].name = name} IN
    IF o.t # "obj" \/ at = {} THEN Absent
    ELSE o.e[CHOOSE i \in at : \A j \in at : j <= i].value

\* The elements of s at the positions of keep, in their order, as they are
\* gathered.
take(s, keep, n, x) == IF n \in keep THEN Append(x, s[n]) ELSE x

gather(s, keep) ==
    LET taken[n \in Nat] == IF n = 0 THEN <<>> ELSE take(s, keep, n, taken[n - 1])
    IN taken

sieve(s, keep) == gather(s, keep)[Len(s)]

\* delete(m, name)
without(o, name) == Obj(sieve(o.e, {i \in 1..Len(o.e) : o.e[i].name # name}))

\* m[name] = value, for a name that is there.
with(o, name, value) ==
    Obj([i \in DOMAIN o.e |-> IF o.e[i].name = name THEN Mem(name, value) ELSE o.e[i]])

\* An object with no duplicated member and none outside allowed.
scanObject(o, allowed) ==
    /\ o.t = "obj"
    /\ names(o) \subseteq allowed
    /\ \A i, j \in 1..Len(o.e) : o.e[i].name = o.e[j].name => i = j

\* The values directly inside v.
children(v) ==
    CASE v.t = "obj" -> {v.e[i].value : i \in 1..Len(v.e)}
      [] v.t = "arr" -> {v.e[i] : i \in 1..Len(v.e)}
      [] OTHER -> {}

childrenOf(vs) == UNION {children(w) : w \in vs}

\* The values that the walk reaches at each depth.
level(v) ==
    LET at[k \in Nat] == IF k = 0 THEN {v} ELSE childrenOf(at[k - 1])
    IN at

\* json.Unmarshal refuses a value that is nested deeper than it takes.
tooDeep(v) == \E w \in level(v)[MaxNesting] : w.t \in {"obj", "arr"}

\* Mutant: only the members of the outermost object are looked at.
containsKey_shallow(v, key) == v.t = "obj" /\ key \in names(v)

\* Some object inside v, at any depth, has a member named key.
containsKey(v, key) ==
    \E k \in 0..MaxNesting : \E w \in level(v)[k] : w.t = "obj" /\ key \in names(w)

-----------------------------------------------------------------------------
\* A value and what is inside it, down to depth k.
inside(v) ==
    LET upTo[k \in Nat] ==
            IF k = 0 THEN {v} ELSE upTo[k - 1] \union childrenOf(upTo[k - 1])
    IN upTo

=============================================================================
