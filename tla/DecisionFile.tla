---------------------------- MODULE DecisionFile ----------------------------
(***************************************************************************)
(* The decision document: cmd/x402gate decides about a payment and writes  *)
(* its verdict to a file (pkg/payergate Write); a settlement client reads  *)
(* it (Read) and applies CheckSettleable before it signs.  Runs of the     *)
(* gate may write to one path, a reader may meet a file being written, and *)
(* fields of the file may be altered on the way.  The hash of the context  *)
(* has no key: whoever alters a field can compute it anew.                 *)
(***************************************************************************)
EXTENDS Integers, FiniteSets

CONSTANTS
    GateRuns,     \* executions of x402gate with the same -out
    Orders,       \* what they may be started with: [chain, payer, payee, amount, currency]
    RunCeiling,   \* -ceiling
    MaxDecisionAge,
    MaxFileTime, MaxAlterations

ASSUME DecisionFileAssumption ==
    {RunCeiling, MaxDecisionAge, MaxFileTime, MaxAlterations} \subseteq Nat

VARIABLES
    wall,        \* seconds
    writer,      \* gate run -> [stage, doc]
    file,        \* the document at the path, or no document
    pending,     \* the document a settlement client has read
    decided,     \* history: documents the gate runs decided on
    settled,     \* history: contexts settled
    rehashed,    \* history: contexts that were hashed anew in the file
    redated,     \* history: hashes whose document was dated anew in the file
    alterations

edits == <<rehashed, redated, alterations>>
fileVars == <<wall, writer, file, pending, decided, settled, edits>>

NoContext == [chain |-> "", payer |-> "", payee |-> "", amount |-> 0, currency |-> "", ts |-> 0]
NoDoc == [version |-> 0, outcome |-> "", context |-> NoContext, hash |-> NoContext, issuedAt |-> 0]

FileInit ==
    /\ wall = 0 /\ file = NoDoc /\ pending = NoDoc
    /\ writer = [g \in GateRuns |-> [stage |-> "start", doc |-> NoDoc]]
    /\ decided = {} /\ settled = {}
    /\ rehashed = {} /\ redated = {} /\ alterations = 0

\* The combinations of flags x402gate decides about.
decidable(o) ==
    \/ o.chain = "xrpl"
    \/ o.chain = "base" /\ o.payer # "" /\ o.currency # "XRP"

\* The agent's own account pays on xrpl.
contextOf(o) ==
    [chain |-> o.chain, payer |-> IF o.chain = "base" THEN o.payer ELSE "agent",
     payee |-> o.payee, amount |-> o.amount, currency |-> o.currency, ts |-> wall]

\* The scope is enforced at mint, and the fresh chain verifies.  A denial has
\* no context hash.  The hash is identified with what it commits to.
verdict(o) ==
    LET ok == o.amount <= RunCeiling IN
    [version |-> 1, outcome |-> IF ok THEN "ALLOW" ELSE "DENY", context |-> contextOf(o),
     hash |-> IF ok THEN contextOf(o) ELSE NoContext, issuedAt |-> wall]

Decides(g) ==
    /\ writer[g].stage = "start"
    /\ \E o \in Orders :
          /\ decidable(o)
          /\ writer' = [writer EXCEPT ![g] = [stage |-> "open", doc |-> verdict(o)]]
          /\ decided' = decided \cup {verdict(o)}
    /\ UNCHANGED <<wall, file, pending, settled, edits>>

\* os.WriteFile truncates and then writes; a run may end in between.
Opens(g) ==
    /\ writer[g].stage = "open"
    /\ file' = NoDoc
    /\ writer' = [writer EXCEPT ![g].stage = "write"]
    /\ UNCHANGED <<wall, pending, decided, settled, edits>>

Writes(g) ==
    /\ writer[g].stage = "write"
    /\ file' = writer[g].doc
    /\ writer' = [writer EXCEPT ![g].stage = "done"]
    /\ UNCHANGED <<wall, pending, decided, settled, edits>>

\* A field of the document changes on its way to the settlement client: the
\* hash may become that of the fields as they are now.
Altered ==
    /\ file # NoDoc /\ alterations < MaxAlterations /\ alterations' = alterations + 1
    /\ \/ /\ file' \in {[file EXCEPT !.version = 2], [file EXCEPT !.outcome = "ALLOW"],
                        [file EXCEPT !.context.amount = 1], [file EXCEPT !.context.payee = "other"],
                        [file EXCEPT !.context.ts = wall], [file EXCEPT !.hash = NoContext]}
          /\ UNCHANGED <<rehashed, redated>>
       \/ /\ file' = [file EXCEPT !.issuedAt = wall]
          /\ redated' = redated \cup {file.hash}
          /\ UNCHANGED rehashed
       \/ /\ file' = [file EXCEPT !.hash = file.context]
          /\ rehashed' = rehashed \cup {file.context}
          /\ UNCHANGED redated
    /\ UNCHANGED <<wall, writer, pending, decided, settled>>

\* Read: no file, an empty or a torn one, and another version are errors.
ReadsFile ==
    /\ file.version = 1
    /\ pending' = file
    /\ UNCHANGED <<wall, writer, file, decided, settled, edits>>

\* ledger.Get knows no ledger without a name.
ReDeriveContextHash(d) == d.context.chain # NoContext.chain /\ d.hash = d.context

\* Mutant: the hash is taken from the document.
CheckSettleable_recorded(d) == d.version = 1 /\ d.outcome = "ALLOW" /\ wall - d.issuedAt <= MaxDecisionAge

CheckSettleable(d) ==
    /\ d.version = 1 /\ d.outcome = "ALLOW"
    /\ wall - d.issuedAt <= MaxDecisionAge
    /\ ReDeriveContextHash(d)

Settles ==
    /\ CheckSettleable(pending)
    /\ settled' = settled \cup {[context |-> pending.context, at |-> wall]}
    /\ pending' = NoDoc
    /\ UNCHANGED <<wall, writer, file, decided, edits>>

FileTick ==
    /\ wall < MaxFileTime /\ wall' = wall + 1
    /\ UNCHANGED <<writer, file, pending, decided, settled, edits>>

FileNext ==
    \/ \E g \in GateRuns : Decides(g) \/ Opens(g) \/ Writes(g)
    \/ Altered \/ ReadsFile \/ Settles \/ FileTick

-----------------------------------------------------------------------------
\* What is settled is a payment the gate allowed, in every field and no longer
\* than the bound ago, although the document passed through a file that another
\* run wrote to and whose fields were altered one after the other, in any way
\* but two: a context that was hashed anew settles as if it had been decided,
\* and a document that was dated anew as if it were recent.
SettledAsDecided ==
    \A s \in settled :
        s.context \in rehashed \/
            /\ \E d \in decided : d.outcome = "ALLOW" /\ d.context = s.context
            /\ s.context.amount <= RunCeiling
            /\ s.context \in redated \/ s.at - s.context.ts <= MaxDecisionAge
=============================================================================
