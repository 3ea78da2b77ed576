---------------------------- MODULE MCOperations ----------------------------
(***************************************************************************)
(* Model checking the parts a deployment is operated with: the stdio       *)
(* exchange of mcp-pep, the witnesses of its log, and spt-txn-init, which  *)
(* configures it and puts it on disk.  The four share no state, so each    *)
(* behaviour exercises one of them, the one in focus, and leaves the       *)
(* others in their initial state.                                          *)
(***************************************************************************)
EXTENDS McpExchange, Witness, Deployment, DeployConfig

CONSTANTS w1, w2, w3

VARIABLES
    focus,     \* the part this behaviour exercises
    given,     \* the flags spt-txn-init is started with
    changed    \* fields of given that differ from the plain configuration

configVars == <<given, changed>>
opsVars == <<exchangeVars, witnessVars, deployVars, configVars, focus>>

MCHeads == {<<"x">>, <<"y">>, <<"x", "y">>}

\* A configuration as an operator gives it, for each profile.
plain(profile) ==
    [f \in Fields |-> CASE f = "profile" -> profile
                        [] f = "ttl" -> 60
                        [] f \in {"audience", "identity"} -> "good"
                        [] f = "cmd" /\ profile = "mcp" -> "good"
                        [] f = "upstream" /\ profile = "a2a" -> "good"
                        [] OTHER -> unset]

\* The values tried in each field.
shapes(f) ==
    CASE f = "profile" -> {"mcp", "a2a", "other"}
      [] f = "ttl" -> {-1, 0, 1, 600, 601, 3600}
      [] f = "ttsPub" -> {unset, "good", "upper", "short", "blank", "ctrl"}
      [] f = "pepBinary" -> {unset, "good", "relative", "ctrl"}
      [] f = "cmd" -> {unset, "good"}
      [] f \in {"upstream", "publicURL"} ->
            {unset, "good", "blank", "ctrl", "unparsable", "scheme", "nohost"}
      [] f = "listen" -> {unset, "good", "ctrl", "spaced", "dotted", "noport", "wordport", "highport"}
      [] OTHER -> {unset, "good", "blank", "ctrl", "spaced", "dotted"}

Answers == {unset, "good", "blank", "ctrl", "scheme"}

\* The operator changes a field, two at most.
ChangeField ==
    /\ Cardinality(changed) < 2
    /\ \E f \in Fields \ changed : \E v \in shapes(f) \ {given[f]} :
          given' = [given EXCEPT ![f] = v] /\ changed' = changed \union {f}

OpsInit ==
    /\ focus \in {"exchange", "witness", "deployment", "config"}
    /\ ExchangeInit /\ WitnessInit /\ DeployInit
    /\ focus # "deployment" => out = NoDir
    /\ given \in {plain(p) : p \in IF focus = "config" THEN {"mcp", "a2a"} ELSE {"mcp"}}
    /\ changed = {}

OpsNext ==
    \/ /\ focus = "exchange" /\ ExchangeNext
       /\ UNCHANGED <<witnessVars, deployVars, configVars, focus>>
    \/ /\ focus = "witness" /\ WitnessNext
       /\ UNCHANGED <<exchangeVars, deployVars, configVars, focus>>
    \/ /\ focus = "deployment" /\ DeployNext
       /\ UNCHANGED <<exchangeVars, witnessVars, configVars, focus>>
    \/ /\ focus = "config" /\ ChangeField
       /\ UNCHANGED <<exchangeVars, witnessVars, deployVars, focus>>

OpsSpec == OpsInit /\ [][OpsNext]_opsVars /\ ExchangeFairness

-----------------------------------------------------------------------------
Accepted == accepted(given, Answers, TRUE) \union accepted(given, Answers, FALSE)

\* A configuration that validate accepts, typed in or given as flags, yields
\* a run.sh whose enforcement point gets past its own checks: it misses no
\* required value, its keys and URLs parse, and its token lifetime fits the
\* replay window of the decision engine, which spt-txn-init does not call (the
\* tool restates that bound and four validators).  It then listens and serves,
\* unless the configured port is a number that is no port: validateListenAddr
\* accepts one above 65535, which net.Listen refuses.
AcceptedConfigStarts ==
    \A c \in Accepted :
        /\ runScript(c, issuerKey(c), TRUE)
        /\ PepConfigured(c["profile"], pepFlags(c))
        /\ c["listen"] # "highport" => PepStarts(c["profile"], pepFlags(c))

\* The policy bundle, whose hash every receipt carries, names the values the
\* enforcement point really runs with after the shell has read run.sh.
PolicyIsWhatRuns ==
    \A c \in Accepted :
        LET p == policyBundle(c) f == pepFlags(c) IN
        /\ p.target = f.identity /\ p.audience = f.audience /\ p.ttsPub = f.ttsPub
        /\ p.ttl = f.ttl /\ p.jurisdiction = f.jurisdiction

\* What validate accepts is what is installed, and it starts but for a port
\* out of range.
ConfigSound == AcceptedConfigStarts /\ PolicyIsWhatRuns

=============================================================================
