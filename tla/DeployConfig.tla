---------------------------- MODULE DeployConfig ----------------------------
(***************************************************************************)
(* The configuration spt-txn-init accepts and the enforcement point it     *)
(* starts (cmd/spt-txn-init/main.go, cmd/mcp-pep/main.go,                  *)
(* cmd/a2a-pep/main.go).                                                   *)
(*                                                                         *)
(* A configuration is a function from field to value.  A text value is     *)
(* known by the shape the rules look at: "" (not set), "blank" (white      *)
(* space only), "ctrl" (text with a control byte inside), "spaced" (good   *)
(* text outside the identifier charset), "dotted" (has ..), "relative" (a  *)
(* path) and "good".  A URL also has "unparsable", "scheme" and "nohost";  *)
(* a listen address "noport", "wordport" (a port that is no number) and    *)
(* "highport" (a number above 65535); a hex key "upper" and "short".       *)
(***************************************************************************)
EXTENDS Integers, FiniteSets

Fields == {"profile", "audience", "issuer", "out", "jurisdiction", "ttsPub",
           "pepBinary", "ttl", "identity", "cmd", "upstream", "publicURL", "listen"}

\* A text that is not set.
unset == ""

\* maxAcceptableTokenTTL, and the replay window decision.New falls back to (s).
maxAcceptableTokenTTL == 600
defaultReplayWindow == 600
defaultTTL == 60

(***************************************************************************)
(* Validators.  Each is TRUE when the Go function returns nil.             *)
(***************************************************************************)
validateProfile(s) == s \in {"mcp", "a2a"}

\* Mutant: a control character passes.
nonEmpty_anyByte(s) == s \notin {unset, "blank"}

nonEmpty(s) == s \notin {unset, "blank", "ctrl"}

validateIdentifier(s) == s \notin {unset, "blank", "ctrl", "spaced", "dotted", "web:bad"}

validateAbsoluteURL(s) == nonEmpty(s) /\ s \notin {"unparsable", "scheme", "nohost"}

\* A port is any string of digits, however large.
validateListenAddr(s) == nonEmpty(s) /\ s \notin {"noport", "wordport", "spaced", "dotted"}

validTTSPub(s) == s \notin {"upper", "short", "blank", "ctrl"}

validPEPBinary(s) == nonEmpty(s) /\ s # "relative"

(***************************************************************************)
(* Required values and defaults.                                           *)
(***************************************************************************)
requiredFields(profile) ==
  {"audience"} \cup (IF profile = "mcp" THEN {"identity", "cmd"} ELSE {"upstream", "identity"})

\* The wrapped command is its first word: <<>> is unset here, as an
\* empty word is.
missingRequired(c) == {f \in requiredFields(c["profile"]) : c[f] = unset}

\* did:web:<audience> is an identifier when the audience has its charset.
defaultIssuer(audience) == IF validateIdentifier(audience) THEN "web:good" ELSE "web:bad"

applyDefaults(c) ==
  [c EXCEPT !["out"] = IF @ = unset THEN "good" ELSE @,
            !["issuer"] = IF @ = unset THEN defaultIssuer(c["audience"]) ELSE @,
            !["listen"] = IF @ = unset THEN "good" ELSE @,
            !["ttl"] = IF @ <= 0 THEN defaultTTL ELSE @]

(***************************************************************************)
(* validate, the two ways to a configuration, and the prompt.              *)
(***************************************************************************)
validate(c) ==
  /\ validateProfile(c["profile"])
  /\ nonEmpty(c["audience"])
  /\ validateIdentifier(c["issuer"])
  /\ nonEmpty(c["out"])
  /\ c["jurisdiction"] # unset => nonEmpty(c["jurisdiction"])
  /\ c["ttsPub"] # unset => validTTSPub(c["ttsPub"])
  /\ c["pepBinary"] # unset => validPEPBinary(c["pepBinary"])
  /\ c["ttl"] <= maxAcceptableTokenTTL
  /\ c["profile"] = "mcp" => nonEmpty(c["identity"]) /\ c["cmd"] # unset
  /\ c["profile"] = "a2a" =>
        /\ validateAbsoluteURL(c["upstream"])
        /\ c["publicURL"] # unset => validateAbsoluteURL(c["publicURL"])
        /\ nonEmpty(c["identity"])
        /\ validateListenAddr(c["listen"])

\* What prompter.ask can return for a field: a line its validator takes, blanks
\* trimmed, the default for an empty line, unset when the value is optional.  taken
\* are the lines, the default among them, the validator takes.  Input that ends
\* first is an error and returns nothing.
ask(taken, def, optional) ==
  (taken \ {unset, "blank"}) \cup (IF optional /\ def = unset THEN {unset} ELSE {})

\* What the operator is asked when the flags gave c and the lines come from
\* answers.  The proposed issuer depends on the audience.
prompted(c, answers) ==
  LET given(f, def, optional, ok(_)) ==
        IF c[f] # unset THEN {c[f]}
        ELSE ask({v \in answers \cup {def} : ok(v)}, def, optional)
      any(s) == s # unset
      proposal(a) == IF validateIdentifier(defaultIssuer(a)) THEN defaultIssuer(a) ELSE unset
      a2a == c["profile"] = "a2a"
  IN  UNION {[audience : {a},
              identity : given("identity", unset, FALSE, nonEmpty),
              issuer : given("issuer", proposal(a), FALSE, validateIdentifier),
              cmd : IF a2a THEN {c["cmd"]} ELSE given("cmd", unset, FALSE, any),
              upstream : IF a2a THEN given("upstream", unset, FALSE, validateAbsoluteURL)
                         ELSE {c["upstream"]},
              publicURL : IF a2a THEN given("publicURL", unset, TRUE, validateAbsoluteURL)
                          ELSE {c["publicURL"]}] :
             a \in given("audience", unset, FALSE, nonEmpty)}

withAnswers(c, t) ==
  [c EXCEPT !["audience"] = t.audience, !["identity"] = t.identity, !["issuer"] = t.issuer,
            !["cmd"] = t.cmd, !["upstream"] = t.upstream, !["publicURL"] = t.publicURL]

\* The configurations resolveInteractive can end with.
resolveInteractive(c, answers) == {applyDefaults(withAnswers(c, t)) : t \in prompted(c, answers)}

\* The configurations a run goes on to generate from: with -non-interactive a
\* required value must be set, interactively it is asked for.
resolveNonInteractive(c) ==
  IF validateProfile(c["profile"]) /\ missingRequired(c) = {} THEN {applyDefaults(c)} ELSE {}

accepted(c, answers, interactive) ==
  {d \in IF interactive
         THEN IF validateProfile(c["profile"]) THEN resolveInteractive(c, answers) ELSE {}
         ELSE resolveNonInteractive(c) : validate(d)}

(***************************************************************************)
(* What is rendered.  issuerKey is the text of the issuer's key in every   *)
(* file: the key generated for the deployment, or the one given as         *)
(* -tts-pub, decoded and encoded again (lower case).                       *)
(***************************************************************************)
issuerKey(c) ==
  IF c["ttsPub"] = unset THEN "generated" ELSE IF c["ttsPub"] = "upper" THEN "good" ELSE c["ttsPub"]

pepName(profile) == IF profile = "a2a" THEN "a2a-pep.spt-txn" ELSE "mcp-pep.spt-txn"

policyBundle(c) ==
  [pep |-> pepName(c["profile"]), target |-> c["identity"], audience |-> c["audience"],
   ttsPub |-> issuerKey(c), ttl |-> c["ttl"], jurisdiction |-> c["jurisdiction"]]

\* A quoted word as the shell passes it on: a NUL inside it is dropped.
shellWord(v) == IF v = "ctrl" THEN "good" ELSE v

pepFlags(c) ==
  [identity |-> shellWord(c["identity"]), audience |-> shellWord(c["audience"]),
   ttsPub |-> issuerKey(c), logKey |-> "good", policyHash |-> "good", ttl |-> c["ttl"],
   jurisdiction |-> shellWord(c["jurisdiction"]), upstream |-> shellWord(c["upstream"]),
   publicURL |-> shellWord(c["publicURL"]), listen |-> shellWord(c["listen"]),
   cmd |-> c["cmd"]]

\* run.sh: the copy of the issuer key beside it must be readable and be, as
\* text, the key it pins, and the binary must be there; then it execs the PEP.
runScript(c, issuerPub, binaryThere) == issuerPub = issuerKey(c) /\ binaryThere

(***************************************************************************)
(* What the enforcement points check when they start.                      *)
(***************************************************************************)
pepMissing(profile, f) ==
  \/ f.identity = unset \/ f.audience = unset \/ f.ttsPub = unset \/ f.logKey = unset \/ f.policyHash = unset
  \/ profile = "mcp" /\ f.cmd = unset
  \/ profile = "a2a" /\ f.upstream = unset

parseHexKey(k) == k \in {"generated", "good", "upper"}

decisionNew(f) ==
  /\ f.policyHash # unset /\ f.audience # unset
  /\ f.ttl > 0 /\ defaultReplayWindow >= f.ttl

buildEngine(f) == parseHexKey(f.ttsPub) /\ decisionNew(f)

a2aURL(s) == s \notin {unset, "unparsable", "scheme", "nohost"}

PepConfigured(profile, f) ==
  /\ ~ pepMissing(profile, f)
  /\ profile = "a2a" => a2aURL(f.upstream) /\ (f.publicURL # unset => a2aURL(f.publicURL))
  /\ buildEngine(f)

\* The addresses net.Listen takes on a machine that has them free.
netListen(s) == s \notin {unset, "blank", "ctrl", "spaced", "dotted", "noport", "wordport", "highport"}

PepStarts(profile, f) == PepConfigured(profile, f) /\ (profile = "a2a" => netListen(f.listen))

=============================================================================
