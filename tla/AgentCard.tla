------------------------------ MODULE AgentCard ------------------------------
(***************************************************************************)
(* The agent card that a2a-pep relays: rewriteCard holds the card of the   *)
(* wrapped agent to the schemas of A2A v0.3.0 and v1.0, points it at the   *)
(* enforcement point and reports what it removed.                          *)
(***************************************************************************)
EXTENDS JsonValue, FiniteSets

\* The members that are relayed as they are, with the type they must have.
kindString == [kind |-> "string"]
kindBool == [kind |-> "bool"]
kindStringArray == [kind |-> "strings"]
kindHandled == [kind |-> "handled"]

skillSchema ==
    [n \in {"id", "name", "description", "tags", "examples", "inputModes",
            "outputModes", "security", "securityRequirements"} |->
        CASE n \in {"id", "name", "description"} -> kindString
          [] n \in {"security", "securityRequirements"} -> kindHandled
          [] OTHER -> kindStringArray]

droppedSkillMembers == {"security", "securityRequirements"}

capabilitiesSchema ==
    [n \in {"streaming", "pushNotifications", "stateTransitionHistory",
            "extendedAgentCard", "extensions"} |->
        IF n = "extensions" THEN kindHandled ELSE kindBool]

relayedStrings == {"name", "description", "version", "protocolVersion", "preferredTransport"}
relayedModes == {"defaultInputModes", "defaultOutputModes"}
handledMembers ==
    {"url", "additionalInterfaces", "supportedInterfaces", "signatures", "iconUrl",
     "documentationUrl", "provider", "securitySchemes", "security", "securityRequirements"}

allowedCardMembers ==
    relayedStrings \union relayedModes \union handledMembers
    \union {"supportsAuthenticatedExtendedCard", "capabilities", "skills"}

droppedCardMembers ==
    {"iconUrl", "documentationUrl", "provider", "securitySchemes", "security",
     "securityRequirements"}

knownProtocolVersions == {"0.3", "1.0"}
allowedInterfaceMembers == {"url", "protocolBinding", "protocolVersion", "tenant"}

\* Unmarshal into a string or a boolean takes null and leaves the value empty.
isString(v) == v.t \in {"str", "null"}
isBool(v) == v.t \in {"bool", "null"}

\* checkTyped for a member that holds no object.
leafTyped(v, k) ==
    CASE k.kind = "string" -> isString(v)
      [] k.kind = "bool" -> isBool(v)
      [] k.kind = "strings" -> v.t = "arr" /\ \A i \in 1..Len(v.e) : isString(v.e[i])
      [] k.kind = "handled" -> TRUE

\* checkTyped for an object: its members are those of the schema.
objTyped(v, schema) ==
    /\ scanObject(v, DOMAIN schema)
    /\ \A i \in 1..Len(v.e) : leafTyped(v.e[i].value, schema[v.e[i].name])

\* cardSchema and checkTyped for a member of the card.
checkTyped(n, v) ==
    CASE n \in relayedStrings -> isString(v)
      [] n = "supportsAuthenticatedExtendedCard" -> isBool(v)
      [] n \in relayedModes -> leafTyped(v, kindStringArray)
      [] n = "capabilities" -> objTyped(v, capabilitiesSchema)
      [] n = "skills" -> v.t = "arr" /\ \A i \in 1..Len(v.e) : objTyped(v.e[i], skillSchema)
      [] OTHER -> TRUE

\* json.Unmarshal into a slice.
isArray(v) == v.t \in {"absent", "null", "arr"}

interfaces(card) == get(card, "supportedInterfaces").e

jsonrpc(e) == get(e, "protocolBinding") = Str("JSONRPC")

\* An entry of supportedInterfaces that makes the card unfit to relay.
entryRefused(e) ==
    \/ e.t # "obj"
    \/ ~isString(get(e, "protocolBinding"))
    \/ /\ jsonrpc(e)
       /\ \/ ~(names(e) \subseteq allowedInterfaceMembers)
          \/ "tenant" \in names(e)
          \/ ~isString(get(e, "protocolVersion"))

\* Mutant: an entry is kept whatever its binding.
keptEntry_any(e) == get(e, "protocolVersion").v \in knownProtocolVersions

\* An entry on another binding or version is dropped and counted.
keptEntry(e) == jsonrpc(e) /\ get(e, "protocolVersion").v \in knownProtocolVersions

freshEntry(e, publicURL) ==
    Obj(<<Mem("url", publicURL), Mem("protocolBinding", Str("JSONRPC")),
          Mem("protocolVersion", get(e, "protocolVersion"))>>)

kept(card, publicURL) ==
    LET es == sieve(interfaces(card), {i \in 1..Len(interfaces(card)) : keptEntry(interfaces(card)[i])}) IN
    [i \in DOMAIN es |-> freshEntry(es[i], publicURL)]

hasMember(card, n) == n \in names(card)

\* rewriteCard returns an error: the card is not relayed.
cardRefused(card) ==
    \/ ~scanObject(card, allowedCardMembers)
    \/ \E i \in 1..Len(card.e) : ~checkTyped(card.e[i].name, card.e[i].value)
    \/ ~hasMember(card, "url") /\ ~hasMember(card, "supportedInterfaces")
    \/ ~isArray(get(card, "additionalInterfaces"))
    \/ /\ hasMember(card, "supportedInterfaces")
       /\ \/ ~isArray(get(card, "supportedInterfaces"))
          \/ \E i \in 1..Len(interfaces(card)) : entryRefused(interfaces(card)[i])
          \/ kept(card, Null) = <<>>
    \/ ~isArray(get(card, "signatures"))

removedMembers == droppedCardMembers \union {"additionalInterfaces", "signatures"}

rewrittenValue(card, n, publicURL) ==
    CASE n = "url" -> publicURL
      [] n = "preferredTransport" -> Str("JSONRPC")
      [] n = "supportedInterfaces" -> Arr(kept(card, publicURL))
      [] n = "capabilities" -> without(get(card, n), "extensions")
      [] n = "skills" -> Arr([i \in DOMAIN get(card, n).e |->
                                 without(without(get(card, n).e[i], "security"), "securityRequirements")])
      [] OTHER -> get(card, n)

\* The card that is relayed.  preferredTransport appears with a url whether
\* or not the agent named it.
rewriteCard(card, publicURL) ==
    LET left == sieve(card.e, {i \in 1..Len(card.e) : card.e[i].name \notin removedMembers})
        out == [i \in DOMAIN left |->
                   Mem(left[i].name, rewrittenValue(card, left[i].name, publicURL))] IN
    Obj(IF hasMember(card, "url") /\ ~hasMember(card, "preferredTransport")
        THEN Append(out, Mem("preferredTransport", Str("JSONRPC"))) ELSE out)

\* cardRewrite: what was removed.
droppedInterfaces(card) ==
    Len(get(card, "additionalInterfaces").e)
    + Cardinality({i \in 1..Len(interfaces(card)) : ~keptEntry(interfaces(card)[i])})
strippedSignatures(card) == Len(get(card, "signatures").e)

skill(card, i) == get(card, "skills").e[i]

\* DroppedMembers, each by its path: one entry for all skills.
droppedMembers(card) ==
    {<<n>> : n \in names(card) \intersect droppedCardMembers}
    \union {<<"capabilities", n>> : n \in names(get(card, "capabilities")) \intersect {"extensions"}}
    \union (UNION {{<<"skills", n>> : n \in names(skill(card, i)) \intersect droppedSkillMembers} :
                      i \in 1..Len(get(card, "skills").e)})

\* serveCard: relaying is off without a public URL; an agent that cannot be
\* reached, redirects or answers with an error has no card.
serveCard(publicURL, reached, card) ==
    CASE publicURL = Absent -> [status |-> 404, card |-> Absent]
      [] ~reached \/ cardRefused(card) -> [status |-> 502, card |-> Absent]
      [] OTHER -> [status |-> 200, card |-> rewriteCard(card, publicURL)]

-----------------------------------------------------------------------------
mentions(v, s) == s \in inside(v)[MaxNesting]

arrayMembers == {n \in DOMAIN skillSchema : skillSchema[n] = kindStringArray}
textMembers == {n \in DOMAIN skillSchema : skillSchema[n] = kindString}

itemsOf(v) == {v.e[i] : i \in 1..Len(v.e)}

skillText(sk) ==
    {get(sk, n) : n \in textMembers} \union UNION {itemsOf(get(sk, n)) : n \in arrayMembers}

\* The strings that the schemas leave to the agent.
freeText(card) ==
    {get(card, n) : n \in relayedStrings \ {"preferredTransport"}}
    \union (UNION {itemsOf(get(card, n)) : n \in relayedModes})
    \union (UNION {skillText(sk) : sk \in itemsOf(get(card, "skills"))})

\* No card that is relayed names an address, in whichever member and at
\* whatever depth the agent put it, that is not the point's own and not a
\* string that the schemas leave to the agent: a client that follows the card
\* comes back here.
CardHidesAgent(publicURL, reached, card, address) ==
    address \notin freeText(card) \union {publicURL, Str("JSONRPC")}
                    \union {Str(version) : version \in knownProtocolVersions} =>
        ~mentions(serveCard(publicURL, reached, card).card, address)

\* Every interface a relayed card advertises is at the point, on its binding.
InterfacesHere(publicURL, out) ==
    \A i \in 1..Len(interfaces(out)) :
        /\ get(interfaces(out)[i], "url") = publicURL
        /\ get(interfaces(out)[i], "protocolBinding") = Str("JSONRPC")

\* The interfaces a relayed card advertises are ones that the agent advertised
\* on that binding, in the versions and the order in which the agent did:
\* increasing maps each to the agent's own.
InterfacesTheAgents(card, out) ==
    \E theirs \in [1..Len(interfaces(out)) -> 1..Len(interfaces(card))] :
        /\ \A i, j \in 1..Len(interfaces(out)) : i < j => theirs[i] < theirs[j]
        /\ \A i \in 1..Len(interfaces(out)) :
              /\ jsonrpc(interfaces(card)[theirs[i]])
              /\ get(interfaces(out)[i], "protocolVersion")
                    = get(interfaces(card)[theirs[i]], "protocolVersion")

\* The members that a card has and another lacks, by their paths.
lost(card, out) ==
    {<<n>> : n \in names(card) \ names(out)}
    \union {<<"capabilities", n>> : n \in names(get(card, "capabilities")) \ names(get(out, "capabilities"))}
    \union (UNION {{<<"skills", n>> : n \in names(skill(card, i)) \ names(skill(out, i))} :
                      i \in 1..Len(get(card, "skills").e)})

\* What a relayed card has less than the agent's, at its top level, in its
\* capabilities and in any of its skills, is what the operator is told of:
\* by name, or for interfaces and signatures by number.
RemovalsReported(card, out) ==
    /\ lost(card, out) =
          droppedMembers(card)
          \union {<<n>> : n \in names(card) \intersect {"additionalInterfaces", "signatures"}}
    /\ Len(get(out, "skills").e) = Len(get(card, "skills").e)
    /\ Len(interfaces(out)) + droppedInterfaces(card) =
          Len(interfaces(card)) + Len(get(card, "additionalInterfaces").e)
    /\ Len(get(out, "signatures").e) + strippedSignatures(card) = Len(get(card, "signatures").e)

\* A relayed card advertises what the agent did, in its order, as served by
\* the point, and nothing is taken out of it unreported.
CardHonest(publicURL, reached, card) ==
    LET out == serveCard(publicURL, reached, card).card IN
    out # Absent =>
        InterfacesHere(publicURL, out) /\ InterfacesTheAgents(card, out) /\ RemovalsReported(card, out)
=============================================================================
