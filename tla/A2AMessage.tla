----------------------------- MODULE A2AMessage ------------------------------
(***************************************************************************)
(* What the A2A and MCP enforcement points make of one message: which rule *)
(* refuses it, what the intent digest binds, and what is passed on.  The   *)
(* decision that lies between is in Gateway; here it is a permit.          *)
(***************************************************************************)
EXTENDS JsonValue

TokenMetaKey == "spt-txn/token"

\* sendMethods and observableMethods: the dialect a method belongs to and, for
\* a read, the members it may have and those it must have.
sendMethods == [m \in {"message/send", "SendMessage"} |->
                   IF m = "message/send" THEN "0.3" ELSE "1.0"]

Shape(dialect, allowed, required) ==
    [dialect |-> dialect, allowed |-> allowed, required |-> required]

observableMethods ==
    [m \in {"tasks/get", "tasks/pushNotificationConfig/get",
            "tasks/pushNotificationConfig/list", "GetTask",
            "GetTaskPushNotificationConfig", "ListTaskPushNotificationConfigs"} |->
       CASE m = "tasks/get" -> Shape("0.3", {"id", "historyLength"}, {"id"})
         [] m = "tasks/pushNotificationConfig/get" ->
                Shape("0.3", {"id", "pushNotificationConfigId"}, {"id"})
         [] m = "tasks/pushNotificationConfig/list" -> Shape("0.3", {"id"}, {"id"})
         [] m = "GetTask" -> Shape("1.0", {"id", "historyLength"}, {"id"})
         [] m = "GetTaskPushNotificationConfig" ->
                Shape("1.0", {"taskId", "id"}, {"taskId", "id"})
         [] m = "ListTaskPushNotificationConfigs" ->
                Shape("1.0", {"taskId", "pageSize", "pageToken"}, {"taskId"})]

\* message/* other than message/send, and the v1.0 name of message/stream.
unmodelled == {"message/stream", "message/other", "SendStreamingMessage"}

\* passthroughShape.validate
validate(sh, params) ==
    /\ scanObject(params, sh.allowed)
    /\ \A n \in sh.required : get(params, n).t = "str" /\ get(params, n).v # NoText

allowedSendParams == {"message", "configuration"}
allowedMessageMembers ==
    {"role", "parts", "messageId", "taskId", "contextId", "metadata", "kind"}

allowedConfiguration ==
    {"acceptedOutputModes", "blocking", "historyLength", "returnImmediately"}

webhooks == {"pushNotificationConfig", "taskPushNotificationConfig"}

missing(v) == v.t \in {"absent", "null"}

configured(params) == ~missing(get(params, "configuration"))

webhookRefused(params) ==
    /\ scanObject(params, allowedSendParams)
    /\ configured(params)
    /\ get(params, "configuration").t = "obj"
    /\ names(get(params, "configuration")) \intersect webhooks # {}

validateSendParams(params) ==
    /\ scanObject(params, allowedSendParams)
    /\ configured(params) => scanObject(get(params, "configuration"), allowedConfiguration)
    /\ scanObject(get(params, "message"), allowedMessageMembers)

\* A string member of the struct message: null leaves it empty, any other
\* type is a decoding error.
stringField(o, name) == missing(get(o, name)) \/ get(o, name).t = "str"
valueOf(o, name) == IF missing(get(o, name)) THEN NoText ELSE get(o, name).v

histLen(params) ==
    IF configured(params) THEN get(get(params, "configuration"), "historyLength") ELSE Absent

\* An integer, or nothing.
histLenOK(params) == missing(histLen(params)) \/ histLen(params).t = "num"

\* stripToken: metadata goes with the credential, the only member it may have
\* by then.
stripToken(params) == with(params, "message", without(get(params, "message"), "metadata"))

\* Which rule of Handle refuses a send; "decide" when none does.
sendRule(params) ==
    LET msg == get(params, "message")
        metadata == get(msg, "metadata") IN
    CASE webhookRefused(params) -> "rpc.webhook-refused"
      [] ~validateSendParams(params) -> "rpc.params-ambiguous"
      [] ~histLenOK(params) -> "rpc.configuration-malformed"
      [] \/ \E n \in {"role", "kind", "messageId", "taskId", "contextId"} : ~stringField(msg, n)
         \/ ~missing(metadata) /\ metadata.t # "obj"
         \/ get(msg, "parts").t = "absent" -> "rpc.message-malformed"
      [] valueOf(msg, "role") \notin {NoText, "user", "ROLE_USER"} -> "rpc.role-not-user"
      [] valueOf(msg, "kind") \notin {NoText, "message"} -> "rpc.kind-not-message"
      [] metadata.t = "obj" /\ names(metadata) \ {TokenMetaKey} # {} -> "rpc.metadata-uncovered"
      [] containsKey(stripToken(params), TokenMetaKey) -> "rpc.credential-misplaced"
      [] OTHER -> "decide"

readRule(method, params) ==
    CASE method \in unmodelled -> "rpc.unmodelled-message-method"
      [] method \notin DOMAIN observableMethods -> "rpc.method-not-permitted"
      [] containsKey(params, TokenMetaKey) -> "rpc.credential-on-passthrough"
      [] ~validate(observableMethods[method], params) -> "rpc.passthrough-params-refused"
      [] OTHER -> "observe"

rule(method, params) ==
    IF tooDeep(params) THEN "rpc.malformed"
    ELSE IF method \in DOMAIN sendMethods THEN sendRule(params)
    ELSE readRule(method, params)

\* What reaches the wrapped agent, when something does.
forwarded(method, params) ==
    IF method \in DOMAIN sendMethods THEN stripToken(params) ELSE params

\* What the intent digest covers: parts, and taskId, contextId and
\* historyLength when they say something.
boundFields(params) ==
    LET msg == get(params, "message") IN
    [n \in {"parts"} \union {k \in {"taskId", "contextId"} : valueOf(msg, k) # NoText}
                     \union (IF missing(histLen(params)) THEN {} ELSE {"historyLength"}) |->
        IF n = "historyLength" THEN histLen(params) ELSE get(msg, n)]

-----------------------------------------------------------------------------
(* The MCP point, internal/mcppep. *)

allowedCallParams == {"name", "arguments", "_meta"}

validateCallParams(params) == scanObject(params, allowedCallParams)

callRule(params) ==
    CASE ~validateCallParams(params) -> "rpc.params-ambiguous"
      [] \/ get(params, "name").t # "str" \/ get(params, "name").v = NoText
         \/ ~missing(get(params, "_meta")) /\ get(params, "_meta").t # "obj" ->
             "rpc.params-malformed"
      [] OTHER -> "decide"

\* stripToken of mcppep: _meta goes when nothing else is in it.
stripCall(params) ==
    LET rest == without(get(params, "_meta"), TokenMetaKey) IN
    IF get(params, "_meta").t = "absent" THEN params
    ELSE IF rest.e = <<>> THEN without(params, "_meta")
    ELSE with(params, "_meta", rest)

callBound(params) ==
    [n \in {"name"} \union (names(params) \intersect {"arguments"}) |-> get(params, n)]

-----------------------------------------------------------------------------
\* Members that only shape or identify the exchange.
presentation == {"messageId", "role", "kind", "acceptedOutputModes", "blocking", "returnImmediately"}

\* The members that say something.
said(o) == {o.e[i] : i \in {k \in 1..Len(o.e) : ~missing(o.e[k].value) /\ o.e[k].value # Str(NoText)}}

\* What an agent may act on in a message it is sent, whichever occurrence of a
\* member it reads: every member that says something.
actedOn(params) ==
    {mb \in said(get(params, "message")) \union said(get(params, "configuration"))
            \union said(without(without(params, "message"), "configuration")) :
        mb.name \notin presentation}

\* The objects inside a value, itself included.
objectsIn(v) == {w \in inside(v)[MaxNesting] : w.t = "obj"}

\* Nothing that is passed on to an agent, read or send, carries the credential
\* under any object at any depth: the agent behind the point cannot present it
\* again.
NoCredentialForwarded(method, params) ==
    rule(method, params) \in {"decide", "observe"} =>
        \A o \in objectsIn(forwarded(method, params)) : TokenMetaKey \notin names(o)

\* A send that is passed on says to the agent exactly what the token's intent
\* was bound to: no member that the agent acts on, configuration included, is
\* outside the digest, and none that the digest covers is changed on the way.
ActedOnIsBound(params) ==
    sendRule(params) = "decide" =>
        actedOn(stripToken(params)) =
        {Mem(n, boundFields(params)[n]) : n \in
            {k \in DOMAIN boundFields(params) : ~missing(boundFields(params)[k]) /\ boundFields(params)[k] # Str(NoText)}}

\* A tools/call that is passed on holds the bound name and arguments, once each
\* and unchanged, and nothing else but _meta.  No digest covers _meta: it goes
\* on with the members the client gave it, less the credential at its top
\* level.  A credential below that, or in the arguments, is not looked for.
CallIsBound(params) ==
    callRule(params) = "decide" =>
        LET fwd == stripCall(params) IN
        /\ \A i \in 1..Len(fwd.e) :
              \/ fwd.e[i].name \in DOMAIN callBound(params) /\ fwd.e[i].value = callBound(params)[fwd.e[i].name]
              \/ /\ fwd.e[i].name = "_meta"
                 /\ names(fwd.e[i].value) = names(get(params, "_meta")) \ {TokenMetaKey}
        /\ DOMAIN callBound(params) \subseteq names(fwd)

=============================================================================
