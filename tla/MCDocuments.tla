----------------------------- MODULE MCDocuments -----------------------------
(***************************************************************************)
(* The checks on documents over every small document: A2A and MCP          *)
(* messages and agent cards grow member by member from pools that hold     *)
(* each kind of value.  MCAlgebra runs it beside the other algorithms.     *)
(***************************************************************************)
EXTENDS A2AMessage, AgentCard

CONSTANT MaxMembers   \* bound on the members of a document

VARIABLES
    kind,  \* which document is being built
    frame, \* what it is built into: method and configuration, or the transport
    obj    \* the document so far
docVars == <<kind, frame, obj>>

Token == Obj(<<Mem(TokenMetaKey, Str("tok"))>>)
Hidden == Arr(<<Obj(<<Mem("metadata", Token)>>)>>)
Address == Str("http://agent.internal")
PublicURL == Str("https://pep.example")

MessagePool ==
    {Mem("parts", Arr(<<Str("pay")>>)), Mem("parts", Hidden), Mem("parts", Arr(<<Hidden>>)), Mem("parts", Null),
     Mem("taskId", Str("t1")), Mem("taskId", Str("t2")), Mem("taskId", Str(NoText)), Mem("taskId", Num("1")),
     Mem("contextId", Str("c1")), Mem("metadata", Token), Mem("metadata", Null), Mem("metadata", Str("x")),
     Mem("metadata", Obj(<<Mem(TokenMetaKey, Str("tok")), Mem("ext", Num("1"))>>)),
     Mem("role", Str("user")), Mem("role", Str("agent")), Mem("kind", Str("task")),
     Mem("messageId", Str("m1")), Mem("extensions", Arr(<<Str("x")>>))}

Configs ==
    {Absent, Null, Str("x"), Obj(<<Mem("historyLength", Num("1"))>>),
     Obj(<<Mem("historyLength", Str("all"))>>), Obj(<<Mem("historyLength", Null)>>),
     Obj(<<Mem("historyLength", Num("1")), Mem("historyLength", Num("2"))>>),
     Obj(<<Mem("pushNotificationConfig", Obj(<<Mem("url", Str("u"))>>))>>),
     Obj(<<Mem("taskPushNotificationConfig", Obj(<<Mem("url", Str("u"))>>))>>),
     Obj(<<Mem("blocking", Bool("true")), Mem("acceptedOutputModes", Arr(<<Token>>))>>)}

ReadPool ==
    {Mem("id", Str("t1")), Mem("id", Str(NoText)), Mem("taskId", Str("t1")), Mem("taskId", Null),
     Mem("historyLength", Num("1")), Mem("historyLength", Arr(<<Token>>)), Mem("pageSize", Num("9")),
     Mem("tenant", Str("x")), Mem("pushNotificationConfigId", Obj(<<Mem(TokenMetaKey, Str("t"))>>))}

CallPool ==
    {Mem("name", Str("pay")), Mem("name", Str(NoText)), Mem("name", Num("1")),
     Mem("arguments", Obj(<<Mem("amount", Num("1"))>>)), Mem("arguments", Null),
     Mem("_meta", Token), Mem("_meta", Null), Mem("_meta", Str("x")),
     Mem("_meta", Obj(<<Mem(TokenMetaKey, Str("tok")), Mem("progressToken", Num("1"))>>)),
     Mem("_meta", Obj(<<Mem(TokenMetaKey, Str("tok")), Mem("ext", Token)>>)), Mem("task", Str("x"))}

Iface(binding, version) ==
    Obj(<<Mem("url", Address), Mem("protocolBinding", binding), Mem("protocolVersion", version)>>)
Good == Iface(Str("JSONRPC"), Str("1.0"))

CardPool ==
    {Mem("name", Str("agent")), Mem("name", Null), Mem("name", Obj(<<Mem("u", Address)>>)),
     Mem("url", Address), Mem("Url", Address), Mem("preferredTransport", Str("GRPC")),
     Mem("additionalInterfaces", Arr(<<Iface(Str("GRPC"), Str("1.0"))>>)), Mem("additionalInterfaces", Address),
     Mem("supportedInterfaces", Arr(<<Good, Iface(Str("GRPC"), Str("1.0")), Iface(Str("JSONRPC"), Str("0.3"))>>)),
     Mem("supportedInterfaces", Arr(<<Iface(Str("JSONRPC"), Str("2.0")), Good>>)),
     Mem("supportedInterfaces", Arr(<<Iface(Null, Str("1.0"))>>)),
     Mem("supportedInterfaces", Arr(<<Good, Null>>)),
     Mem("supportedInterfaces", Arr(<<Obj(Append(Good.e, Mem("tenant", Str("t"))))>>)),
     Mem("signatures", Arr(<<Str("sig")>>)), Mem("signatures", Null), Mem("provider", Obj(<<Mem("url", Address)>>)),
     Mem("securitySchemes", Address), Mem("supportsAuthenticatedExtendedCard", Obj(<<Mem("u", Address)>>)),
     Mem("capabilities", Obj(<<Mem("streaming", Bool("true")), Mem("extensions", Arr(<<Address>>))>>)),
     Mem("capabilities", Obj(<<Mem("streaming", Address)>>)),
     Mem("skills", Arr(<<Obj(<<Mem("id", Str("s")), Mem("security", Address)>>),
                         Obj(<<Mem("securityRequirements", Null)>>)>>)),
     Mem("skills", Arr(<<Obj(<<Mem("tags", Arr(<<Obj(<<Mem("u", Address)>>)>>))>>)>>)),
     Mem("defaultInputModes", Arr(<<Str("text"), Null>>))}

Pool == CASE kind = "send" -> MessagePool [] kind = "read" -> ReadPool
          [] kind = "call" -> CallPool [] kind = "card" -> CardPool [] OTHER -> {}

Frames ==
    [send |-> [method : {"message/send", "SendMessage"}, cfg : Configs, sibling : BOOLEAN],
     read |-> [method : DOMAIN observableMethods \union unmodelled \union {"tasks/cancel"}, cfg : {Absent}, sibling : {FALSE}],
     call |-> [method : {"tools/call"}, cfg : {Absent}, sibling : {FALSE}],
     card |-> [method : {NoText}, cfg : {Absent, PublicURL}, sibling : {FALSE}]]

NoFrame == [method |-> NoText, cfg |-> Absent, sibling |-> FALSE]
DocInit == kind = "none" /\ frame = NoFrame /\ obj = Obj(<<>>)

ChooseDocument ==
    /\ kind = "none"
    /\ kind' \in DOMAIN Frames
    /\ frame' \in Frames[kind']
    /\ UNCHANGED obj

AddMember ==
    /\ Len(obj.e) < MaxMembers
    /\ \E mb \in Pool : obj' = Obj(Append(obj.e, mb))
    /\ UNCHANGED <<kind, frame>>

DocNext == ChooseDocument \/ AddMember

SendParams ==
    Obj(<<Mem("message", obj)>>
        \o (IF frame.cfg = Absent THEN <<>> ELSE <<Mem("configuration", frame.cfg)>>)
        \o (IF frame.sibling THEN <<Mem("metadata", Str("x"))>> ELSE <<>>))

-----------------------------------------------------------------------------
\* No message that an A2A point passes on, send or read, carries the
\* credential at any depth.
NoCredential ==
    /\ kind = "send" => NoCredentialForwarded(frame.method, SendParams)
    /\ kind = "read" => NoCredentialForwarded(frame.method, obj)

\* Every send that is passed on says what its digest binds and nothing else
\* that an agent acts on.
SendIsBound == kind = "send" => ActedOnIsBound(SendParams)

\* Every tools/call that is passed on is the bound call, and beside it a _meta
\* that no digest binds.
ToolCallIsBound == kind = "call" => CallIsBound(obj)

\* No relayed card leads around the enforcement point.
NoBypassAdvertised ==
    kind = "card" => \A reached \in BOOLEAN : CardHidesAgent(frame.cfg, reached, obj, Address)

\* A relayed card advertises what the agent did and the point serves, in the
\* agent's order, and every removal, nested ones and signatures too, is reported.
CardAccounted ==
    kind = "card" => CardHonest(frame.cfg, TRUE, obj)

\* What an A2A point passes on says no more than what was authorized, and has
\* no credential at any depth.  What an MCP point passes on is the call that
\* was authorized, and a _meta that was not: it may say anything, and only its
\* top level is cleared of the credential.
ForwardedIsBound == NoCredential /\ SendIsBound /\ ToolCallIsBound

\* A card that is relayed shows the point and not the agent behind it, and
\* what was taken out of it is accounted for.
CardsSafe == NoBypassAdvertised /\ CardAccounted

=============================================================================
