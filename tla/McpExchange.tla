----------------------------- MODULE McpExchange -----------------------------
(***************************************************************************)
(* mcp-pep over stdio: serve reads the client's lines one after the other, *)
(* the middleware refuses a line or passes it on, and forward writes it to *)
(* the wrapped server and reads the server's lines until one carries the   *)
(* id of the request.  Other lines are relayed to the client.  What the    *)
(* middleware decides is in Gateway; here a line with a method may be      *)
(* refused or passed on.                                                   *)
(***************************************************************************)
EXTENDS Naturals, Sequences

CONSTANTS
    ClientIds,      \* ids the client gives its requests
    ServerIds,      \* ids the server gives requests of its own; nothing keeps
                    \* them apart from the client's
    PipeCapacity,   \* lines a pipe to or from the wrapped server holds
    MaxLines,       \* bound on the client's lines
    MaxUnsolicited  \* bound on what the server says without being asked

ASSUME ExchangeAssumption ==
    /\ PipeCapacity \in Nat \ {0} /\ MaxLines \in Nat /\ MaxUnsolicited \in Nat

VARIABLES
    stdin,       \* the client's lines that serve has not read
    pep,         \* where serve is, and with which line
    toServer,    \* the child's stdin pipe
    fromServer,  \* the child's stdout pipe
    serverUp,    \* the wrapped server runs
    working,     \* requests it has read and not answered
    unsolicited, \* how many lines it sent without being asked
    lines,       \* history: every line the client sent
    answer,      \* history: line number -> what the client got for it
    relayed      \* history: lines passed to the client out of band

exchangeVars == <<stdin, pep, toServer, fromServer, serverUp, working,
                  unsolicited, lines, answer, relayed>>

Reading == [stage |-> "reading", line |-> 0]
Denied == [kind |-> "denied", id |-> "", n |-> 0]
Upstream == [kind |-> "upstream", id |-> "", n |-> 0]
Nil == [kind |-> "nil", id |-> "", n |-> 0]

\* A missing id makes a message a notification.
isRequest(msg) == msg.kind = "request"
hasId(msg) == msg.kind # "notification"

ExchangeInit ==
    /\ stdin = <<>> /\ toServer = <<>> /\ fromServer = <<>>
    /\ pep = Reading /\ serverUp = TRUE /\ working = {}
    /\ unsolicited = 0 /\ lines = <<>> /\ answer = <<>> /\ relayed = <<>>

\* The client never has two requests with one id under way.
outstanding == {lines[n].id : n \in {k \in 1..Len(lines) :
                    isRequest(lines[k]) /\ k \notin DOMAIN answer}}

\* The client sends a request, a notification, or a reply to a request of the
\* server that was relayed to it.
ClientSends ==
    /\ Len(lines) < MaxLines
    /\ \E msg \in [kind : {"request"}, id : ClientIds \ outstanding, n : {Len(lines) + 1}]
             \union [kind : {"notification"}, id : {""}, n : {Len(lines) + 1}]
             \union [kind : {"reply"}, id : {r.id : r \in
                        {relayed[k] : k \in {j \in 1..Len(relayed) : relayed[j].kind = "request"}}},
                     n : {Len(lines) + 1}] :
          /\ lines' = Append(lines, msg)
          /\ stdin' = Append(stdin, msg)
    /\ UNCHANGED <<pep, toServer, fromServer, serverUp, working,
                   unsolicited, answer, relayed>>

\* The middleware's error for line n: a notification has no response.
errorResponse(n, msg) == IF hasId(lines[n]) THEN msg ELSE Nil

\* serve writes what the middleware returned for line n; a line with an id for
\* which it returned nothing is answered with the denial.
Give(n, resp) ==
    LET written == IF resp = Nil /\ hasId(lines[n]) THEN Denied ELSE resp IN
    answer' = IF written = Nil THEN answer
              ELSE [k \in DOMAIN answer \union {n} |-> IF k = n THEN written ELSE answer[k]]

\* serve hands a line to the middleware.  A reply has no method and is always
\* refused; a notification is refused without an answer.
Handle ==
    /\ pep.stage = "reading" /\ stdin # <<>>
    /\ stdin' = Tail(stdin)
    /\ \/ /\ Give(Head(stdin).n, errorResponse(Head(stdin).n, Denied))
          /\ pep' = pep
       \/ /\ Head(stdin).kind # "reply"
          /\ pep' = [stage |-> "writing", line |-> Head(stdin).n]
          /\ UNCHANGED answer
    /\ UNCHANGED <<toServer, fromServer, serverUp, working,
                   unsolicited, lines, relayed>>

\* forward takes the lock and writes; the write fails once the server is gone
\* and waits while the pipe is full.
ForwardWrites ==
    /\ pep.stage = "writing"
    /\ \/ /\ ~serverUp
          /\ Give(pep.line, errorResponse(pep.line, Upstream)) /\ pep' = Reading
          /\ UNCHANGED toServer
       \/ /\ serverUp /\ Len(toServer) < PipeCapacity
          /\ toServer' = Append(toServer, lines[pep.line])
          /\ \/ /\ isRequest(lines[pep.line])
                /\ pep' = [pep EXCEPT !.stage = "waiting"] /\ UNCHANGED answer
             \/ /\ ~isRequest(lines[pep.line])
                /\ pep' = Reading /\ Give(pep.line, Nil)
    /\ UNCHANGED <<stdin, fromServer, serverUp, working,
                   unsolicited, lines, relayed>>

\* Mutant: the first line that has an id is taken for the answer.
matches_anyId(msg, n) == hasId(msg)

\* A line with the id of the request is its answer, whatever else it is.
matches(msg, n) == hasId(msg) /\ msg.id = lines[n].id

\* forward reads one line of the server: the answer, or something to relay.
ForwardReads ==
    /\ pep.stage = "waiting" /\ fromServer # <<>>
    /\ fromServer' = Tail(fromServer)
    /\ LET msg == Head(fromServer) IN
       \/ /\ matches(msg, pep.line)
          /\ Give(pep.line, msg) /\ pep' = Reading
          /\ UNCHANGED relayed
       \/ /\ ~matches(msg, pep.line)
          /\ relayed' = Append(relayed, msg)
          /\ UNCHANGED <<pep, answer>>
    /\ UNCHANGED <<stdin, toServer, serverUp, working, unsolicited, lines>>

\* Mutant: the end of the stream is taken for one more empty line.
ForwardEnds_scans ==
    /\ pep.stage = "waiting" /\ fromServer = <<>> /\ ~serverUp
    /\ UNCHANGED exchangeVars

\* The server closed its stream before answering.
ForwardEnds ==
    /\ pep.stage = "waiting" /\ fromServer = <<>> /\ ~serverUp
    /\ Give(pep.line, errorResponse(pep.line, Upstream)) /\ pep' = Reading
    /\ UNCHANGED <<stdin, toServer, fromServer, serverUp, working,
                   unsolicited, lines, relayed>>

\* The wrapped server: it reads, answers each request once and in any order,
\* speaks unasked, and may exit.
ServerReads ==
    /\ serverUp /\ toServer # <<>>
    /\ toServer' = Tail(toServer)
    /\ working' = working \union (IF isRequest(Head(toServer)) THEN {Head(toServer)} ELSE {})
    /\ UNCHANGED <<stdin, pep, fromServer, serverUp, unsolicited, lines, answer, relayed>>

ServerAnswers ==
    /\ serverUp /\ Len(fromServer) < PipeCapacity
    /\ \E rq \in working :
          /\ working' = working \ {rq}
          /\ fromServer' = Append(fromServer, [kind |-> "response", id |-> rq.id, n |-> rq.n])
    /\ UNCHANGED <<stdin, pep, toServer, serverUp, unsolicited, lines, answer, relayed>>

ServerSpeaks ==
    /\ serverUp /\ unsolicited < MaxUnsolicited /\ Len(fromServer) < PipeCapacity
    /\ \E msg \in [kind : {"notification"}, id : {""}, n : {0}]
             \union [kind : {"request"}, id : ServerIds, n : {0}] :
          fromServer' = Append(fromServer, msg)
    /\ unsolicited' = unsolicited + 1
    /\ UNCHANGED <<stdin, pep, toServer, serverUp, working, lines, answer, relayed>>

ServerExits ==
    /\ serverUp /\ serverUp' = FALSE
    /\ UNCHANGED <<stdin, pep, toServer, fromServer, working,
                   unsolicited, lines, answer, relayed>>

PepStep == Handle \/ ForwardWrites \/ ForwardReads \/ ForwardEnds
ExchangeNext == ClientSends \/ PepStep \/ ServerReads \/ ServerAnswers \/ ServerSpeaks \/ ServerExits

\* The point reads and writes whenever it can.  Nothing is assumed of the
\* server: forward has no timeout.
ExchangeFairness == WF_exchangeVars(PepStep)

-----------------------------------------------------------------------------
\* What the client receives as the answer to a call is the server's answer to
\* that very call or an error (the reason forward holds its lock and compares
\* ids).  The one exception is confined to one id: a request of the server's
\* own that carries the id of the call under way is taken for the answer,
\* since forward looks at nothing else, and the real answer is then left over
\* for a later call, if the client uses that id again.
AnswersTheirOwnCall ==
    \A n \in DOMAIN answer :
        \/ answer[n].kind \in {"denied", "upstream"}
        \/ answer[n].kind = "response" /\ answer[n].n = n
        \/ /\ answer[n].id = lines[n].id
           /\ \E k \in DOMAIN answer : answer[k].kind = "request" /\ lines[k].id = lines[n].id

\* serve waits for a server that runs and neither reads nor writes.
ServerStalls ==
    /\ serverUp
    /\ \/ pep.stage = "waiting" /\ fromServer = <<>>
       \/ pep.stage = "writing" /\ Len(toServer) = PipeCapacity

\* Every request of the client is answered in the end, unless a server that
\* keeps running leaves serve waiting for ever: serve never hangs on a server
\* that exited, at whichever step of an exchange, and no refusal is silent.
\* The server that waits for the client's reply to a request of its own is
\* one that leaves serve waiting: the reply has no method and is refused.
EveryCallAnswered ==
    []<>~ServerStalls =>
        \A n \in 1..MaxLines :
            (n \in 1..Len(lines) /\ isRequest(lines[n])) ~> (n \in DOMAIN answer)

=============================================================================
