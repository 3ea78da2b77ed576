------------------------------ MODULE MCGateway ------------------------------
(***************************************************************************)
(* A small instance of Gateway: two ticks to the second, and lifetimes of  *)
(* at most a second, the length of the window.                             *)
(***************************************************************************)
EXTENDS Gateway

CONSTANTS j1, j2, j3, pay, read, here, elsewhere

T(jti, exp, aud, sigOK) ==
    [jti |-> jti, exp |-> exp, aud |-> aud, sigOK |-> sigOK, digest |-> pay]

R(skin, method, shape, intent, token) ==
    [skin |-> skin, method |-> method, shape |-> shape, intent |-> intent,
     token |-> token]

\* Good calls with two tokens, presented through different skins.
GoodRequests ==
    {R("mcp", "send", "ok", pay, T(j1, 2, here, TRUE)),
     R("a2a", "send", "ok", pay, T(j2, 1, here, TRUE))}

\* One request for each other path through the skins and the engine.
OddRequests ==
    {R("opa", "send", "ok", read, T(j1, 2, here, TRUE)),
     R("opa", "malformed", "ok", read, NoToken),
     R("opa", "other", "ok", read, NoToken),
     R("grpc", "malformed", "ok", read, NoToken),
     R("extauthz", "send", "ok", pay, T(j1, 2, here, TRUE)),
     R("mcp", "send", "unstrippable", pay, T(j1, 2, here, TRUE)),
     R("a2a", "send", "unstrippable", pay, T(j1, 2, here, TRUE)),
     R("mcp", "send", "ok", pay, NoToken),
     R("mcp", "send", "ok", pay, T(j3, 2, elsewhere, TRUE)),
     R("mcp", "read", "ok", read, NoToken),
     R("mcp", "other", "ok", read, NoToken)}

\* Anything may come first; good calls then compete with it and with each
\* other.
MCRequests ==
    <<GoodRequests \union OddRequests, GoodRequests,
      {r \in GoodRequests : r.skin = "mcp"}>>

=============================================================================
