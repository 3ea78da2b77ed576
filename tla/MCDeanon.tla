----------------------------- MODULE MCDeanon --------------------------------
(***************************************************************************)
(* Small instances of Deanon.  Time is in units of the guard's tolerance   *)
(* of one minute, with a shorter MaxAge.                                   *)
(***************************************************************************)
EXTENDS Deanon

CONSTANTS a, b, id1, id2, w1, w2, court, other

Req(anchor, requester, issued, sigOK, basis) ==
    [anchor |-> anchor, requester |-> requester, issued |-> issued,
     sigOK |-> sigOK, basis |-> basis]

\* Two good requests, of different dates, and one for each refusal.
MCRequests ==
    {Req(a, court, 0, TRUE, TRUE), Req(b, court, 2, TRUE, TRUE),
     Req(a, other, 0, TRUE, TRUE), Req(a, court, 0, FALSE, TRUE),
     Req(a, court, 0, TRUE, FALSE)}

\* Good requests only.
GoodRequests == {q \in MCRequests : q.requester = court /\ q.sigOK /\ q.basis}

\* A request that may be presented before its date.
FutureRequests == {q \in GoodRequests : q.issued = 2}

=============================================================================
