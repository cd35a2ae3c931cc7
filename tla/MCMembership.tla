---------------------------- MODULE MCMembership ----------------------------
(***************************************************************************)
(* Membership for TLC. Users other than the founder, requests and          *)
(* invitations are interchangeable. An invitation that is no longer        *)
(* pending is never read but for its status, so states that differ in the  *)
(* rest of it are one state.                                               *)
(***************************************************************************)
EXTENDS Membership, TLC

Interchangeable ==
    Permutations(Users \ {Founder}) \cup Permutations(Requests) \cup Permutations(Invitations)

Seen(i) ==
    IF invitation[i].status = "pending"
    THEN invitation[i] ELSE [NoInvitation EXCEPT !.status = invitation[i].status]

WhatIsRead ==
    <<role, request, [i \in Invitations |-> Seen(i)], accepting, everOwner, overlapped>>
=============================================================================
