----------------------------- MODULE MCCredentials -----------------------------
(***************************************************************************)
(* Two clients and MaxRequests requests of any kind: a device set up, its   *)
(* backup code, a code or password presented, the second factor switched    *)
(* off, the password changed.                                                *)
(***************************************************************************)
EXTENDS Credentials, TLC

CONSTANTS w1, w2, d1, d2, c1, c2, r1, p1, p2

MCClient == {w1, w2}
MCDevice == {d1, d2}
MCCode == {c1, c2}
MCRow == {r1}
MCEnrolled == {d1, c1}
MCPassword == {p1, p2}

=============================================================================
