------------------------ MODULE MCReconnectingSocket ------------------------
(* Instances of ReconnectingSocket for TLC. *)
EXTENDS ReconnectingSocket, TLC

CONSTANTS s1, s2, s3, r1, r2, r3

MCSockets == {s1, s2, s3}
TwoSockets == {s1, s2}
MCRequests == {r1, r2, r3}
TwoRequests == {r1, r2}
OneRequest == {r1}

(* Requests are interchangeable, and so are the slots that are not first. *)
Symmetry == Permutations({r1, r2}) \cup Permutations({s2, s3})
=============================================================================
