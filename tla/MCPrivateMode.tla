---------------------------- MODULE MCPrivateMode ----------------------------
(* PrivateMode with two numbered ids, two private ids and one restored id. *)
EXTENDS PrivateMode

CONSTANTS initial, t1, t2, p1, p2, r1, u, secret, ntp, blank, example
MCRestoredId == <<r1>>
MCNumberedId == <<t1, t2>>
MCPrivateId == <<p1, p2>>
=============================================================================
