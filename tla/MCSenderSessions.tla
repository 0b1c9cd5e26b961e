-------------------------- MODULE MCSenderSessions --------------------------
(* Instances of SenderSessions for TLC: two numbers, one placeholder, one new *)
(* session and two requests, so that authentications can race for a number  *)
(* and two stale rows can be written back.  Operators type both numbers as  *)
(* digits, one of them in another spelling too, or nothing.                 *)
EXTENDS SenderSessions

CONSTANTS p1, p2

MCTyped == [number : {p1, p2, None}, spelling : {"digits"}]
           \cup {[number |-> p1, spelling |-> "other"]}
=============================================================================
