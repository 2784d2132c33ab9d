------------------------------- MODULE MCYjsHub -------------------------------
(* Two writers of different accounts and a reader, on one note. *)
EXTENDS YjsHub, TLC

CONSTANTS c1, c2, v, n1, u1, u2

TheUserOf == c1 :> u1 @@ c2 :> u2 @@ v :> u2
TheMaxSeq == n1 :> 3
===============================================================================
