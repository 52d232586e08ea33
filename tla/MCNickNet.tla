------------------------------ MODULE MCNickNet ------------------------------
(* Instances of NickNet: two linked servers, or three in a line with a user  *)
(* at each end, so that a message and its answer cross on the middle server. *)
EXTENDS NickNet, TLC
CONSTANTS S1, S2, S3, u1, u2, a, b

Pair == {{S1, S2}}
Line == {{S1, S2}, {S2, S3}}
HomeOfPair == (u1 :> S1) @@ (u2 :> S2)
HomeOfLine == (u1 :> S1) @@ (u2 :> S3)
DistinctIdent == [u \in User |-> u]
SameIdent == [u \in User |-> "user@host"]
NoSkew == [s \in Server |-> 0]
OneAhead == [s \in Server |-> IF s = S1 THEN 1 ELSE 0]

=============================================================================
