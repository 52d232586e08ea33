----------------------------- MODULE MCChannelTS -----------------------------
(* Instances of ChannelTS: a pair of servers, or three in a line.          *)
EXTENDS ChannelTS, TLC
CONSTANTS S1, S2, S3, u1, u2, u3

Pair == {{S1, S2}}
Line == {{S1, S2}, {S2, S3}}
HomeOfPair == (u1 :> S1) @@ (u2 :> S2)
HomeOfLine == (u1 :> S1) @@ (u2 :> S3) @@ (u3 :> S2)

On(kind, arg) == [dir |-> "+", kind |-> kind, arg |-> arg]

NewModes == {"t"}
LineChanges == {On("mode", "i"), On("ban", u2), On("op", u2)}
OnlyOp == {On("op", u2)}
=============================================================================
