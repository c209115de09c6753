----------------------------- MODULE MCRefusalDial -----------------------------
\* Instances of RefusalDial: two POSTs, a GET, two ranks.  Lambdas are written
\* in tenths; 15 is 1.5, which a float32 holds exactly.  Tenth is 0.1: the
\* float32 next to it is 1.49e-9 away.
EXTENDS RefusalDial

MCAsks == ("p1" :> 15 @@ "p2" :> 20)
MCFloat32 == (0 :> 0 @@ 15 :> 15 @@ 20 :> 20)

TenthAsks == ("p1" :> 1 @@ "p2" :> 15)
TenthFloat32 == (0 :> 0 @@ 1 :> 101 @@ 15 :> 15)
=============================================================================
