--------------------------- MODULE MCWebRtcSocket ---------------------------
(* Instances of WebRtcSocket for TLC: a pair of peers, in every combination  *)
(* of platforms, introduced once or twice, and left, answered too early or   *)
(* sent packets.                                                             *)
EXTENDS WebRtcSocket, TLC

CONSTANTS a, b

OneOffers == {<<a, b>>}

Scene(pa, pb, i, l, k) ==
    [platform |-> a :> pa @@ b :> pb, intros |-> i, lefts |-> l, packets |-> k]

SomeScenes ==
    {Scene("native", "native", 1, 1, 1), Scene("native", "native", 2, 0, 0),
     Scene("native", "wasm", 1, 0, 2),   Scene("wasm", "native", 1, 0, 2),
     Scene("wasm", "wasm", 2, 1, 0)}
=============================================================================
