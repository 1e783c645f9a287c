---------------------------- MODULE MCDiscovery ----------------------------
EXTENDS Discovery

L(t) == [kind |-> "factory", token |-> t]

\* Token 1 was launched before the range, 2 and 3 in it; 2's pair has a log before the launch.
Trunk ==
  {LogAt(1, 1, 0, L(1)), LogAt(2, 1, 0, Emitter("token", 1)), LogAt(2, 2, 0, Factory),
   LogAt(3, 0, 0, Emitter("pair", 2)), LogAt(4, 1, 0, L(2)), LogAt(4, 2, 0, Emitter("curve", 2)),
   LogAt(4, 3, 0, Emitter("pair", 2)), LogAt(5, 1, 0, Emitter("curve", 1)),
   LogAt(5, 2, 0, Emitter("pair", 2))}

ForkA == Trunk \cup {LogAt(6, 1, 0, L(3)), LogAt(6, 2, 0, Emitter("token", 3)), LogAt(6, 3, 0, Emitter("pair", 2))}

\* The last block is another one: 3 is not launched, 1 trades twice in its place.
ForkB == Trunk \cup {LogAt(6, 1, 1, Emitter("curve", 1)), LogAt(6, 2, 1, Emitter("curve", 1))}

MCForks == {ForkA, ForkB}

MCErrors == {Error(429, 0, "http", "rate"), Error(0, -32000, "rpc", "rate"), Error(0, 0, "deadline", "none"),
             Error(413, 0, "http", "none"), Error(0, -32602, "rpc", "none"), Error(0, 0, "canceled", "none")}
=============================================================================
