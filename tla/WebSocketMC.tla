----------------------------- MODULE WebSocketMC -----------------------------
(* Instances of WebSocket for TLC. *)
EXTENDS WebSocket

Spawn(mode, names, writes, ends) ==
    [mode |-> mode, names |-> names, writes |-> writes, ends |-> ends]

TrioSingle == {Spawn("single", {1, 2, 3}, 2, FALSE)}
AllSpawns == TrioSingle \union
    {Spawn("single", {1, 2}, 3, TRUE), Spawn("multi", {1, 2}, 3, TRUE),
     Spawn("multi", {1, 2, 3}, 1, FALSE)}

=============================================================================
