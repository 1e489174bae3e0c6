----------------------------- MODULE MCLibrary -----------------------------
(* Two names, three games: two of one begun in the same second, and then one  *)
(* they play against each other.                                            *)
EXTENDS Library, TLC
CONSTANTS g1, g2, g3, r1, r2, j1, j2
MCGames == {g1, g2, g3}
MCAt == g1 :> 2 @@ g2 :> 3 @@ g3 :> 4
MCEnd == g1 :> 3 @@ g2 :> 3 @@ g3 :> 5
MCPlayers == g1 :> {"ann"} @@ g2 :> {"ann"} @@ g3 :> {"ann", "bob"}
MCMixes == {{j1, r1, "create", "delete", "sync", "play"}, {j1, r1, "create", "delete", "patch", "stats"},
            {r1, r2, "create", "delete", "patch"},
            {j1, r1, "patch", "sync", "import", "play"}, {j1, j2, "bulk", "import", "sync", "play"},
            {j1, j2, r1, "patch", "sync", "import", "play", "chesscom"}}
=============================================================================
