CONSTANTS
    g1 = g1  g2 = g2  g3 = g3  r1 = r1  r2 = r2  j1 = j1  j2 = j2
    Second = 2
    Unbounded = 9
    Month = 2
    Batch = 1
    Ids = {1, 2}
    Names = {"ann", "bob"}
    Games <- MCGames
    At <- MCAt
    End <- MCEnd
    Players <- MCPlayers
    Quotas = {1}
    Default = 3
    Mixes <- MCMixes
    Jobs = {j1, j2}
    Requests = {r1, r2}
SPECIFICATION Spec
INVARIANTS TagsAreTrue NoHole
