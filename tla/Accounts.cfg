CONSTANTS
    Users = {ann, bob}
    MaxUsers = 1
    Requests = {r1, r2}
    Tokens = {t1, t2}
    MaxPasswords = 1
    Mixes <- MCMixes
    Nobody = Nobody
    NoToken = NoToken
SPECIFICATION Spec
INVARIANTS AccountsAreWhole RotationEndsSessions DirectoryStands SetupIsSeen
PROPERTY FirstByInvite
SYMMETRY Symmetry
CHECK_DEADLOCK FALSE
