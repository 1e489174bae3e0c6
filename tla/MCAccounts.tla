----------------------------- MODULE MCAccounts -----------------------------
EXTENDS Accounts, TLC
Symmetry == Permutations(Requests) \cup Permutations(Tokens)

\* What may meet on one account: its sessions and its password; its directory
\* and the setup gate; its end, from within and from without.
MCMixes == {{"signup", "login", "logout", "password"},
            {"signup", "page", "setup", "delete"},
            {"signup", "login", "logout_all", "revoke", "invite"},
            {"signup", "delete", "row", "prune"}}
=============================================================================
