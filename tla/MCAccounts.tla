----------------------------- MODULE MCAccounts -----------------------------
EXTENDS Accounts, TLC

\* No definition tells two users, realms, sessions, requests or challenges apart.
Symmetry ==
    Permutations(Users) \cup Permutations(Realms) \cup Permutations(Sessions)
        \cup Permutations(Requests) \cup Permutations(Challenges)
=============================================================================
