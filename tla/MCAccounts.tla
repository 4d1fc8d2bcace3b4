------------------------------ MODULE MCAccounts ------------------------------
\* Instances of Accounts. The properties tell no two requests, browsers or
\* passwords apart (forms do choose a user and a value for the fields they lack).
EXTENDS Accounts, TLC

Symmetry == Permutations(Requests) \cup Permutations(Browsers) \cup Permutations(Passwords)
===============================================================================
