------------------------------ MODULE MCSessions ------------------------------
(* Small instances of Sessions for TLC.                                    *)
EXTENDS Sessions, TLC

\* Clients are alike, and so are emails, passwords and tokens.
Symmetry ==
    Permutations(Clients) \cup Permutations(Emails) \cup
    Permutations(Passwords) \cup Permutations(Tokens)
==============================================================================
