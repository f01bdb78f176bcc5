---- MODULE MCClientAccess ----
\* ClientAccess with model values for accounts, keys, calls and sessions.
EXTENDS ClientAccess, TLC
CONSTANTS c1, k1, k2, k3, r1, r2, s1, s2
====
