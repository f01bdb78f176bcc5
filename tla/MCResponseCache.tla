---- MODULE MCResponseCache ----
\* ResponseCache with model values for the requests and the system prompts.
EXTENDS ResponseCache, TLC
CONSTANTS r1, r2, p1, p2
MCSymmetry == Permutations({r1, r2})
====
