---- MODULE MCGodsWalks ----
EXTENDS GodsWalks

\* Between them lines of every direction and slope, a level one and one of no length.
ThePlaces == <<[x |-> 0, y |-> 0], [x |-> 5, y |-> 1], [x |-> 1, y |-> 5], [x |-> 5, y |-> 5]>>
====
