--------------------------- MODULE MCEntityLinking ---------------------------
\* A small corpus: vectors v and w are near each other, x is far from both.
EXTENDS EntityLinkingProperties

CONSTANTS v, w, x

MCCosine ==
    [a \in Vectors |-> [b \in Vectors |->
        CASE a = b -> 100
          [] {a, b} = {v, w} -> 90
          [] OTHER -> 40]]
=============================================================================
