------------------------------- MODULE MCRecall -------------------------------
\* Four entities in a row: the shortest graph on which a walk in the wrong order
\* measures a wrong distance.
EXTENDS Recall

MCLinks == {<<1, 2>>, <<3, 2>>, <<3, 4>>}
MCCosines == {-6, 0}
===============================================================================
