------------------------------ MODULE MCLlmCache ------------------------------
\* A small cache: one schema prompt and one plain one, answers of one block and of two, one
\* of them sent with other line ends than it is read with.
EXTENDS LlmCache

CONSTANTS good, crlf, lf, bad

MCValid == {good, crlf, lf}

MCBlocks == [r \in Responses |-> IF r \in {crlf, lf} THEN 2 ELSE 1]

MCNewlines == [r \in Responses |-> IF r = crlf THEN lf ELSE r]
=============================================================================
