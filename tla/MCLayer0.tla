------------------------------- MODULE MCLayer0 -------------------------------
EXTENDS Layer0
CONSTANTS c3, v3, a, b
MCImage(x) == IF x \in {c3, v3} THEN b ELSE a
=============================================================================
