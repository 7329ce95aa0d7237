----------------------------- MODULE MCTextTurn -----------------------------
\* TextTurn on two asks, a block being at most one piece and a held-back tail:
\* enough for a held tag to be flushed after a piece, and for one ask to be
\* answered while the other fails, awaits a form or has no place.
EXTENDS TextTurn
=============================================================================
