----------------------------- MODULE MCFormTurn -----------------------------
\* FormTurn with a call of two attempts and one Retry-After: one retry, a last
\* chance, and a refusal that names its time, under every form and verdict.
EXTENDS FormTurn
=============================================================================
