--------------------------- MODULE MCSchemaPacks ---------------------------
\* Two workers that boot up to three times on one folder of two packs, one
\* worker killed at any step of any boot.
EXTENDS SchemaPacks

CONSTANTS mandi, grievance
MCOrder == <<mandi, grievance>>
Interchangeable == Permutations(Workers)
=============================================================================
