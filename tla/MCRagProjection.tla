--------------------------- MODULE MCRagProjection ---------------------------
EXTENDS RagProjection, TLC

MCBothKinds == <<"knowledge", "notes">>
MCOneKind   == <<"knowledge">>

MCSymmetry == Permutations(Jobs)
=============================================================================
