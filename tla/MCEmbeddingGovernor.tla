------------------------ MODULE MCEmbeddingGovernor ------------------------
EXTENDS EmbeddingGovernor
CONSTANTS i1, b1, b2
MCRequests == {i1, b1, b2}
MCBatch == {b1, b2}
=============================================================================
