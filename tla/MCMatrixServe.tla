--------------------------- MODULE MCMatrixServe ---------------------------
\* Two rooms, with more posts than ids are kept for.
EXTENDS MatrixServe
=============================================================================
