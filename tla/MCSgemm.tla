------------------------------ MODULE MCSgemm -------------------------------
EXTENDS Sgemm

Problem(m, n, k, nShires) ==
  LET padded == CeilDiv(n, TileN) * TileN IN
  [m |-> m, n |-> n, k |-> k, nShires |-> nShires,
   lda |-> CeilDiv(k, TileK) * TileK, ldb |-> padded, ldc |-> padded]

\* One shire with partial tiles at both edges and in k and three tiles for each
\* Minion; a grid that two shires do not divide evenly; a shire without a tile;
\* and calls that must be rejected.
SmallProblems ==
  { Problem(5, 3, 3, 1), Problem(5, 2, 2, 2), Problem(2, 2, 3, 2),
    Problem(1, 1, 0, 1), Problem(2, 2, 2, 3), Problem(2, 2, 2, 0),
    [Problem(2, 4, 2, 1) EXCEPT !.ldc = 2] }
=============================================================================
