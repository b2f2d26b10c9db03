---------------------------- MODULE MCSpmdOutput ----------------------------
EXTENDS SpmdOutput

\* Two shires with a gap in front or between them, wherever the program allows
\* for one; the reductions where their harts exist.
WorkingSetups ==
  {<<"reduce", {0, 1}>>, <<"reduce", {1}>>, <<"reset_test", {0}>>}
  \cup {"cache_test", "double_buffer", "simd_test", "tensor_ext_test", "ps_math_test"}
         \X {{0, 1}, {0, 2}, {1, 2}}
=============================================================================
