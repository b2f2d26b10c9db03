------------------------------ MODULE MCTrace -------------------------------
EXTENDS Trace

\* All of the buffer, the first partition and a half, less than a header.
CopiedSome == {Size, Stride + Stride \div 2, StdHeader - 1}
=============================================================================
