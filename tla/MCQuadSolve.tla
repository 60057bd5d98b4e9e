---------------------------- MODULE MCQuadSolve ----------------------------
EXTENDS QuadSolve

\* Discriminants below zero, zero, between zero and epsilon, epsilon, above.
SmallCoef == {-1, 1, 2} \X (-3 .. 3) \X {-1, 0, 1}
OneCoef   == {1} \X (-2 .. 2) \X {-1, 0, 1}

AllKernels == <<"QuadSolve", "QuadSolveOptimized", "QuadSolveAVX", "QuadSolveSIMD">>
SIMDOnly   == <<"QuadSolveSIMD">>
AVXOnly    == <<"QuadSolveAVX">>
=============================================================================
