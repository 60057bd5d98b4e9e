------------------------------ MODULE Drivers ------------------------------
(***************************************************************************)
(* The benchmark programs with state of their own: newton's kernels, and,  *)
(* with variables of their own, the tests of nbody.cc, which share the     *)
(* bodies, and the main of an image benchmark, whose images share a        *)
(* buffer.  The programs have nothing in common but the size of an image.  *)
(***************************************************************************)
EXTENDS Newton

CONSTANTS
  N, M, Mass, Pull, Sizes, NRuns,  \* of NBody
  NColors, Bench, Picture          \* of PngWriter

VARIABLES
  pos, vel, test, run, phase, body, puller, pipos, pivel,
  overload, bench, step, data, opened, images, colors, img, row, column, files

NB == INSTANCE NBody WITH n <- run, i <- body, j <- puller

P == INSTANCE PngWriter WITH b <- bench, pc <- step, image <- img,
                             i <- row, j <- column

\* nbody's tests advance the bodies by whole time steps; see NBody
\* (bench/nbody.cc:114-219).
ImplementsTimeStep == NB!ImplementsTimeStep

\* The files of the image benchmarks show their pictures; see PngWriter
\* (bench/png.cc:66-177).
FilesRight == P!FilesRight

\* An image benchmark ends, with everything released; see PngWriter
\* (bench/png.cc:66-177).
Terminates == P!Terminates
=============================================================================
