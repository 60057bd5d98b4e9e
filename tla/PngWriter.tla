----------------------------- MODULE PngWriter -----------------------------
(***************************************************************************)
(* bench/png.cc and the drivers of the image benchmarks: a program draws   *)
(* its images one after the other into the same buffer and writes each to  *)
(* a file of its own with one of the overloads of write_png:               *)
(*                                                                         *)
(*   uchar  julia.cc: 256 palette colours                                  *)
(*   float  mandelbrot.cc: true colour, negative values are black          *)
(*   Color  newton.cc: true colour with transparency                       *)
(*                                                                         *)
(* The C library and libgd may refuse a file or an image, and may write a  *)
(* file only in part; write_png has no way to tell its caller.             *)
(***************************************************************************)
EXTENDS Integers, Functions

CONSTANTS
  NX, NY,   \* nx, ny
  NColors,  \* 256: the unsigned chars, and gdMaxColors
  Bench,    \* the number of images drawn by main
  Picture   \* Picture[overload][b]: what benchmark b leaves in the buffer

Overload == {"uchar", "float", "Color"}
Index    == 0 .. NX * NY - 1
Point    == (0 .. NX - 1) \X (0 .. NY - 1)
Value(o) == IF o = "float" THEN -1 .. NColors - 1 ELSE 0 .. NColors - 1
Black    == NColors

\* Assumed by the modules that give the constants their values.
PngAssumption ==
  /\ NX \in Nat \ {0} /\ NY \in Nat \ {0}
  /\ NColors \in Nat \ {0} /\ Bench \in Nat \ {0}
  /\ \A o \in Overload : Picture[o] \in [1 .. Bench -> [Index -> Value(o)]]

VARIABLES
  overload,  \* the program, by the overload it calls
  b,         \* the benchmark being run
  pc,        \* "draw", "open", "create", "palette", "pixels", "png",
             \* "close", "done"
  data,      \* the image buffer
  opened,    \* FILEs open
  images,    \* gdImages in existence
  colors,    \* the palette indices
  image,     \* the pixels of the gdImage
  i, j,      \* the loop counters
  files      \* the files on disk, by benchmark

vars == <<overload, b, pc, data, opened, images, colors, image, i, j, files>>

-----------------------------------------------------------------------------
Init ==
  /\ overload \in Overload
  /\ b = 1 /\ pc = "draw"
  /\ data \in [Index -> Value(overload)]
  /\ opened = 0 /\ images = 0
  /\ colors = [c \in {} |-> 0]
  /\ image = [p \in {} |-> 0]
  /\ i = 0 /\ j = 0
  /\ files = [x \in {} |-> image]

\* bench_julia, bench_mandelbrot, bench_newton: the kernel fills the buffer
\* and write_png is called.
Draw ==
  /\ pc = "draw" /\ b <= Bench
  /\ data' = Picture[overload][b]
  /\ pc' = "open"
  /\ UNCHANGED <<overload, b, opened, images, colors, image, i, j, files>>

\* write_png returns and the next benchmark follows.
Return == pc' = "draw" /\ b' = b + 1

OpenFails ==
  /\ pc = "open"
  /\ Return
  /\ UNCHANGED <<overload, data, opened, images, colors, image, i, j, files>>

\* fopen(filename, "wb") creates or truncates the file.
Open ==
  /\ pc = "open"
  /\ opened' = opened + 1
  /\ files' = [x \in DOMAIN files \cup {b} |->
                 IF x = b THEN [p \in {} |-> 0] ELSE files[x]]
  /\ pc' = "create"
  /\ UNCHANGED <<overload, b, data, images, colors, image, i, j>>

\* Mutant: the file stays open when the image cannot be created.
CreateFailsOpen ==
  /\ pc = "create"
  /\ Return
  /\ UNCHANGED <<overload, data, opened, images, colors, image, i, j, files>>

CreateFails ==
  /\ pc = "create"
  /\ opened' = opened - 1
  /\ Return
  /\ UNCHANGED <<overload, data, images, colors, image, i, j, files>>

\* gdImageCreate, gdImageCreateTrueColor
Create ==
  /\ pc = "create"
  /\ images' = images + 1
  /\ image' = [p \in Point |-> 0]
  /\ colors' = [c \in {} |-> 0]
  /\ i' = 0 /\ j' = 0
  /\ pc' = IF overload = "uchar" THEN "palette" ELSE "pixels"
  /\ UNCHANGED <<overload, b, data, opened, files>>

\* gdImageColorAllocate returns the next free index, or -1 when all are taken.
Allocate(n) == IF n < NColors THEN n ELSE -1

Palette ==
  /\ pc = "palette"
  /\ colors' = [c \in 0 .. i |-> IF c = i THEN Allocate(i) ELSE colors[c]]
  /\ IF i + 1 < NColors
       THEN i' = i + 1 /\ pc' = "palette"
       ELSE i' = 0 /\ pc' = "pixels"
  /\ UNCHANGED <<overload, b, data, opened, images, image, j, files>>

\* Mutant: no overload mirrors the columns.
SourceNotMirrored(x, y) == NY * x + y

\* The element of data that pixel x, y shows.
Source(x, y) == IF overload = "Color" THEN NY * x + y ELSE NY * (NX - x - 1) + y

\* The palette index, smooth_colormap, or the packed colour.
Shade(v) ==
  CASE overload = "uchar"           -> colors[v]
    [] overload = "float" /\ v < 0  -> Black
    [] OTHER                        -> v

SetPixel ==
  /\ pc = "pixels"
  /\ image' = [image EXCEPT ![<<i, j>>] = Shade(data[Source(i, j)])]
  /\ IF j + 1 < NY THEN j' = j + 1 /\ i' = i ELSE j' = 0 /\ i' = i + 1
  /\ pc' = IF i' < NX THEN "pixels" ELSE "png"
  /\ UNCHANGED <<overload, b, data, opened, images, colors, files>>

\* gdImagePng writes the rows from the top; when the disk is full the rest is
\* lost.
Png ==
  /\ pc = "png"
  /\ \E n \in 0 .. NY :
       files' = [files EXCEPT ![b] = Restrict(image, {p \in Point : p[2] < n})]
  /\ pc' = "close"
  /\ UNCHANGED <<overload, b, data, opened, images, colors, image, i, j>>

\* gdImageDestroy, fclose
Close ==
  /\ pc = "close"
  /\ images' = images - 1 /\ opened' = opened - 1
  /\ image' = [p \in {} |-> 0]
  /\ Return
  /\ UNCHANGED <<overload, data, colors, i, j, files>>

\* The end of main, and its rest.
Finish ==
  /\ pc = "draw" /\ b > Bench
  /\ pc' = "done"
  /\ UNCHANGED <<overload, b, data, opened, images, colors, image, i, j, files>>

Terminated == pc = "done" /\ UNCHANGED vars

Next ==
  \/ Draw
  \/ OpenFails \/ Open
  \/ CreateFails \/ Create
  \/ Palette
  \/ SetPixel
  \/ Png
  \/ Close
  \/ Finish
  \/ Terminated

\* One thread without blocking calls: it goes on while it has a step.
Fairness == WF_vars(Next)

Spec == Init /\ [][Next]_vars /\ Fairness

-----------------------------------------------------------------------------
\* What a benchmark's file shows is its own picture, never the one that was in
\* the buffer before: element r, c of the data appears in row c, in column r
\* of newton's images and mirrored in the others, in its colour, with black for
\* the points inside the Mandelbrot set.  Rows are missing only at the bottom.
FilesRight ==
  \A x \in DOMAIN files : x < b =>
    LET pic == Picture[overload][x]
        col(r) == IF overload = "Color" THEN r ELSE NX - 1 - r
        color(v) == IF v < 0 THEN Black ELSE v
    IN \E n \in 0 .. NY :
         files[x] = [p \in (0 .. NX - 1) \X (0 .. n - 1) |->
                       color(pic[NY * col(p[1]) + p[2]])]

\* Whatever calls fail and wherever write_png returns, all benchmarks are run,
\* and the program ends with every file closed and every image destroyed.
Terminates == <>(pc = "done" /\ opened = 0 /\ images = 0)
=============================================================================
