--------------------------- MODULE NumericKernels ---------------------------
(***************************************************************************)
(* The numeric loops of the repository: the matrix products of             *)
(* week_1/phase1 (matrix_ops.cpp), the matrix sums of week_1/hw1, the      *)
(* moving averages of week_5/hw_5 (time_series_processor.cpp) and the      *)
(* percentiles of week_7 (Analytics.cpp).                                  *)
(*                                                                         *)
(* Each is described by the terms it adds up: the element of the result a  *)
(* term goes to, and the elements of the arguments it is the product of,   *)
(* by their places in the flat arrays, counted from 0; loops tells apart   *)
(* passes of the loops that add the same term again.  The order of the     *)
(* terms, and with it rounding, is left out.                               *)
(***************************************************************************)
EXTENDS Integers, FiniteSets, FiniteSetsExt

CONSTANTS MaxSize,    \* bound: rows, columns and lengths
          BlockSize   \* 64 in multiply_mm_optimized

ASSUME KernelsAssumption == MaxSize \in Nat /\ BlockSize \in Nat \ {0}

VARIABLE shape   \* the sizes the kernels are called with

\* Sizes that generate_random_matrix accepts.
Sizes == 1 .. MaxSize

KernelsInit == shape \in [rows : Sizes, inner : Sizes, cols : Sizes]

To(n) == 0 .. n - 1

Term(loops, at, a, b) == [loops |-> loops, at |-> at, a |-> a, b |-> b]

multiply_mv_row_major(rows, cols) ==
  {Term(0, i, i * cols + k, k) : i \in To(rows), k \in To(cols)}

multiply_mv_col_major(rows, cols) ==
  {Term(0, j, i * rows + j, i) : i \in To(cols), j \in To(rows)}

multiply_mm_naive(rowsA, colsA, colsB) ==
  {Term(0, i * colsB + j, i * colsA + k, k * colsB + j) :
     i \in To(rowsA), j \in To(colsB), k \in To(colsA)}

multiply_mm_transposed_b(rowsA, colsA, rowsB_T) ==
  {Term(0, i * rowsB_T + j, i * colsA + k, j * colsA + k) :
     i \in To(rowsA), j \in To(rowsB_T), k \in To(colsA)}

\* Where the blocks of a dimension begin, and the indices of one.
Starts(n) == {i \in To(n) : i % BlockSize = 0}

\* Mutant: the last block is not clipped to the matrix.
WholeBlock(start, n) == start .. start + BlockSize - 1

Block(start, n) == start .. Min({start + BlockSize, n}) - 1

multiply_mm_optimized(rowsA, colsA, colsB) ==
  UNION {{Term(<<i0, j0, k0>>, i * colsB + j, i * colsA + k, k * colsB + j) :
            i \in Block(i0, rowsA), j \in Block(j0, colsB), k \in Block(k0, colsA)} :
         i0 \in Starts(rowsA), j0 \in Starts(colsB), k0 \in Starts(colsA)}

\* transpose_matrix of week_1/phase1/main.cpp: where an element goes.
transpose_matrix(rows, cols, i, j) == j * rows + i

\* sumMatrixBasic and sumMatrixOptimized, which differ in how they reach an
\* element.
sumMatrix(size) == {Term(0, 0, i * size + j, 0) : i \in To(size), j \in To(size)}

\* How many averages there are.
Averages(n, window) == IF n < window THEN 0 ELSE n - window + 1

compute_moving_average_standard(n, window) ==
  {Term(0, i, i + j, 0) : i \in To(Averages(n, window)), j \in To(window)}

\* Two lanes for the pairs and a scalar for what is left of an odd window.
compute_moving_average_simd(n, window) ==
  LET pairs == {j \in To(window) : j % 2 = 0 /\ j + 2 <= window}
      rest  == {j \in To(window) : \A p \in pairs : j > p + 1}
  IN  {Term("lanes", i, i + p + lane, 0) :
         i \in To(Averages(n, window)), p \in pairs, lane \in 0 .. 1}
      \cup {Term("rest", i, i + j, 0) : i \in To(Averages(n, window)), j \in rest}

\* idx of printLatencyPercentiles, with p in thousandths.
idx(p, n) == LET i == (p * n) \div 1000 IN IF i >= n THEN n - 1 ELSE i

KernelsNext == UNCHANGED shape

KernelsSpec == KernelsInit /\ [][KernelsNext]_shape

-----------------------------------------------------------------------------
\* The terms are these, each once.
AddsUp(terms, expected) ==
  /\ {<<t.at, t.a, t.b>> : t \in terms} = expected
  /\ Cardinality(terms) = Cardinality(expected)

\* What the results are defined to be: of the product of a matrix by a vector,
\* its rows or its columns together in memory, of two matrices, of the sum of
\* a matrix and of the averages of the windows within n elements.
RowTerms(m, n) == {<<i, i * n + k, k>> : i \in To(m), k \in To(n)}

ColTerms(m, n) == {<<i, k * m + i, k>> : i \in To(m), k \in To(n)}

ProductTerms(m, l, n) ==
  {<<i * n + j, i * l + k, k * n + j>> : i \in To(m), j \in To(n), k \in To(l)}

SumTerms(n) == {<<0, e, 0>> : e \in To(n * n)}

AverageTerms(n, window) ==
  {w \in {<<i, j, 0>> : i \in To(n), j \in To(n)} :
     w[1] + window <= n /\ w[2] \in w[1] .. w[1] + window - 1}

\* The terms of the transposed product, told by where B has its elements: the
\* element of B that its transpose has at b.
BackOf(l, n, b) ==
  CHOOSE e \in To(l * n) : \E k \in To(l), j \in To(n) :
    e = k * n + j /\ transpose_matrix(l, n, k, j) = b

TransposedBack(m, l, n) ==
  {Term(0, t.at, t.a, BackOf(l, n, t.b)) : t \in multiply_mm_transposed_b(m, l, n)}

\* Every kernel adds up what its result is defined to be, each term exactly
\* once and none from outside the arguments, for sizes of any remainder by
\* the block and lane widths; the three products of the same two matrices
\* are the same; and the p-th percentile printed is an element that at least
\* the share p of the elements are not above.
KernelsAgree ==
  LET m == shape.rows
      l == shape.inner
      n == shape.cols
  IN  /\ AddsUp(multiply_mv_row_major(m, n), RowTerms(m, n))
      /\ AddsUp(multiply_mv_col_major(m, n), ColTerms(m, n))
      /\ AddsUp(multiply_mm_naive(m, l, n), ProductTerms(m, l, n))
      /\ AddsUp(TransposedBack(m, l, n), ProductTerms(m, l, n))
      /\ AddsUp(multiply_mm_optimized(m, l, n), ProductTerms(m, l, n))
      /\ AddsUp(sumMatrix(n), SumTerms(n))
      /\ AddsUp(compute_moving_average_standard(l, n), AverageTerms(l, n))
      /\ AddsUp(compute_moving_average_simd(l, n), AverageTerms(l, n))
      /\ \A p \in {500, 900, 950, 990, 999} :
           /\ idx(p, n) \in To(n)
           /\ 1000 * (idx(p, n) + 1) >= p * n
=============================================================================
