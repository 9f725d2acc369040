--------------------------- MODULE MCMemoryManager ---------------------------
EXTENDS MemoryManager

D(start, pages, avail) == [start |-> start, pages |-> pages, available |-> avail]

\* Adjacent and separated descriptors, available memory first, last, in the
\* middle, a reserved one inside a gap, an empty one.
MCMemoryMaps ==
  { <<D(0, 10, TRUE)>>,
    <<D(0, 1, FALSE), D(1, 4, TRUE), D(5, 2, FALSE), D(7, 3, TRUE)>>,
    <<D(1, 3, TRUE), D(5, 1, FALSE), D(7, 3, TRUE)>>,
    <<D(0, 4, TRUE), D(4, 0, TRUE), D(6, 3, TRUE), D(9, 1, FALSE)>>,
    <<D(2, 6, TRUE), D(9, 1, FALSE)>> }
=============================================================================
