--------------------------- MODULE MCAddressSpace ----------------------------
EXTENDS AddressSpace, TLC

CONSTANTS app1, app2
MCTask == {app1, app2}

\* A page of the image, a demand page, one that is never mapped, and two pages of
\* the kernel half: one whose 2 MB begin with frame 0, which is not managed, and one
\* whose 2 MB begin with frame 4.
MCTouched == {ElfPage, DPagingBegin, DPagingBegin + 1, 1, 5}

Symmetry == Permutations(MCTask)
=============================================================================
