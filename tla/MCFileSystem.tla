----------------------------- MODULE MCFileSystem -----------------------------
EXTENDS FileSystem

CONSTANTS x, y
MCFd == {x, y}
Symmetry == Permutations(MCFd)

\* "long" stands for a name of more than eight characters that begins like
\* "a": it is stored like "a", and compared with more characters.
MCStored == [n \in {"a", "b", "long"} |-> IF n = "b" THEN "B" ELSE "A"]
MCCompared == [n \in {"a", "b", "long"} |->
                 IF n = "a" THEN "A" ELSE IF n = "b" THEN "B" ELSE "ALONG"]
=============================================================================
