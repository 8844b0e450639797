--------------------------- MODULE MCCopcWriterNew --------------------------
(* Small arguments of the construction.                                    *)
EXTENDS CopcWriterNew

\* The sizes that ask for the default, and those on both sides of the
\* defaults and of each other.
MCSizes == {-1, 0, 1, 256, 257, 20000}
=============================================================================
