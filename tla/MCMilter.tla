----------------------------- MODULE MCMilter -------------------------------
(***************************************************************************)
(* Instances of Milter for TLC: two connections that share one preparation.*)
(***************************************************************************)
EXTENDS Milter

CONSTANTS c1, c2    \* connections

TwoConn == {c1, c2}

\* The first connection sends two packets a message, the second none: its
\* messages are empty, and all it shares with the first is the preparation.
MCItems == [c \in TwoConn |-> IF c = c1 THEN 2 ELSE 0]

\* With names of 0 (dropped) and 1 byte and values of 2, a header costs 7
\* bytes.  Against a limit of 12 (10 and the blank line) a header and a chunk
\* of 3 fit exactly; two headers are each below the limit and over it
\* together; a chunk of 11 is over it alone, and can be followed by one that
\* would still fit.
MCNameLens   == {0, 1}
MCValueLens  == {2}
MCChunkLens  == {3, 11}
MCSize       == 12

\* A cleaned body of no or of two REPLBODY packets.
MCChunks == {0, 2}
MCAudit  == {1}

=============================================================================
