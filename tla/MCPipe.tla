------------------------------- MODULE MCPipe -------------------------------
(* An instance of Pipe: who carries which stop token.                      *)
EXTENDS Pipe

CONSTANTS w1, w2, r1, k1

\* The first writer and the reader carry the token; the second writer is of
\* the haisos main thread's kind, which carries none.
SomeToken ==
    [t \in {w1, w2, r1} |-> IF t = w2 THEN NoToken ELSE k1]
=============================================================================
