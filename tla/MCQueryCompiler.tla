--------------------------- MODULE MCQueryCompiler ---------------------------
EXTENDS QueryCompiler

\* Bounds on the objects of the expressions, compiled and failed ones, that are
\* followed when the parser has returned.
CONSTANTS MaxCompiled, MaxFailed

Symmetry == Permutations(Names)

Explored ==
  rc # "parsing" => Len(heap) <= IF rc = "ok" THEN MaxCompiled ELSE MaxFailed
=============================================================================
