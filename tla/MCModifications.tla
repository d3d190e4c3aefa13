--------------------------- MODULE MCModifications ---------------------------
\* Small instances of Modifications.
EXTENDS Modifications, TLC

\* Handlers, modifications and the first instances are interchangeable.
MCSymmetry == {f @@ g @@ k : f \in Permutations(Handler), g \in Permutations(Modification),
                             k \in Permutations(First)}
=============================================================================
