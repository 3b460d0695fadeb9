---------------------------- MODULE MCIngestion ----------------------------
EXTENDS Ingestion, TLC

Symmetry == Permutations(Runs) \cup Permutations(Datasets)
               \cup Permutations(Artifacts) \cup Permutations(Mimes)

=============================================================================
