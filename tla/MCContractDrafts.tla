-------------------------- MODULE MCContractDrafts --------------------------
EXTENDS ContractDrafts, TLC

\* The processes differ in nothing but their names.
Symmetry == Permutations(Processes)

=============================================================================
