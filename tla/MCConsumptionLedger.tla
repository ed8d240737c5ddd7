------------------------ MODULE MCConsumptionLedger ------------------------
EXTENDS ConsumptionLedger, TLC

Symmetry == Permutations(Resources) \cup Permutations(HeappeIds)
                \cup Permutations(IQMJobIds)
=============================================================================
