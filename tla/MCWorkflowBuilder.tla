------------------------- MODULE MCWorkflowBuilder -------------------------
EXTENDS WorkflowBuilder
CONSTANTS k1, k2, h1, h2, a1
MCKeys == {k1, k2}
MCHandlers == {h1, h2}
MCApprovers == {a1}
Symmetry == Permutations(MCKeys) \union Permutations(MCHandlers)
=============================================================================
