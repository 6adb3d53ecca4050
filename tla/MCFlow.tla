------------------------------- MODULE MCFlow -------------------------------
EXTENDS Flow
T == INSTANCE TLC \* not extended: it has an Any of its own
CONSTANTS a, b
MCConditions == {a, b}
MCSymmetry == T!Permutations(MCConditions)
MCKind == <<"choice", "choice", "plain", "plain">>
=============================================================================
