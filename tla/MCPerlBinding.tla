--------------------------- MODULE MCPerlBinding ---------------------------
EXTENDS PerlBinding, TLC

SomeChunks == {<<"s", "s", "t">>, <<"t", "e", "t">>}
Same == Permutations(Xs) \cup Permutations(Handle)
=============================================================================
