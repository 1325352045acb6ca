----------------------------- MODULE MCObjects -----------------------------
EXTENDS Objects

LowestFree(used) == CHOOSE a \in Address \ used : \A b \in Address \ used : a <= b
=============================================================================
