------------------------------ MODULE MCASNPool ------------------------------
EXTENDS ASNPool, TLC

\* no action treats one pointer differently from another
Interchangeable == Permutations(Objects)
=============================================================================
