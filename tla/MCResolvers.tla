---------------------------- MODULE MCResolvers -----------------------------
EXTENDS Resolvers

CONSTANTS d1, d2

MCDomains == {d1, d2}
OneList   == {<<d1, d2>>}
TwoLists  == {<<d1, d2>>, <<d2>>}

=============================================================================
