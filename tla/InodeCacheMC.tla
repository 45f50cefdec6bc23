---- MODULE InodeCacheMC ----
EXTENDS InodeCache, TLC
CONSTANTS p1, p2

\* A name in the directory a call starts from, in the one above and in one below.
NearPaths == {<<"a">>, <<"..", "a">>, <<"a", "a">>}
Symmetry == Permutations({p1, p2})
====
