-------------------------------- MODULE MCGoHost --------------------------------
\* Two objects, three handles, two calls of wrapped functions and two timeouts.
EXTENDS GoHost

\* The page's ["js"]; the longest argument that fits, and one byte more.
MCArgvs == {<<2>>, <<8159>>, <<8160>>}

Symmetry == Permutations(Objects) \cup Permutations(Handles) \cup Permutations(Events)

================================================================================
