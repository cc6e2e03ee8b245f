----------------------------- MODULE MCDownloads -----------------------------
(* Instances of Downloads for TLC. *)
EXTENDS Downloads

CONSTANTS d1, d2, a, b, c

\* Three built-in sources, one of any size, one smaller than the cap of a host and
\* one larger; or an override that names one host twice.
BuiltinSources ==
    <<[name |-> a, approxB |-> 0], [name |-> b, approxB |-> 3], [name |-> c, approxB |-> 7]>>
Overrides == {<< >>, <<a, b, a>>}
RunDirLists == {<< >>, <<d1>>, <<d1, d2>>}
=============================================================================
