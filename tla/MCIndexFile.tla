---------------------------- MODULE MCIndexFile ----------------------------
(* Two papers and three texts, of which two have the same length.          *)
EXTENDS IndexFile

MCFields == {"title", "full_text"}
MCB == [title |-> 50, full_text |-> 85]
MCWeight == [title |-> 300, full_text |-> 100]
MCTexts == {[title |-> <<"x">>, full_text |-> <<>>],
            [title |-> <<"y">>, full_text |-> <<"x", "y", "x">>],
            [title |-> <<"y">>, full_text |-> <<>>]}
Symmetry == Permutations(Ids) \cup Permutations(Threads)
MCQueries == {{"x"}, {"y"}}
MCTokens == {"x", "y"}

(* A fault takes the place of an operation.                                *)
Budget == ops + faults =< MaxOps

=============================================================================
