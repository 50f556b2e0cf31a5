------------------------------ MODULE MCFileLabs ------------------------------
EXTENDS FileLabs

\* Nothing, or a file somebody else left that does not hold numbers.
MCLeftovers13 == {Missing, <<"x">>}

\* Nothing, a short file, or one longer than the records.
MCLeftovers14 == {Missing} \cup {[i \in 1 .. length |-> <<"old", i>>] : length \in {5, 75}}

\* Two of the three files of the fixture.
MCFixture == <<"a.exe", "i-nodes">>
=============================================================================
