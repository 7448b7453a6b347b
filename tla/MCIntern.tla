-------------------------------- MODULE MCIntern --------------------------------
EXTENDS Intern

CONSTANTS p1, p2

\* Four letters: 0, 1, 2 and the period 3; 4 is another byte.  At most two
\* letters are inlined: <<0>> is, <<0, 3>> and <<4>> are not.
SomeStrings == {<<>>, <<2, 1>>, <<0, 3>>, <<4>>, <<0, 0, 0>>, <<2, 3>>}
SomeVals == {s \in SomeStrings : ~CanInline(s)}
Steps == {1, 2, 3}
================================================================================
