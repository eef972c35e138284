----------------------------- MODULE MCMtpQueue ------------------------------
EXTENDS MtpQueue

CONSTANT Eager     \* the adder that calls Add twice

MCAddCalls == [a \in Adders |-> IF a = Eager THEN 2 ELSE 1]

\* No limit, and a limit that two adders reach, who wait for room or do not.
MCSettings == {<<TRUE, 0>>, <<TRUE, 1>>, <<FALSE, 1>>}

=============================================================================
