----------------------------- MODULE MCAudioThread -----------------------------
EXTENDS AudioThread

MCFadeFrames == [stage \in 3 .. 5 |-> IF stage = 4 THEN 1 ELSE 0]
================================================================================
