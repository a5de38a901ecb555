------------------------ MODULE MCBuildOrchestrator ------------------------
EXTENDS BuildOrchestrator
CONSTANTS p1, p2, p3

\* p3 references both others, p2 references p1.
Triangle == [p \in Projects |-> CASE p = p3 -> <<p2, p1>> [] p = p2 -> <<p1>> [] OTHER -> <<>>]
Chain == [p \in Projects |-> CASE p = p3 -> <<p2>> [] p = p2 -> <<p1>> [] OTHER -> <<>>]
Pair == [p \in Projects |-> IF p = p2 THEN <<p1>> ELSE <<>>]
Three == <<p1, p2, p3>>
Two == <<p1, p2>>

\* Declarations may change or stay, and the source may be in error.
SomeTexts == {[dts |-> "d1", ok |-> TRUE], [dts |-> "d2", ok |-> TRUE], [dts |-> "d1", ok |-> FALSE]}

=============================================================================
