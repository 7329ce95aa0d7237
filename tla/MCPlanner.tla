----------------------------- MODULE MCPlanner ------------------------------
\* Planner on two asks and three candidates of two @types and two providers,
\* with and without a ranking, and three tool calls: two selects can overlap
\* and a select_next can fall between their ends.
EXTENDS Planner

CONSTANTS a1, a2, c1, c2, c3, p1, p2, t1, t2

MCTypeOf     == [c \in {c1, c2, c3} |-> IF c = c3 THEN t2 ELSE t1]
MCProviderOf == [c \in {c1, c2, c3} |-> IF c = c1 THEN p1 ELSE p2]

\* a1 has a place and every candidate; a2 names no place, and only c3's type
\* can do without one.
MCOffers == [a \in {a1, a2} |-> IF a = a1 THEN <<c1, c2, c3>> ELSE <<c2, c3>>]
MCTurns  == {[offers |-> MCOffers, ranked |-> ranking, placed |-> {a1}] :
               ranking \in {{}, {a1, a2}}}
=============================================================================
