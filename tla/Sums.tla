--------------------------------- MODULE Sums ---------------------------------
(* The sum of the values of a function with a finite domain, as what it has   *)
(* above zero less what it has below, counted unit by unit: facts about sums  *)
(* are then facts about the cardinality of finite sets.                       *)
EXTENDS Integers, FiniteSets

Units(q) == UNION {{i} \X (1..q[i]) : i \in DOMAIN q}
Total(q) == Cardinality(Units(q)) - Cardinality(Units([i \in DOMAIN q |-> -q[i]]))
=============================================================================
