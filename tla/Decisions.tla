------------------------------ MODULE Decisions ------------------------------
(* What submit_orders promises about one decision, an idem_key: it becomes   *)
(* an order at most once, and an order that has ended stays ended.  Nothing  *)
(* is said of processes, tables or answers: that is the point.               *)
CONSTANT Decision
VARIABLE fate      \* what became of each decision

Init == fate = [d \in Decision |-> "none"]

Place(d) == fate[d] = "none" /\ fate' = [fate EXCEPT ![d] = "working"]
Refuse(d) == fate[d] = "none" /\ fate' = [fate EXCEPT ![d] = "over"]
End(d) == fate[d] = "working" /\ fate' = [fate EXCEPT ![d] = "over"]

Next == \E d \in Decision : Place(d) \/ Refuse(d) \/ End(d)

Spec == Init /\ [][Next]_fate
=============================================================================
