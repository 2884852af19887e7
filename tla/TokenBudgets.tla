---------------------------- MODULE TokenBudgets ----------------------------
(***************************************************************************)
(* What a rate limit promises, with no table behind it: every caller has a *)
(* budget of its own, which fills by Capacity units at every tick of the   *)
(* clock and never beyond Capacity whole tokens; what is granted costs one *)
(* token of each budget it is charged to; and nothing else takes tokens.   *)
(* A token is Period units, so that Capacity of them come in Period ticks. *)
(***************************************************************************)
EXTENDS Integers

CONSTANTS Budgets, Capacity, Period,
          Forgivable  \* budgets that a success may restore in full

VARIABLE level

Full(b) == Capacity[b] * Period[b]

Init == level = [b \in Budgets |-> Full(b)]

Tick == level' = [b \in Budgets |->
                    IF level[b] + Capacity[b] > Full(b) THEN Full(b) ELSE level[b] + Capacity[b]]

Grant(charged, restored) ==
    /\ \A b \in charged : level[b] >= Period[b]
    /\ level' = [b \in Budgets |-> CASE b \in restored -> Full(b)
                                     [] b \in charged \ restored -> level[b] - Period[b]
                                     [] OTHER -> level[b]]

Next == \/ Tick
        \/ \E charged \in SUBSET Budgets, restored \in SUBSET Forgivable : Grant(charged, restored)

Spec == Init /\ [][Next]_level
=============================================================================
