---------------------------- MODULE MCSharedEditing ----------------------------
(* Model values and plans for the runs of SharedEditing.                      *)
EXTENDS SharedEditing

CONSTANTS t1, t2, old, fox, dog, git

Plan(tabs, leave, typed, outside, cuts, quiet) ==
  [tabs |-> tabs, leave |-> leave, typed |-> typed, outside |-> outside, cuts |-> cuts, quiet |-> quiet]

Both == {t1, t2}

SafePlans ==
  {Plan(Both, Both, {fox}, {}, 0, 0),       \* two tabs, one types
   Plan(Both, Both, {}, {git}, 0, 1),       \* two tabs, a pull, a slow saver
   Plan({t1}, {t1}, {fox}, {}, 1, 0),       \* a socket that is cut
   Plan({t1}, {t1}, {fox}, {git}, 0, 0),    \* typing against a pull
   Plan({t1}, {}, {fox}, {git}, 1, 0)}      \* all three, in a tab that stays

LeavingPlans == {Plan(Both, {t2}, {fox, dog}, {}, 0, 0)}
===============================================================================
