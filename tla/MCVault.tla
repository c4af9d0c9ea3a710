------------------------------- MODULE MCVault -------------------------------
(* Small instances of SharedTick for TLC.                                  *)
EXTENDS SharedTick, TLC

Symmetry == Permutations(Ids) \cup Permutations(Grants) \cup Permutations(Hashes)

GrantScope(grants, questions, amounts, followed) ==
  [grants |-> grants, questions |-> questions, amounts |-> amounts, followed |-> followed]
CheckScope(questions, followed) == [questions |-> questions, followed |-> followed]

GrantScopesUsed ==
  {GrantScope(0, 0, {}, FALSE), GrantScope(2, 3, Amounts, FALSE),
   GrantScope(1, 2, {1}, TRUE), GrantScope(1, 1, {1}, TRUE)}
CheckScopesUsed ==
  {CheckScope(0, FALSE), CheckScope(3, FALSE), CheckScope(2, TRUE), CheckScope(1, TRUE)}

(* One contract without its table, one with it, or both under one tick.    *)
ScopesUsed ==
  {<<GrantScope(2, 3, Amounts, FALSE), CheckScope(0, FALSE)>>,
   <<GrantScope(0, 0, {}, FALSE), CheckScope(3, FALSE)>>,
   <<GrantScope(1, 2, {1}, TRUE), CheckScope(0, FALSE)>>,
   <<GrantScope(0, 0, {}, FALSE), CheckScope(2, TRUE)>>,
   <<GrantScope(1, 1, {1}, TRUE), CheckScope(1, TRUE)>>}
=============================================================================
