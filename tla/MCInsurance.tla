------------------------------ MODULE MCInsurance ------------------------------
(* Small instances of InsuranceApp for TLC.                                *)
EXTENDS InsuranceApp, TLC

CONSTANTS FirstPolicy, SpareId

Symmetry == Permutations(Ids \ {SpareId})

(* The holder of the first policy is a contract that rejects ether.        *)
OneRejects == {<<FirstPolicy, "holder">>}

(* Both policies without their rows, with three claims or with a gift, or  *)
(* the second policy with its row.                                         *)
ContractOrMirror ==
  {[created |-> Policies, payouts |-> Payouts, asked |-> Ids, gifts |-> {}, followed |-> {}],
   [created |-> Policies, payouts |-> Payouts, asked |-> Ids \ {SpareId}, gifts |-> {1},
    followed |-> {}],
   [created |-> Policies \ {FirstPolicy}, payouts |-> {1}, asked |-> Ids \ {SpareId},
    gifts |-> {}, followed |-> Policies \ {FirstPolicy}]}
=============================================================================
