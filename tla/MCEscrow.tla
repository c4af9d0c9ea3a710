------------------------------- MODULE MCEscrow -------------------------------
(* Small instances of EscrowApp for TLC.                                   *)
EXTENDS EscrowApp, TLC

Symmetry == Permutations(Ids)

(* Nobody, or the freelancer of the first escrow, is refused by the token. *)
CONSTANT FirstEscrow

OneRefused == {<<FirstEscrow, "freelancer">>}

(* Both escrows without their rows, or the second one with its row.        *)
ContractOrMirror ==
  {[created |-> Escrows, amounts |-> Amounts, followed |-> {}],
   [created |-> Escrows \ {FirstEscrow}, amounts |-> {1},
    followed |-> Escrows \ {FirstEscrow}]}
=============================================================================
