---------------------------- MODULE MCEscalation ----------------------------
(* Small instances of JudgePanel for TLC: three tokens under two appeals,  *)
(* or, in other behaviours, two tokens of two slots between two owners,    *)
(* with a verifier and its replacement, and proofs that fit, clash or fail *)
EXTENDS JudgePanel, TLC

CONSTANTS ann, bob, h, g

Symmetry == Permutations(Ids)

(* Every callback trusts every enforcer.                                   *)
AllTrusted == Ids \X Enforcers

ProofOf(nonce, oracle, private, old, new, receiver) ==
  [nonce |-> nonce, oracle |-> oracle, private |-> private,
   oldDataHash |-> old, newDataHash |-> new, receiver |-> receiver]

(* To bob and back, private and public, two of one nonce, one that nobody  *)
(* signed and one of the other oracle family.                              *)
ProofsUsed ==
  {ProofOf(1, "TEE", TRUE, h, h, bob), ProofOf(1, "TEE", TRUE, h, g, ann),
   ProofOf(2, "TEE", FALSE, ZeroHash, h, ann), ProofOf(2, "TEE", TRUE, h, h, Nobody),
   ProofOf(1, "ZKP", TRUE, h, h, bob)}

TypesUsed == [v \in Verifiers |-> IF v = FirstVerifier THEN "TEE" ELSE "ZKP"]

TwoSlots == {<<h, h>>}
=============================================================================
