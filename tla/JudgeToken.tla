----------------------------- MODULE JudgeToken -----------------------------
(***************************************************************************)
(* The judge's token: the ERC-7857 half of                                 *)
(* contracts/reputation/ReputationRegistry.sol with the verifiers it asks  *)
(* (contracts/verifiers/Verifier.sol over base/BaseVerifier.sol), on top   *)
(* of the scoreboard of Reputation.                                        *)
(*                                                                         *)
(* A token carries one hash per slot of encrypted data.  To move or clone  *)
(* it the caller hands in a bundle of proofs, one for each of the first    *)
(* slots, and each proof carries a nonce that its verifier accepts once.   *)
(* Every call is one transaction: a proof that fails takes the marks of    *)
(* the ones before it back.                                                *)
(*                                                                         *)
(* A proof is what its bytes come to: its nonce, the oracle family and the *)
(* privacy bit of its indicator, the two hashes and the account that       *)
(* ecrecover finds in its signature, Nobody if none.  A proof of a wrong   *)
(* length only reverts and is not listed.  Roles, names and URLs are left  *)
(* out, and so are the sealed keys, which are only published.              *)
(***************************************************************************)
EXTENDS Integers, Sequences, FiniteSets, Functions

CONSTANTS
  Accounts,      \* callers and owners
  Nobody,        \* address(0)
  Verifiers,     \* deployed Verifier contracts
  FirstVerifier, \* the one the constructor is given
  VerifierType,  \* oracle family each verifier accepts
  ZeroHash,      \* bytes32(0)
  Proofs,        \* transfer proofs in circulation
  DataLists,     \* bound: hash lists given to mint and update
  Users,         \* bound: addresses that other owners approve or authorise
  MaxSlots,      \* bound: proofs in one bundle
  MaxTokens      \* of Reputation

VARIABLES
  nextTokenId, reputation, totalVerdicts, appealsLost,   \* of Reputation
  token,         \* _tokens
  operators,     \* _operatorApprovals: <<owner, operator>> pairs
  verifier,      \* _verifier
  usedProofs,    \* _usedProofs of every verifier
  accepted,      \* history: proofs accepted, by verifier and nonce
  approver       \* history: who named the approved user of a token

Scores == INSTANCE Reputation

scoreVars == <<nextTokenId, reputation, totalVerdicts, appealsLost>>
proofVars == <<usedProofs, accepted>>
vars == <<scoreVars, token, operators, verifier, proofVars, approver>>

Tokens == Scores!Tokens
Nonces == {p.nonce : p \in Proofs}
Bundles == UNION {[1..n -> Proofs] : n \in 0..MaxSlots}

TokenAssumption ==
  /\ Nobody \notin Accounts
  /\ Users \subseteq Accounts
  /\ FirstVerifier \in Verifiers
  /\ MaxSlots \in Nat
  /\ \A d \in DataLists : Len(d) \in 0..MaxSlots
  /\ \A p \in Proofs : p.receiver \in Accounts \cup {Nobody}

NoToken ==
  [owner |-> Nobody, dataHashes |-> <<>>, descriptions |-> 0,
   authorizedUsers |-> {}, approvedUser |-> Nobody]

Init ==
  /\ Scores!Init
  /\ token = [t \in Tokens |-> NoToken]
  /\ operators = {}
  /\ verifier = FirstVerifier
  /\ usedProofs = [v \in Verifiers |-> {}]
  /\ accepted = [v \in Verifiers |-> [n \in Nonces |-> 0]]
  /\ approver = [t \in Tokens |-> Nobody]

-----------------------------------------------------------------------------
(* Verifiers.                                                              *)

(* Fault: the nonces are marked when the whole bundle was looked at.       *)
FreshAtStart(v, proofs) ==
  \A i \in DOMAIN proofs : proofs[i].nonce \notin usedProofs[v]

(* Nonces are marked while the loop goes on: a bundle cannot repeat one.   *)
Fresh(v, proofs) ==
  /\ \A i \in DOMAIN proofs : proofs[i].nonce \notin usedProofs[v]
  /\ IsInjective([i \in DOMAIN proofs |-> proofs[i].nonce])

(* verifyTransferValidity.  It answers for proofs nobody signed, too; the  *)
(* token refuses those.                                                    *)
Verify(v, proofs) ==
  /\ \A i \in DOMAIN proofs : proofs[i].oracle = VerifierType[v]
  /\ Fresh(v, proofs)
  /\ usedProofs' = [usedProofs EXCEPT ![v] =
        @ \cup {proofs[i].nonce : i \in DOMAIN proofs}]
  /\ accepted' = [accepted EXCEPT ![v] = [n \in Nonces |->
        @[n] + Cardinality({i \in DOMAIN proofs : proofs[i].nonce = n})]]

(* A public proof has no old hash.                                         *)
OldDataHash(p) == IF p.private THEN p.oldDataHash ELSE ZeroHash

NewDataHashes(proofs) == [i \in DOMAIN proofs |-> proofs[i].newDataHash]

(* Anybody may call a verifier directly and use the proofs up.             *)
VerifyTransferValidity(v, proofs) ==
  /\ Verify(v, proofs)
  /\ UNCHANGED <<scoreVars, token, operators, verifier, approver>>

-----------------------------------------------------------------------------
(* Minting, moving and cloning.                                            *)

SignedFor(to, proofs) ==
  \A i \in DOMAIN proofs : proofs[i].receiver = to /\ proofs[i].receiver # Nobody

(* The loops run over the proofs; one proof too many runs off the slots.   *)
ForSlotsOf(t, proofs) == Len(proofs) <= Len(token[t].dataHashes)

ReplacesHashesOf(t, proofs) ==
  /\ ForSlotsOf(t, proofs)
  /\ \A i \in DOMAIN proofs : OldDataHash(proofs[i]) = token[t].dataHashes[i]

KeepsHashesOf(t, proofs) ==
  /\ ForSlotsOf(t, proofs)
  /\ \A i \in DOMAIN proofs : proofs[i].newDataHash = token[t].dataHashes[i]

(* What transferFrom and cloneFrom ask of a caller; an owner passes.       *)
MayAct(caller, t) ==
  \/ caller \in {token[t].owner, token[t].approvedUser}
  \/ <<token[t].owner, caller>> \in operators

Create(owner, dataHashes, descriptions) ==
  /\ Scores!Mint
  /\ token' = [token EXCEPT ![nextTokenId] =
        [NoToken EXCEPT !.owner = owner, !.dataHashes = dataHashes,
                        !.descriptions = descriptions]]
  /\ UNCHANGED <<operators, verifier, approver>>

(* mint: the recipient is the caller if none is named, and there are as    *)
(* many descriptions as proofs.                                            *)
Mint(recipient, dataHashes) ==
  /\ Create(recipient, dataHashes, Len(dataHashes))
  /\ UNCHANGED proofVars

HandOver(t, to, proofs) ==
  token' = [token EXCEPT ![t].owner = to, ![t].dataHashes = NewDataHashes(proofs),
                         ![t].approvedUser = Nobody]

Move(t, to, proofs) ==
  /\ to # Nobody
  /\ SignedFor(to, proofs)
  /\ Verify(verifier, proofs)
  /\ HandOver(t, to, proofs)
  /\ UNCHANGED <<scoreVars, operators, verifier, approver>>

(* The owner moves it and every slot is encrypted anew.                    *)
Transfer(caller, to, t, proofs) ==
  /\ caller = token[t].owner
  /\ ReplacesHashesOf(t, proofs)
  /\ Move(t, to, proofs)

(* Someone acts for the owner and the slots keep their hashes.             *)
TransferFrom(caller, to, t, proofs) ==
  /\ MayAct(caller, t)
  /\ KeepsHashesOf(t, proofs)
  /\ Move(t, to, proofs)

(* clone and cloneFrom, which differ in the caller they admit.             *)
Clone(caller, to, t, proofs) ==
  /\ MayAct(caller, t)
  /\ to # Nobody
  /\ ReplacesHashesOf(t, proofs)
  /\ SignedFor(to, proofs)
  /\ Verify(verifier, proofs)
  /\ Create(to, NewDataHashes(proofs), token[t].descriptions)

-----------------------------------------------------------------------------
(* What an owner and the administrator may change.                         *)

Update(caller, t, dataHashes) ==
  /\ caller = token[t].owner
  /\ token' = [token EXCEPT ![t].dataHashes = dataHashes]
  /\ UNCHANGED <<scoreVars, operators, verifier, proofVars, approver>>

AuthorizeUsage(caller, t, user) ==
  /\ caller = token[t].owner
  /\ token' = [token EXCEPT ![t].authorizedUsers = @ \cup {user}]
  /\ UNCHANGED <<scoreVars, operators, verifier, proofVars, approver>>

Approve(caller, t, user) ==
  /\ caller = token[t].owner
  /\ token' = [token EXCEPT ![t].approvedUser = user]
  /\ approver' = [approver EXCEPT ![t] = caller]
  /\ UNCHANGED <<scoreVars, operators, verifier, proofVars>>

SetApprovalForAll(caller, operator, approved) ==
  /\ operators' = IF approved THEN operators \cup {<<caller, operator>>}
                              ELSE operators \ {<<caller, operator>>}
  /\ UNCHANGED <<scoreVars, token, verifier, proofVars, approver>>

UpdateVerifier(v) ==
  /\ verifier' = v
  /\ UNCHANGED <<scoreVars, token, operators, proofVars, approver>>

Next ==
  \/ \E a \in Accounts, d \in DataLists : Mint(a, d)
  \/ \E v \in Verifiers, p \in Bundles : VerifyTransferValidity(v, p)
  \/ \E v \in Verifiers : UpdateVerifier(v)
  \/ \E a \in Accounts, on \in BOOLEAN : \E b \in Users \ {a} : SetApprovalForAll(a, b, on)
  \/ \E t \in Tokens, a \in Accounts :
       \/ \E to \in Accounts \cup {Nobody}, p \in Bundles :
            Transfer(a, to, t, p) \/ TransferFrom(a, to, t, p) \/ Clone(a, to, t, p)
       \/ \E d \in DataLists : Update(a, t, d)
       \/ \E b \in Users \ {a} : AuthorizeUsage(a, t, b)
       \/ \E b \in (Users \ {a}) \cup {Nobody} : Approve(a, t, b)

Spec == Init /\ [][Next]_vars

-----------------------------------------------------------------------------
TypeOK ==
  /\ verifier \in Verifiers
  /\ operators \subseteq Accounts \X Accounts
  /\ usedProofs \in [Verifiers -> SUBSET Nonces]
  /\ \A t \in Tokens :
       /\ {token[t].owner, token[t].approvedUser} \subseteq Accounts \cup {Nobody}
       /\ token[t].authorizedUsers \subseteq Accounts
       /\ Len(token[t].dataHashes) \in 0..MaxSlots
       /\ token[t].descriptions \in 0..MaxSlots

(* The scoreboard asks for the owner, ids are counted.                     *)
OwnedOnceMinted(t) ==
  /\ Scores!Exists(t) <=> token[t].owner # Nobody
  /\ ~Scores!Exists(t) => token[t] = NoToken

SpentOnce(v, n) == accepted[v][n] = IF n \in usedProofs[v] THEN 1 ELSE 0

ApprovedByOwner(t) ==
  token[t].approvedUser # Nobody => approver[t] = token[t].owner

(* A token that was minted or cloned has an owner for ever after, so that  *)
(* counter and scoreboard never disagree about who is a judge.  A verifier *)
(* accepts a proof once: not twice in one bundle, not for a second token,  *)
(* not again when the token came back or the verifier was exchanged and    *)
(* put back; and it marks nothing it did not accept.  The approved user of *)
(* a token was named by the owner it has now: no approval is handed on.    *)
TokenInv ==
  /\ TypeOK
  /\ \A t \in Tokens : OwnedOnceMinted(t) /\ ApprovedByOwner(t)
  /\ \A v \in Verifiers, n \in Nonces : SpentOnce(v, n)
=============================================================================
