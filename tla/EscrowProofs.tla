----------------------------- MODULE EscrowProofs -----------------------------
(***************************************************************************)
(* Theorems of Escrow, for any escrows, amounts, questions and parties     *)
(* that cannot be paid: type correctness, one payee who is paid once, and  *)
(* rulings that are those of the dispute on record.  And of EscrowApp, the *)
(* table and the page over it: the contract's steps are those of Escrow,   *)
(* and the page offers what the contract takes.                            *)
(***************************************************************************)
EXTENDS EscrowApp, Sums, TLAPS

(* What an application has heard of a question: nothing before it is       *)
(* answered.                                                               *)
Silent(i) == answer[i] \in {"UNASKED", "WAITING"} => heard[i] = <<>>

(* Asking, answering and overriding keep the types of the oracle.          *)
LEMMA AskType ==
  ASSUME Oracle!TypeOK, NEW i \in Ids, Oracle!Ask(i, Bond)
  PROVE  Oracle!TypeOK'
  BY ConsumerAssumption DEF Oracle!TypeOK, Oracle!Ask, Oracle!CanAsk

LEMMA DecideType ==
  ASSUME Oracle!TypeOK, NEW i \in Ids, NEW o \in Rulings, NEW back,
         Oracle!Decide(i, o, back)
  PROVE  /\ answer' \in [Ids -> Rulings \cup {"UNASKED", "WAITING"}]
         /\ stake' \in [Ids -> Nat]
         /\ back \in Nat
         /\ repaid' \in [Ids -> Nat]
<1>1. back \in Nat
  <2>1. stake[i] \in Nat /\ back \in {0, stake[i], 2 * stake[i]}
    BY DEF Oracle!TypeOK, Oracle!Decide, Oracle!Returns
  <2>2. QED
    BY <2>1
<1>2. QED
  BY <1>1 DEF Oracle!TypeOK, Oracle!Decide, Oracle!Rulings, Rulings

LEMMA VerdictType ==
  ASSUME Oracle!TypeOK, NEW i \in Ids, NEW o \in Rulings, OnVerdict(i, o)
  PROVE  /\ Oracle!TypeOK'
         /\ Waiting(i)
         /\ answer' = [answer EXCEPT ![i] = o]
         /\ heard' = [heard EXCEPT ![i] = Append(heard[i], o)]
         /\ \E back \in Nat : repaid' = [repaid EXCEPT ![i] = back]
         /\ link' = link
<1>1. PICK back \in Oracle!Returns(i) : Oracle!Answer(i, o, back)
  BY DEF OnVerdict
<1>2. Oracle!Decide(i, o, back) /\ heard' = [heard EXCEPT ![i] = Append(@, o)]
  BY <1>1 DEF Oracle!Answer
<1>3. heard' \in [Ids -> Seq(Rulings)]
  BY <1>2 DEF Oracle!TypeOK, Oracle!Rulings, Rulings
<1>4. QED
  BY <1>2, <1>3, DecideType
     DEF Oracle!TypeOK, Oracle!Decide, OnVerdict, Waiting, Oracle!Rulings, Rulings

LEMMA OverruledType ==
  ASSUME Oracle!TypeOK, NEW i \in Ids, ForceResolve(i)
  PROVE  /\ Oracle!TypeOK'
         /\ Waiting(i)
         /\ \E o \in Rulings : answer' = [answer EXCEPT ![i] = o]
         /\ \E back \in Nat : repaid' = [repaid EXCEPT ![i] = back]
         /\ heard' = heard /\ link' = link
<1>1. PICK o \in Rulings, back \in Oracle!Returns(i) : Oracle!Override(i, o, back)
  BY DEF ForceResolve
<1>2. Oracle!Decide(i, o, back) /\ heard' = heard
  BY <1>1 DEF Oracle!Override
<1>3. QED
  BY <1>2, DecideType
     DEF Oracle!TypeOK, Oracle!Decide, ForceResolve, Waiting, Oracle!Rulings, Rulings
-----------------------------------------------------------------------------
(* A question that may still be answered is about an escrow in dispute, as *)
(* the question on record, or about one that is closed for good: never     *)
(* about one in which a dispute may be opened.                             *)
Standing(i) ==
  Waiting(i) =>
    /\ link[i] \in Escrows
    /\ status[link[i]] \notin {"NONE", "FUNDED", "DELIVERED"}
    /\ status[link[i]] = "DISPUTED" => question[link[i]] = i

PaidAt(e) ==
  /\ got[e].client = IF Winner(e) = "client" THEN amount[e] ELSE 0
  /\ got[e].freelancer = IF Winner(e) = "freelancer" THEN amount[e] ELSE 0

ObeyedAt(e) ==
  /\ status[e] = "RESOLVED_CLIENT" =>
       question[e] \in Ids /\ heard[question[e]] = <<"TRUE">>
  /\ status[e] = "RESOLVED_FREELANCER" =>
       question[e] \in Ids /\ heard[question[e]] = <<"FALSE">>

EscrowOK(e) == PaidAt(e) /\ ObeyedAt(e) /\ DisputeIsLive(e)
QuestionOK(i) == Silent(i) /\ Standing(i)

(* The inductive invariant.                                                *)
IInv ==
  /\ TypeOK
  /\ \A e \in Escrows : EscrowOK(e)
  /\ \A i \in Ids : QuestionOK(i)
-----------------------------------------------------------------------------
LEMMA AmountNat == \A a \in Amounts \cup {0} : a \in Nat
<1>1. Amounts \subseteq Nat \ {0}
  BY EscrowAssumption
<1>2. QED
  BY <1>1

(* Who wins, status by status.                                             *)
LEMMA WinnerOf ==
  ASSUME NEW e
  PROVE  /\ status[e] \in {"ACCEPTED", "RESOLVED_FREELANCER"} => Winner(e) = "freelancer"
         /\ status[e] \in {"RESOLVED_CLIENT", "EXPIRED"} => Winner(e) = "client"
         /\ status[e] \in {"NONE", "FUNDED", "DELIVERED", "DISPUTED"} => Winner(e) = "nobody"
  BY DEF Winner

(* What no step touches stays as it was.                                   *)
LEMMA FrameEscrow ==
  ASSUME NEW e \in Escrows, EscrowOK(e),
         status'[e] = status[e], amount'[e] = amount[e], got'[e] = got[e],
         question'[e] = question[e],
         UNCHANGED consumerVars
  PROVE  EscrowOK(e)'
  BY DEF EscrowOK, PaidAt, Winner, ObeyedAt, DisputeIsLive, Waiting,
         DecidedUnheard, consumerVars

LEMMA InitOK == Init => IInv
<1> SUFFICES ASSUME Init PROVE IInv
  OBVIOUS
<1>1. TypeOK
  BY DEF Init, ConsumerInit, Oracle!Init, TypeOK, Oracle!TypeOK, EscrowStatus
<1>2. ASSUME NEW e \in Escrows PROVE EscrowOK(e)
  BY WinnerOf DEF Init, EscrowOK, PaidAt, ObeyedAt, DisputeIsLive
<1>3. ASSUME NEW i \in Ids PROVE QuestionOK(i)
  BY DEF Init, ConsumerInit, Oracle!Init, QuestionOK, Silent, Standing, Waiting
<1>4. QED
  BY <1>1, <1>2, <1>3 DEF IInv
-----------------------------------------------------------------------------
(* The locked amount leaves the balance and nothing else does.             *)
LEMMA TransferType ==
  ASSUME TypeOK, NEW e \in Escrows, NEW p \in {"client", "freelancer"}, Transfer(e, p)
  PROVE  /\ held' \in Nat
         /\ got' \in [Escrows -> [client : Nat, freelancer : Nat]]
         /\ got'[e][p] = got[e][p] + amount[e]
         /\ \A q \in {"client", "freelancer"} : q # p => got'[e][q] = got[e][q]
         /\ \A f \in Escrows : f # e => got'[f] = got[f]
<1>1. amount[e] \in Nat /\ held \in Nat
  <2>1. amount[e] \in Amounts \cup {0} /\ held \in Nat
    BY DEF TypeOK
  <2>2. QED
    BY <2>1, AmountNat
<1>2. amount[e] <= held /\ held' = held - amount[e]
  BY DEF Transfer, CanTransfer
<1>3. got[e] \in [client : Nat, freelancer : Nat]
  BY DEF TypeOK
<1>4. got' = [got EXCEPT ![e] = [got[e] EXCEPT ![p] = got[e][p] + amount[e]]]
  BY DEF Transfer, TypeOK
<1>5. QED
  BY <1>1, <1>2, <1>3, <1>4 DEF TypeOK
-----------------------------------------------------------------------------
(* A step of escrow e alone, in which no question is asked or answered,    *)
(* keeps the invariant if it keeps the types and leaves e in order.        *)
LEMMA LocalStep ==
  ASSUME IInv, NEW e \in Escrows, TypeOK',
         UNCHANGED <<consumerVars, question>>,
         \A f \in Escrows : f # e =>
           status'[f] = status[f] /\ amount'[f] = amount[f] /\ got'[f] = got[f],
         status[e] \in {"NONE", "FUNDED", "DELIVERED"} \/ status'[e] # "DELIVERED",
         status[e] \notin {"NONE", "FUNDED", "DELIVERED"} =>
           status'[e] \notin {"NONE", "FUNDED", "DELIVERED"},
         status'[e] = "DISPUTED" => status[e] = "DISPUTED",
         EscrowOK(e)'
  PROVE  IInv'
<1>1. ASSUME NEW f \in Escrows PROVE EscrowOK(f)'
  BY <1>1, FrameEscrow DEF IInv
<1>2. ASSUME NEW i \in Ids PROVE QuestionOK(i)'
  <2>1. QuestionOK(i) /\ link' = link /\ answer' = answer /\ heard' = heard
    BY DEF IInv, consumerVars
  <2>2. QED
    BY <2>1 DEF QuestionOK, Silent, Standing, Waiting
<1>3. QED
  BY <1>1, <1>2 DEF IInv

(* An escrow that closes by a transfer to its winner is in order.          *)
LEMMA ClosedInOrder ==
  ASSUME IInv, NEW e \in Escrows, NEW p \in {"client", "freelancer"},
         status[e] \in Active, Transfer(e, p), amount' = amount,
         Winner(e)' = p
  PROVE  PaidAt(e)'
<1>1. TypeOK /\ PaidAt(e)
  BY DEF IInv, EscrowOK
<1>2. Winner(e) = "nobody"
  BY WinnerOf DEF Active
<1>3. got[e].client = 0 /\ got[e].freelancer = 0
  BY <1>1, <1>2 DEF PaidAt
<1>4. amount[e] \in Nat
  <2>1. amount[e] \in Amounts \cup {0}
    BY <1>1 DEF TypeOK
  <2>2. QED
    BY <2>1, AmountNat
<1>5. CASE p = "client"
  <2>1. got'[e].client = amount[e] /\ got'[e].freelancer = 0
    BY <1>1, <1>3, <1>4, <1>5, TransferType
  <2>2. QED
    BY <1>5, <2>1 DEF PaidAt
<1>6. CASE p = "freelancer"
  <2>1. got'[e].freelancer = amount[e] /\ got'[e].client = 0
    BY <1>1, <1>3, <1>4, <1>6, TransferType
  <2>2. QED
    BY <1>6, <2>1 DEF PaidAt
<1>7. QED
  BY <1>5, <1>6
-----------------------------------------------------------------------------
LEMMA CreateOK ==
  ASSUME IInv, NEW e \in Escrows, NEW a \in Amounts, CreateEscrow(e, a)
  PROVE  IInv'
<1>1. TypeOK /\ EscrowOK(e) /\ a \in Nat
  BY EscrowAssumption DEF IInv
<1>2. held' \in Nat
  BY <1>1 DEF CreateEscrow, TypeOK
<1>3. TypeOK'
  BY <1>1, <1>2 DEF CreateEscrow, Become, TypeOK, EscrowStatus, consumerVars, Oracle!TypeOK
<1>4. status[e] = "NONE" /\ status'[e] = "FUNDED"
  BY <1>1 DEF CreateEscrow, Become, TypeOK
<1>5. Winner(e) = "nobody" /\ Winner(e)' = "nobody"
  BY <1>4 DEF Winner
<1>6. EscrowOK(e)'
  BY <1>1, <1>4, <1>5
     DEF EscrowOK, PaidAt, ObeyedAt, DisputeIsLive, CreateEscrow
<1>7. \A f \in Escrows : f # e =>
        status'[f] = status[f] /\ amount'[f] = amount[f] /\ got'[f] = got[f]
  BY <1>1 DEF CreateEscrow, Become, TypeOK
<1>8. QED
  BY <1>3, <1>4, <1>6, <1>7, LocalStep DEF CreateEscrow

LEMMA DeliverOK ==
  ASSUME IInv, NEW e \in Escrows, Deliver(e)
  PROVE  IInv'
<1>1. TypeOK /\ EscrowOK(e)
  BY DEF IInv
<1>2. TypeOK'
  BY <1>1 DEF Deliver, Become, TypeOK, EscrowStatus, consumerVars, Oracle!TypeOK
<1>3. status[e] = "FUNDED" /\ status'[e] = "DELIVERED"
  BY <1>1 DEF Deliver, CanDeliver, Become, TypeOK
<1>4. Winner(e) = "nobody" /\ Winner(e)' = "nobody"
  BY <1>3 DEF Winner
<1>5. EscrowOK(e)'
  BY <1>1, <1>3, <1>4 DEF EscrowOK, PaidAt, ObeyedAt, DisputeIsLive, Deliver
<1>6. \A f \in Escrows : f # e => status'[f] = status[f]
  BY <1>1 DEF Deliver, Become, TypeOK
<1>7. QED
  BY <1>2, <1>3, <1>5, <1>6, LocalStep DEF Deliver

(* Acceptance and expiry close an escrow without a verdict.                *)
LEMMA CloseOK ==
  ASSUME IInv, NEW e \in Escrows, Accept(e) \/ Expire(e)
  PROVE  IInv'
<1> DEFINE p == IF Accept(e) THEN "freelancer" ELSE "client"
           s == IF Accept(e) THEN "ACCEPTED" ELSE "EXPIRED"
<1>1. TypeOK /\ EscrowOK(e)
  BY DEF IInv
<1>2. /\ status[e] \in Active /\ Become(e, s) /\ Transfer(e, p)
      /\ UNCHANGED <<consumerVars, amount, question, response, overdue>>
  BY DEF Accept, Expire, CanAccept, CanExpire, Active
<1>3. status'[e] = s /\ \A f \in Escrows : f # e => status'[f] = status[f]
  BY <1>1, <1>2 DEF Become, TypeOK
<1>4. TypeOK'
  BY <1>1, <1>2, TransferType DEF Become, TypeOK, EscrowStatus, consumerVars, Oracle!TypeOK
<1>5. Winner(e)' = p
  BY <1>3 DEF Winner
<1>6. PaidAt(e)'
  BY <1>2, <1>5, ClosedInOrder
<1>7. EscrowOK(e)'
  BY <1>3, <1>6 DEF EscrowOK, ObeyedAt, DisputeIsLive
<1>8. \A f \in Escrows : f # e => got'[f] = got[f]
  BY <1>1, <1>2, TransferType
<1>9. QED
  BY <1>2, <1>3, <1>4, <1>7, <1>8, LocalStep

LEMMA OpenDisputeOK ==
  ASSUME IInv, NEW e \in Escrows, NEW i \in Ids, OpenDispute(e, i)
  PROVE  IInv'
<1>1. TypeOK /\ EscrowOK(e) /\ i # NoQuestion
  BY ConsumerAssumption DEF IInv
<1>2. status[e] = "DELIVERED" /\ status' = [status EXCEPT ![e] = "DISPUTED"]
  BY DEF OpenDispute, CanOpenDispute, Become
<1>3. /\ answer[i] = "UNASKED" /\ answer' = [answer EXCEPT ![i] = "WAITING"]
      /\ heard' = heard /\ link' = [link EXCEPT ![i] = e]
      /\ question' = [question EXCEPT ![e] = i]
  BY DEF OpenDispute, CreateAssertionFor, CanOpenDispute, Oracle!Ask, Oracle!CanAsk
<1>4. TypeOK'
  <2>1. Oracle!TypeOK'
    BY <1>1, AskType DEF OpenDispute, CreateAssertionFor, TypeOK
  <2>2. QED
    BY <1>1, <1>2, <1>3, <2>1 DEF OpenDispute, TypeOK, EscrowStatus
<1>5. ASSUME NEW f \in Escrows PROVE EscrowOK(f)'
  <2>1. CASE f = e
    <3>1. status'[e] = "DISPUTED" /\ question'[e] = i /\ link'[i] = e /\ answer'[i] = "WAITING"
      BY <1>1, <1>2, <1>3 DEF TypeOK, Oracle!TypeOK
    <3>2. Winner(e) = "nobody" /\ Winner(e)' = "nobody"
      BY <1>2, <3>1 DEF Winner
    <3>3. QED
      BY <1>1, <2>1, <3>1, <3>2
         DEF EscrowOK, PaidAt, ObeyedAt, DisputeIsLive, OpenDispute, Waiting
  <2>2. CASE f # e
    <3>1. status'[f] = status[f] /\ question'[f] = question[f]
      BY <1>1, <1>2, <1>3, <2>2 DEF TypeOK
    <3>2. Winner(f)' = Winner(f)
      BY <3>1 DEF Winner
    <3>3. PaidAt(f)' /\ ObeyedAt(f)'
      BY <1>3, <3>1, <3>2 DEF IInv, EscrowOK, PaidAt, ObeyedAt, OpenDispute
    <3>4. ASSUME status[f] = "DISPUTED"
          PROVE  /\ question[f] \in Ids /\ question[f] # i
                 /\ link'[question[f]] = f
                 /\ answer'[question[f]] = answer[question[f]]
                 /\ heard'[question[f]] = heard[question[f]]
      <4>1. DisputeIsLive(f) /\ answer[question[f]] # "UNASKED"
        BY <3>4 DEF IInv, EscrowOK, DisputeIsLive, Waiting, DecidedUnheard, Rulings
      <4>2. QED
        BY <1>1, <1>3, <3>4, <4>1 DEF DisputeIsLive, TypeOK, Oracle!TypeOK
    <3>5. DisputeIsLive(f)'
      BY <3>1, <3>4 DEF IInv, EscrowOK, DisputeIsLive, Waiting, DecidedUnheard
    <3>6. QED
      BY <3>3, <3>5 DEF EscrowOK
  <2>3. QED
    BY <2>1, <2>2
<1>6. ASSUME NEW j \in Ids PROVE QuestionOK(j)'
  <2>1. CASE j = i
    <3>1. heard[i] = <<>>
      BY <1>3 DEF IInv, QuestionOK, Silent
    <3>2. QED
      BY <1>1, <1>2, <1>3, <2>1, <3>1
         DEF QuestionOK, Silent, Standing, Waiting, TypeOK, Oracle!TypeOK
  <2>2. CASE j # i
    <3>1. QuestionOK(j) /\ answer'[j] = answer[j] /\ link'[j] = link[j] /\ heard'[j] = heard[j]
      BY <1>1, <1>3, <2>2 DEF IInv, TypeOK, Oracle!TypeOK
    <3>2. ASSUME Waiting(j)
          PROVE  link[j] # e /\ status'[link[j]] = status[link[j]]
                 /\ question'[link[j]] = question[link[j]]
      BY <1>1, <1>2, <1>3, <3>1, <3>2 DEF QuestionOK, Standing, TypeOK
    <3>3. QED
      BY <3>1, <3>2 DEF QuestionOK, Silent, Standing, Waiting
  <2>3. QED
    BY <2>1, <2>2
<1>7. QED
  BY <1>4, <1>5, <1>6 DEF IInv

(* The freelancer's response and the clock touch nothing that counts.      *)
LEMMA AsideOK ==
  ASSUME IInv,
         \/ \E e \in Escrows : RespondToDispute(e) \/ Elapse(e)
         \/ UNCHANGED vars
  PROVE  IInv'
<1>1. TypeOK /\ UNCHANGED <<consumerVars, status, amount, question, held, got>>
  BY DEF IInv, RespondToDispute, Elapse, vars, escrowVars
<1>2. response' \in [Escrows -> BOOLEAN] /\ overdue' \subseteq Escrows
  BY DEF IInv, TypeOK, RespondToDispute, Elapse, vars, escrowVars
<1>3. TypeOK'
  BY <1>1, <1>2 DEF TypeOK, consumerVars, Oracle!TypeOK
<1>4. ASSUME NEW f \in Escrows PROVE EscrowOK(f)'
  BY <1>1, FrameEscrow DEF IInv
<1>5. ASSUME NEW i \in Ids PROVE QuestionOK(i)'
  BY <1>1 DEF IInv, QuestionOK, Silent, Standing, Waiting, consumerVars
<1>6. QED
  BY <1>3, <1>4, <1>5 DEF IInv

LEMMA OverruledOK ==
  ASSUME IInv, NEW i \in Ids, Overruled(i)
  PROVE  IInv'
<1>1. TypeOK /\ Oracle!TypeOK /\ UNCHANGED escrowVars
  BY DEF IInv, TypeOK, Overruled
<1>2. Oracle!TypeOK' /\ Waiting(i) /\ heard' = heard /\ link' = link
  BY <1>1, OverruledType DEF Overruled
<1>3. PICK o \in Rulings : answer' = [answer EXCEPT ![i] = o]
  BY <1>1, OverruledType DEF Overruled
<1>4. TypeOK'
  BY <1>1, <1>2 DEF TypeOK, escrowVars
<1>5. o \notin {"UNASKED", "WAITING"} /\ heard[i] = <<>>
  BY <1>2 DEF Rulings, IInv, QuestionOK, Silent, Waiting
<1>6. ASSUME NEW f \in Escrows PROVE EscrowOK(f)'
  <2>1. PaidAt(f)' /\ ObeyedAt(f)'
    BY <1>1, <1>2 DEF IInv, EscrowOK, PaidAt, Winner, ObeyedAt, escrowVars
  <2>2. DisputeIsLive(f)'
    BY <1>1, <1>2, <1>3, <1>5
       DEF IInv, EscrowOK, DisputeIsLive, Waiting, DecidedUnheard, escrowVars, Oracle!TypeOK
  <2>3. QED
    BY <2>1, <2>2 DEF EscrowOK
<1>7. ASSUME NEW j \in Ids PROVE QuestionOK(j)'
  BY <1>1, <1>2, <1>3, <1>5
     DEF IInv, QuestionOK, Silent, Standing, Waiting, escrowVars, Oracle!TypeOK
<1>8. QED
  BY <1>4, <1>6, <1>7 DEF IInv
-----------------------------------------------------------------------------
(* A verdict.  The answered question i is the only one of its escrow that  *)
(* was open, so that whatever the escrow becomes, no other is left.        *)
LEMMA OnlyOpenQuestion ==
  ASSUME IInv, NEW i \in Ids, Waiting(i), status[link[i]] = "DISPUTED"
  PROVE  \A j \in Ids : Waiting(j) /\ link[j] = link[i] => j = i
  BY DEF IInv, QuestionOK, Standing

LEMMA VerdictOK ==
  ASSUME IInv, NEW i \in Ids, NEW o \in Rulings, Verdict(i, o)
  PROVE  IInv'
<1>0. PICK e \in Escrows : link[i] = e /\ Rule(e, o)
  <2>1. Oracle!TypeOK /\ OnVerdict(i, o) /\ Rule(link[i], o)
    BY DEF IInv, TypeOK, Verdict
  <2>2. link[i] \in Escrows
    BY <2>1, VerdictType DEF IInv, QuestionOK, Standing
  <2>3. QED
    BY <2>1, <2>2
<1>1. TypeOK /\ Oracle!TypeOK /\ OnVerdict(i, o) /\ Rule(e, o)
  BY <1>0 DEF IInv, TypeOK, Verdict
<1>2. /\ Oracle!TypeOK' /\ Waiting(i) /\ link' = link
      /\ answer' = [answer EXCEPT ![i] = o]
      /\ heard' = [heard EXCEPT ![i] = Append(heard[i], o)]
  BY <1>1, VerdictType
<1>3. heard[i] = <<>> /\ EscrowOK(e)
  BY <1>2 DEF IInv, QuestionOK, Silent, Standing, Waiting
<1>4. /\ heard' = [heard EXCEPT ![i] = <<o>>] /\ heard'[i] = <<o>> /\ answer'[i] = o
      /\ o \notin {"UNASKED", "WAITING"}
  BY <1>1, <1>2, <1>3 DEF Oracle!TypeOK, Rulings
<1>5. CASE status[e] # "DISPUTED" /\ UNCHANGED escrowVars
  <2>1. TypeOK'
    BY <1>1, <1>2, <1>5 DEF TypeOK, escrowVars
  <2>2. ASSUME NEW f \in Escrows PROVE EscrowOK(f)'
    <3>1. EscrowOK(f) /\ PaidAt(f)'
      BY <1>5 DEF IInv, EscrowOK, PaidAt, Winner, escrowVars
    <3>2. status[f] \in {"RESOLVED_CLIENT", "RESOLVED_FREELANCER"} => question[f] # i
      <4>1. <<"TRUE">> # <<>> /\ <<"FALSE">> # <<>> /\ heard[i] = <<>> /\ ObeyedAt(f)
        BY <1>3, <3>1 DEF EscrowOK
      <4>2. QED
        BY <4>1 DEF ObeyedAt
    <3>3. ObeyedAt(f)'
      BY <1>1, <1>4, <1>5, <3>1, <3>2 DEF EscrowOK, ObeyedAt, escrowVars, Oracle!TypeOK
    <3>4. status[f] = "DISPUTED" => question[f] # i
      BY <1>0, <1>5, <3>1 DEF EscrowOK, DisputeIsLive
    <3>5. DisputeIsLive(f)'
      BY <1>1, <1>2, <1>4, <1>5, <3>1, <3>4
         DEF EscrowOK, DisputeIsLive, Waiting, DecidedUnheard, escrowVars, Oracle!TypeOK
    <3>6. QED
      BY <3>1, <3>3, <3>5 DEF EscrowOK
  <2>3. ASSUME NEW j \in Ids PROVE QuestionOK(j)'
    BY <1>1, <1>2, <1>4, <1>5
       DEF IInv, QuestionOK, Silent, Standing, Waiting, escrowVars, Oracle!TypeOK
  <2>4. QED
    BY <2>1, <2>2, <2>3 DEF IInv
<1>6. CASE status[e] = "DISPUTED"
  <2>1. question[e] = i /\ \A j \in Ids : Waiting(j) /\ link[j] = e => j = i
    BY <1>0, <1>2, <1>3, <1>6, OnlyOpenQuestion DEF IInv, QuestionOK, Standing
  <2>2. Winner(e) = "nobody" /\ PaidAt(e)
    BY <1>3, <1>6, WinnerOf DEF EscrowOK
  <2>3. ASSUME NEW s \in EscrowStatus, Become(e, s), s # "DISPUTED",
               amount' = amount, PaidAt(e)', ObeyedAt(e)',
               \A f \in Escrows : f # e => got'[f] = got[f] /\ question'[f] = question[f]
        PROVE  /\ \A f \in Escrows : EscrowOK(f)'
               /\ \A j \in Ids : QuestionOK(j)'
    <3>1. status'[e] = s /\ \A f \in Escrows : f # e => status'[f] = status[f]
      BY <1>1, <2>3 DEF Become, TypeOK
    <3>2. ASSUME NEW f \in Escrows PROVE EscrowOK(f)'
      <4>1. CASE f = e
        BY <2>3, <3>1, <4>1 DEF EscrowOK, DisputeIsLive
      <4>2. CASE f # e
        <5>1. EscrowOK(f) /\ status'[f] = status[f] /\ question'[f] = question[f]
          BY <2>3, <3>1, <4>2 DEF IInv
        <5>2. PaidAt(f)'
          BY <2>3, <4>2, <5>1 DEF EscrowOK, PaidAt, Winner
        <5>3. status[f] \in {"RESOLVED_CLIENT", "RESOLVED_FREELANCER"} => question[f] # i
          BY <1>3, <5>1 DEF EscrowOK, ObeyedAt
        <5>4. ObeyedAt(f)'
          BY <1>1, <1>4, <5>1, <5>3 DEF EscrowOK, ObeyedAt, Oracle!TypeOK
        <5>5. status[f] = "DISPUTED" => question[f] # i
          BY <1>0, <4>2, <5>1 DEF EscrowOK, DisputeIsLive
        <5>6. DisputeIsLive(f)'
          BY <1>1, <1>2, <1>4, <5>1, <5>5
             DEF EscrowOK, DisputeIsLive, Waiting, DecidedUnheard, Oracle!TypeOK
        <5>7. QED
          BY <5>2, <5>4, <5>6 DEF EscrowOK
      <4>3. QED
        BY <4>1, <4>2
    <3>3. ASSUME NEW j \in Ids PROVE QuestionOK(j)'
      <4>1. CASE j = i
        BY <1>4, <4>1 DEF QuestionOK, Silent, Standing, Waiting
      <4>2. CASE j # i
        <5>1. QuestionOK(j) /\ answer'[j] = answer[j] /\ heard'[j] = heard[j] /\ link'[j] = link[j]
          BY <1>1, <1>2, <1>4, <4>2 DEF IInv, Oracle!TypeOK
        <5>2. ASSUME Waiting(j)
              PROVE  status'[link[j]] = status[link[j]] /\ question'[link[j]] = question[link[j]]
          BY <2>1, <2>3, <3>1, <4>2, <5>1, <5>2 DEF QuestionOK, Standing
        <5>3. QED
          BY <5>1, <5>2 DEF QuestionOK, Silent, Standing, Waiting
      <4>3. QED
        BY <4>1, <4>2
    <3>4. QED
      BY <3>2, <3>3
  <2>4. CASE o = "TRUE" /\ Become(e, "RESOLVED_CLIENT") /\ Transfer(e, "client")
             /\ UNCHANGED <<question, response, amount, overdue>>
    <3>1. status'[e] = "RESOLVED_CLIENT"
      BY <1>1, <1>3, <2>4 DEF Become, TypeOK
    <3>2. PaidAt(e)'
      <4>1. Winner(e)' = "client"
        BY <3>1 DEF Winner
      <4>2. QED
        BY <1>3, <1>6, <2>4, <4>1, ClosedInOrder DEF Active
    <3>3. ObeyedAt(e)'
      BY <1>4, <2>1, <2>4, <3>1 DEF ObeyedAt
    <3>4. TypeOK'
      BY <1>1, <1>2, <1>3, <2>4, TransferType DEF TypeOK, Become, EscrowStatus
    <3>5. \A f \in Escrows : f # e => got'[f] = got[f]
      BY <1>1, <1>3, <2>4, TransferType
    <3>6. QED
      BY <2>3, <2>4, <3>2, <3>3, <3>4, <3>5 DEF IInv, EscrowStatus
  <2>5. CASE o = "FALSE" /\ Become(e, "RESOLVED_FREELANCER") /\ Transfer(e, "freelancer")
             /\ UNCHANGED <<question, response, amount, overdue>>
    <3>1. status'[e] = "RESOLVED_FREELANCER"
      BY <1>1, <1>3, <2>5 DEF Become, TypeOK
    <3>2. PaidAt(e)'
      <4>1. Winner(e)' = "freelancer"
        BY <3>1 DEF Winner
      <4>2. QED
        BY <1>3, <1>6, <2>5, <4>1, ClosedInOrder DEF Active
    <3>3. ObeyedAt(e)'
      BY <1>4, <2>1, <2>5, <3>1 DEF ObeyedAt
    <3>4. TypeOK'
      BY <1>1, <1>2, <1>3, <2>5, TransferType DEF TypeOK, Become, EscrowStatus
    <3>5. \A f \in Escrows : f # e => got'[f] = got[f]
      BY <1>1, <1>3, <2>5, TransferType
    <3>6. QED
      BY <2>3, <2>5, <3>2, <3>3, <3>4, <3>5 DEF IInv, EscrowStatus
  <2>6. CASE Become(e, "DELIVERED") /\ question' = [question EXCEPT ![e] = NoQuestion]
             /\ response' = [response EXCEPT ![e] = FALSE]
             /\ UNCHANGED <<held, got, amount, overdue>>
    <3>1. status'[e] = "DELIVERED"
      BY <1>1, <1>3, <2>6 DEF Become, TypeOK
    <3>2. PaidAt(e)'
      <4>1. Winner(e)' = "nobody"
        BY <3>1 DEF Winner
      <4>2. QED
        BY <2>2, <2>6, <4>1 DEF PaidAt
    <3>3. ObeyedAt(e)'
      BY <3>1 DEF ObeyedAt
    <3>4. TypeOK'
      BY <1>1, <1>2, <1>3, <2>6 DEF TypeOK, Become, EscrowStatus
    <3>5. \A f \in Escrows : f # e => got'[f] = got[f] /\ question'[f] = question[f]
      BY <1>1, <2>6 DEF TypeOK
    <3>6. QED
      BY <2>3, <2>6, <3>2, <3>3, <3>4, <3>5 DEF IInv, EscrowStatus
  <2>7. QED
    BY <1>1, <1>6, <2>4, <2>5, <2>6 DEF Rule
<1>7. QED
  BY <1>1, <1>5, <1>6 DEF Rule
-----------------------------------------------------------------------------
LEMMA NextOK == IInv /\ [Next]_vars => IInv'
  BY CreateOK, DeliverOK, CloseOK, OpenDisputeOK, AsideOK, OverruledOK, VerdictOK DEF Next

(* The balance.  A step moves the money of one escrow at most.             *)
LEMMA LockedNat == ASSUME TypeOK, NEW e \in Escrows PROVE Locked(e) \in Nat
<1>1. amount[e] \in Amounts \cup {0}
  BY DEF TypeOK
<1>2. QED
  BY <1>1, AmountNat DEF Locked

LEMMA SolventStep ==
  ASSUME TypeOK, TypeOK', Solvent, NEW e \in Escrows,
         \A f \in Escrows \ {e} : Locked(f)' = Locked(f),
         held' - Locked(e)' = held - Locked(e)
  PROVE  Solvent'
<1> DEFINE l == [f \in Escrows |-> Locked(f)]
           k == [f \in Escrows |-> Locked(f)']
<1>1. \A f \in Escrows : l[f] \in Int /\ k[f] \in Int
  <2> SUFFICES ASSUME NEW f \in Escrows PROVE Locked(f) \in Nat /\ Locked(f)' \in Nat
    OBVIOUS
  <2>1. amount'[f] \in Nat
    <3>1. amount'[f] \in Amounts \cup {0}
      BY DEF TypeOK
    <3>2. QED
      BY <3>1, AmountNat
  <2>2. QED
    BY <2>1, LockedNat DEF Locked
<1>2. \A f \in Escrows \ {e} : k[f] = l[f]
  OBVIOUS
<1>3. held \in Int /\ held' \in Int
  BY DEF TypeOK
<1>4. held = SumFunctionOnSet(l, Escrows) /\ held' - k[e] = held - l[e]
  BY DEF Solvent
<1>5. held' = SumFunctionOnSet(k, Escrows)
  <2> HIDE DEF l, k
  <2>1. QED
    BY <1>1, <1>2, <1>3, <1>4, SumFollows, EscrowAssumption
<1>6. QED
  BY <1>5 DEF Solvent

LEMMA SolventAside ==
  ASSUME Solvent, held' = held, \A e \in Escrows : Locked(e)' = Locked(e)
  PROVE  Solvent'
<1>1. [e \in Escrows |-> Locked(e)'] = [e \in Escrows |-> Locked(e)]
  OBVIOUS
<1>2. QED
  BY <1>1 DEF Solvent

(* An escrow that is closed by a transfer takes its own money with it.     *)
LEMMA PaidOut ==
  ASSUME TypeOK, TypeOK', Solvent, NEW e \in Escrows, NEW p, NEW s,
         status[e] \in Active, s \notin Active,
         Become(e, s), Transfer(e, p), amount' = amount
  PROVE  Solvent'
<1>1. Locked(e) = amount[e] /\ Locked(e)' = 0
  BY DEF Locked, Become, TypeOK
<1>2. \A f \in Escrows \ {e} : Locked(f)' = Locked(f)
  BY DEF Locked, Become, TypeOK
<1>3. held' = held - Locked(e) /\ held \in Nat /\ Locked(e) \in Nat
  BY <1>1, LockedNat DEF Transfer, TypeOK
<1>4. held' - Locked(e)' = held - Locked(e)
  BY <1>1, <1>3
<1>5. QED
  BY <1>2, <1>4, SolventStep

(* An escrow that stays active keeps its money in.                         *)
LEMMA StaysActive ==
  ASSUME TypeOK, Solvent, NEW e \in Escrows, NEW s \in Active, status[e] \in Active,
         Become(e, s), UNCHANGED <<amount, held>>
  PROVE  Solvent'
<1>1. \A f \in Escrows : Locked(f)' = Locked(f)
  BY DEF Locked, Become, TypeOK
<1>2. QED
  BY <1>1, SolventAside

LEMMA CreateSolvent ==
  ASSUME TypeOK, TypeOK', Solvent, NEW e \in Escrows, NEW a \in Amounts, CreateEscrow(e, a)
  PROVE  Solvent'
<1>1. Locked(e) = 0 /\ Locked(e)' = a
  BY DEF Locked, CreateEscrow, Become, Active, TypeOK
<1>2. \A f \in Escrows \ {e} : Locked(f)' = Locked(f)
  BY DEF Locked, CreateEscrow, Become, TypeOK
<1>3. held' = held + a /\ held \in Nat /\ a \in Nat
  BY AmountNat DEF CreateEscrow, TypeOK
<1>4. held' - Locked(e)' = held - Locked(e)
  BY <1>1, <1>3
<1>5. QED
  BY <1>2, <1>4, SolventStep

LEMMA VerdictSolvent ==
  ASSUME IInv, TypeOK', Solvent, NEW i \in Ids, NEW o \in Rulings, Verdict(i, o)
  PROVE  Solvent'
<1>1. TypeOK /\ Rule(link[i], o)
  BY DEF IInv, Verdict
<1>2. link[i] \in Escrows
  BY <1>1, VerdictType DEF IInv, QuestionOK, Standing, Verdict, TypeOK
<1> DEFINE e == link[i]
<1>3. CASE UNCHANGED escrowVars
  BY <1>3, SolventAside DEF Locked, escrowVars
<1>4. CASE /\ status[e] = "DISPUTED" /\ Become(e, "RESOLVED_CLIENT")
           /\ Transfer(e, "client") /\ amount' = amount
  BY <1>1, <1>2, <1>4, PaidOut DEF Active
<1>5. CASE /\ status[e] = "DISPUTED" /\ Become(e, "RESOLVED_FREELANCER")
           /\ Transfer(e, "freelancer") /\ amount' = amount
  BY <1>1, <1>2, <1>5, PaidOut DEF Active
<1>6. CASE /\ status[e] = "DISPUTED" /\ Become(e, "DELIVERED")
           /\ UNCHANGED <<amount, held>>
  BY <1>1, <1>2, <1>6, StaysActive DEF Active
<1>7. QED
  BY <1>1, <1>3, <1>4, <1>5, <1>6 DEF Rule

LEMMA SolventNext == IInv /\ Solvent /\ [Next]_vars => Solvent'
<1> SUFFICES ASSUME IInv, Solvent, [Next]_vars PROVE Solvent'
  OBVIOUS
<1>1. TypeOK /\ TypeOK'
  BY NextOK DEF IInv
<1>2. ASSUME UNCHANGED <<status, amount, held>> PROVE Solvent'
  BY <1>2, SolventAside DEF Locked
<1>3. ASSUME NEW e \in Escrows, Deliver(e) PROVE Solvent'
  BY <1>1, <1>3, StaysActive DEF Deliver, CanDeliver, Active
<1>4. ASSUME NEW e \in Escrows, NEW i \in Ids, OpenDispute(e, i) PROVE Solvent'
  BY <1>1, <1>4, StaysActive DEF OpenDispute, CanOpenDispute, Active
<1>5. ASSUME NEW e \in Escrows, Accept(e) PROVE Solvent'
  BY <1>1, <1>5, PaidOut DEF Accept, CanAccept, Active
<1>6. ASSUME NEW e \in Escrows, Expire(e) PROVE Solvent'
  BY <1>1, <1>6, PaidOut DEF Expire, CanExpire, Active
<1>7. ASSUME NEW e \in Escrows, RespondToDispute(e) \/ Elapse(e) PROVE Solvent'
  BY <1>2, <1>7 DEF RespondToDispute, Elapse
<1>8. ASSUME NEW i \in Ids, Overruled(i) PROVE Solvent'
  BY <1>2, <1>8 DEF Overruled, escrowVars
<1>9. CASE UNCHANGED vars
  BY <1>2, <1>9 DEF vars, escrowVars
<1>10. QED
  BY <1>1, <1>3, <1>4, <1>5, <1>6, <1>7, <1>8, <1>9, CreateSolvent, VerdictSolvent DEF Next
-----------------------------------------------------------------------------
LEMMA InitSolvent == Init => Solvent
<1> SUFFICES ASSUME Init PROVE Solvent
  OBVIOUS
<1>1. \A e \in Escrows : Locked(e) = 0
  BY DEF Init, Locked, Active
<1>2. SumFunctionOnSet([e \in Escrows |-> Locked(e)], Escrows) = 0
  BY <1>1, SumZero, EscrowAssumption
<1>3. QED
  BY <1>2 DEF Init, Solvent

LEMMA Invariant == Spec => []IInv
<1>1. Init => IInv
  BY InitOK
<1>2. IInv /\ [Next]_vars => IInv'
  BY NextOK
<1>3. QED
  BY <1>1, <1>2, PTL DEF Spec

(* The shared balance is, at all times, exactly what the unfinished        *)
(* escrows locked: none is paid out of the money of another.               *)
THEOREM BalanceExact == Spec => []Solvent
<1>1. Init => Solvent
  BY InitSolvent
<1>2. IInv /\ Solvent /\ [Next]_vars => Solvent'
  BY SolventNext
<1>3. QED
  BY <1>1, <1>2, Invariant, PTL DEF Spec

(* Every variable of the escrow contract keeps its type: its token balance *)
(* never goes below zero, although it is shared.                           *)
THEOREM EscrowTypes == Spec => []TypeOK
<1>1. IInv => TypeOK
  BY DEF IInv
<1>2. QED
  BY <1>1, Invariant, PTL

(* However many disputes an escrow went through, one party gets the whole  *)
(* amount, once, and it is the one the final status names.                 *)
THEOREM OnePayee == Spec => []PaidOnce
<1>1. IInv => PaidOnce
  BY DEF IInv, EscrowOK, PaidAt, PaidOnce
<1>2. QED
  BY <1>1, Invariant, PTL

(* An escrow closed by a verdict was closed by the answer to the question  *)
(* on record, though onVerdict never compares the two.                     *)
THEOREM RulingsObeyed == Spec => []RulingObeyed
<1>1. IInv => RulingObeyed
  BY DEF IInv, EscrowOK, ObeyedAt, RulingObeyed
<1>2. QED
  BY <1>1, Invariant, PTL

(* While an escrow is in dispute the question on record is its only open   *)
(* one, and it was not answered within the application's hearing.          *)
THEOREM DisputesStand ==
  Spec => [](\A e \in Escrows : OneQuestion(e) /\ DisputeIsLive(e))
<1>1. IInv => \A e \in Escrows : OneQuestion(e) /\ DisputeIsLive(e)
  BY DEF IInv, EscrowOK, QuestionOK, Standing, OneQuestion
<1>2. QED
  BY <1>1, Invariant, PTL

(* Everything onVerdict relies on holds at all times: the types, the       *)
(* balance, one payee, and a dispute whose one open question is on record. *)
THEOREM EscrowCorrect == Spec => []EscrowInv
<1>1. IInv /\ Solvent => EscrowInv
  BY DEF IInv, EscrowOK, PaidAt, PaidOnce, QuestionOK, Standing, OneQuestion, EscrowInv
<1>2. QED
  BY <1>1, Invariant, BalanceExact, PTL
-----------------------------------------------------------------------------
(* The site.  A behaviour of the application is one of the contract.       *)
LEMMA FreshIds == FreshId \subseteq Ids
  BY DEF FreshId

LEMMA AppStep == AppTypeOK /\ [AppNext]_appVars => [Next]_vars
<1> SUFFICES ASSUME AppTypeOK, [AppNext]_appVars PROVE [Next]_vars
  OBVIOUS
<1>1. scope.amounts \subseteq Amounts
  BY EscrowAppAssumption DEF AppTypeOK
<1>2. CASE ContractStep
  BY <1>1, <1>2, FreshIds DEF ContractStep, Next
<1>3. CASE IndexerStep \/ UNCHANGED appVars
  BY <1>3 DEF IndexerStep, appVars
<1>4. QED
  BY <1>2, <1>3 DEF AppNext
-----------------------------------------------------------------------------
(* The events are a log of the columns of the rows: which of them an event *)
(* writes, and what.                                                       *)
AnEvent ==
  {ev \in [kind : {"EscrowCreated", "DeliverySubmitted", "Accepted", "DisputeOpened",
                   "DisputeResponded", "Expired", "ResolvedByVerdict"},
           escrow : Escrows, question : Ids \cup {NoQuestion},
           outcome : Rulings \cup {"PENDING"}] :
     ev.kind = "ResolvedByVerdict" => ev.outcome \in Rulings}

Columns == {"status", "question", "response"}

Column(r, c) ==
  CASE c = "status" -> r.status
    [] c = "question" -> r.question
    [] c = "response" -> r.response

Writes(ev, c) ==
  CASE ev.kind = "DisputeOpened" -> c # "response"
    [] ev.kind = "DisputeResponded" -> c = "response"
    [] ev.kind = "ResolvedByVerdict" -> c = "status" \/ ev.outcome = "INVALID"
    [] OTHER -> c = "status"

Made(ev) ==
  IF ev.kind = "EscrowCreated" THEN [NoRow EXCEPT !.status = "FUNDED"]
  ELSE Updated(NoRow, ev)

Writing(e, c) ==
  {0} \cup {n \in 1..Len(events) : events[n].escrow = e /\ Writes(events[n], c)}

Told(e, c) ==
  [n \in Nat |-> IF n = 0 THEN Column(NoRow, c) ELSE Column(Made(events[n]), c)]

(* What the contract has on record, as the row shows it.                   *)
Record(e) == [status |-> status[e], question |-> question[e], response |-> response[e]]

(* The handler writes these columns, in any row but none, and no others.   *)
LEMMA UpdatedColumns ==
  ASSUME NEW r \in Row, NEW ev \in AnEvent, ev.kind # "EscrowCreated", NEW c \in Columns
  PROVE  Column(Updated(r, ev), c) = IF Writes(ev, c) THEN Column(Made(ev), c) ELSE Column(r, c)
  BY DEF AnEvent, Row, NoRow, Columns, Column, Writes, Made, Updated, Reopened, Rulings

LEMMA UpdatedRow ==
  ASSUME NEW r \in Row, NEW ev \in AnEvent, r.status # "NONE"
  PROVE  Updated(r, ev) \in Row /\ Updated(r, ev).status # "NONE"
  BY DEF AnEvent, Row, Updated, Reopened, Rulings, EscrowStatus

LEMMA NoneWritten ==
  ASSUME NEW ev \in AnEvent, Writes(ev, "status")
  PROVE  Column(Made(ev), "status") # "NONE"
  BY DEF AnEvent, NoRow, Column, Writes, Made, Updated, Reopened, Rulings

LEMMA SameColumns ==
  ASSUME NEW r \in Row, NEW s \in Row, \A c \in Columns : Column(r, c) = Column(s, c)
  PROVE  r = s
<1>1. r.status = s.status /\ r.question = s.question /\ r.response = s.response
  BY DEF Columns, Column
<1>2. QED
  BY <1>1 DEF Row
(* A transaction emits the event that tells what it does, and what it does *)
(* without an event no row shows.                                          *)
Tells(ev) ==
  /\ ev \in AnEvent
  /\ ev.kind = "EscrowCreated" <=> status[ev.escrow] = "NONE"
  /\ \A e \in Escrows :
       /\ status'[e] = "NONE" <=> status[e] = "NONE" /\ ev.escrow # e
       /\ \A c \in Columns :
            Column(Record(e), c)' =
              IF ev.escrow = e /\ Writes(ev, c) THEN Column(Made(ev), c)
              ELSE Column(Record(e), c)

Quiet == UNCHANGED <<status, question, response>>

(* It is enough to look at the escrow that the event is about.             *)
LEMMA TellsOfOne ==
  ASSUME NEW ev \in AnEvent, NEW e, ev.escrow = e,
         ev.kind = "EscrowCreated" <=> status[e] = "NONE",
         status'[e] # "NONE",
         \A f \in Escrows : f # e =>
           status'[f] = status[f] /\ question'[f] = question[f] /\ response'[f] = response[f],
         status'[e] = IF Writes(ev, "status") THEN Made(ev).status ELSE status[e],
         question'[e] = IF Writes(ev, "question") THEN Made(ev).question ELSE question[e],
         response'[e] = IF Writes(ev, "response") THEN Made(ev).response ELSE response[e]
  PROVE  Tells(ev)
<1>1. ASSUME NEW f \in Escrows, NEW c \in Columns, f # e
      PROVE  Column(Record(f), c)' = Column(Record(f), c)
  BY <1>1 DEF Record, Column, Columns
<1>2. ASSUME NEW c \in Columns
      PROVE  Column(Record(e), c)' =
               IF Writes(ev, c) THEN Column(Made(ev), c) ELSE Column(Record(e), c)
  BY <1>2 DEF Record, Column, Columns
<1>3. QED
  BY <1>1, <1>2 DEF Tells

LEMMA VerdictTells ==
  ASSUME IInv, NEW i \in Ids, NEW o \in Rulings, Verdict(i, o), status[link[i]] = "DISPUTED"
  PROVE  Tells([Event("ResolvedByVerdict", link[i]) EXCEPT !.outcome = o])
<1> DEFINE ev == [Event("ResolvedByVerdict", link[i]) EXCEPT !.outcome = o]
<1>1. TypeOK /\ Rule(link[i], o)
  BY DEF IInv, Verdict
<1>2. link[i] \in Escrows
  BY <1>1, VerdictType DEF IInv, QuestionOK, Standing, Verdict, TypeOK
<1>3. ev \in AnEvent /\ ev.kind = "ResolvedByVerdict" /\ ev.escrow = link[i] /\ ev.outcome = o
  BY <1>2 DEF AnEvent, Event
<1>4. /\ o = "TRUE" => /\ status' = [status EXCEPT ![link[i]] = "RESOLVED_CLIENT"]
                      /\ UNCHANGED <<question, response>>
      /\ o = "FALSE" => /\ status' = [status EXCEPT ![link[i]] = "RESOLVED_FREELANCER"]
                       /\ UNCHANGED <<question, response>>
      /\ o = "INVALID" => /\ status' = [status EXCEPT ![link[i]] = "DELIVERED"]
                         /\ question' = [question EXCEPT ![link[i]] = NoQuestion]
                         /\ response' = [response EXCEPT ![link[i]] = FALSE]
  BY <1>1 DEF Rule, Become
<1> HIDE DEF ev
<1>5. /\ Writes(ev, "status")
      /\ Writes(ev, "question") <=> o = "INVALID"
      /\ Writes(ev, "response") <=> o = "INVALID"
  BY <1>3 DEF Writes
<1>6. /\ o = "TRUE" => Made(ev).status = "RESOLVED_CLIENT"
      /\ o = "FALSE" => Made(ev).status = "RESOLVED_FREELANCER"
      /\ o = "INVALID" => /\ Made(ev).status = "DELIVERED"
                         /\ Made(ev).question = NoQuestion
                         /\ Made(ev).response = FALSE
  BY <1>3 DEF Made, Updated, Reopened, NoRow
<1>7. PICK e : e = link[i]
  OBVIOUS
<1>8. \A f \in Escrows : f # e =>
        status'[f] = status[f] /\ question'[f] = question[f] /\ response'[f] = response[f]
  BY <1>1, <1>4, <1>7 DEF TypeOK, Rulings
<1>9. /\ status'[e] = Made(ev).status
      /\ question'[e] = IF o = "INVALID" THEN Made(ev).question ELSE question[e]
      /\ response'[e] = IF o = "INVALID" THEN Made(ev).response ELSE response[e]
      /\ status[e] # "NONE" /\ status'[e] # "NONE"
  BY <1>1, <1>2, <1>4, <1>6, <1>7 DEF TypeOK, Rulings
<1>10. Tells(ev)
  BY <1>3, <1>5, <1>7, <1>8, <1>9, TellsOfOne
<1>11. QED
  BY <1>10 DEF ev

LEMMA ContractTells ==
  ASSUME IInv, AppTypeOK, ContractStep
  PROVE  (Quiet /\ EmitNothing) \/ \E ev : Tells(ev) /\ Log(ev)
<1>1. TypeOK
  BY DEF IInv
<1>2. ASSUME NEW e \in Escrows, NEW a, CreateEscrow(e, a) PROVE Tells(Event("EscrowCreated", e))
  BY <1>1, <1>2 DEF CreateEscrow, Become, Tells, AnEvent, Event, Columns, Column, Record,
                    Writes, Made, NoRow, TypeOK
<1>3. ASSUME NEW e \in Escrows, Deliver(e) PROVE Tells(Event("DeliverySubmitted", e))
  BY <1>1, <1>3 DEF Deliver, CanDeliver, Become, Tells, AnEvent, Event, Columns, Column,
                    Record, Writes, Made, Updated, NoRow, TypeOK
<1>4. ASSUME NEW e \in Escrows, Accept(e) PROVE Tells(Event("Accepted", e))
  BY <1>1, <1>4 DEF Accept, CanAccept, Become, Tells, AnEvent, Event, Columns, Column,
                    Record, Writes, Made, Updated, NoRow, TypeOK
<1>5. ASSUME NEW e \in Escrows, NEW i \in Ids, OpenDispute(e, i)
      PROVE Tells([Event("DisputeOpened", e) EXCEPT !.question = i])
  <2> DEFINE ev == [Event("DisputeOpened", e) EXCEPT !.question = i]
  <2>1. /\ ev \in AnEvent /\ ev.kind = "DisputeOpened" /\ ev.escrow = e /\ ev.question = i
    BY DEF AnEvent, Event
  <2> HIDE DEF ev
  <2>2. /\ Writes(ev, "status") /\ Writes(ev, "question") /\ ~Writes(ev, "response")
        /\ Made(ev).status = "DISPUTED" /\ Made(ev).question = i
    BY <2>1 DEF Writes, Made, Updated, NoRow
  <2>3. /\ status[e] # "NONE" /\ status'[e] = "DISPUTED" /\ question'[e] = i
        /\ response'[e] = response[e]
        /\ \A f \in Escrows : f # e =>
             status'[f] = status[f] /\ question'[f] = question[f] /\ response'[f] = response[f]
    BY <1>1, <1>5 DEF OpenDispute, CanOpenDispute, Become, TypeOK
  <2>4. Tells(ev)
    BY <2>1, <2>2, <2>3, TellsOfOne
  <2>5. QED
    BY <2>4 DEF ev
<1>6. ASSUME NEW e \in Escrows, RespondToDispute(e) PROVE Tells(Event("DisputeResponded", e))
  <2> DEFINE ev == Event("DisputeResponded", e)
  <2>1. ev \in AnEvent /\ ev.kind = "DisputeResponded" /\ ev.escrow = e
    BY DEF AnEvent, Event
  <2> HIDE DEF ev
  <2>2. /\ ~Writes(ev, "status") /\ ~Writes(ev, "question") /\ Writes(ev, "response")
        /\ Made(ev).response = TRUE
    BY <2>1 DEF Writes, Made, Updated, NoRow
  <2>3. /\ status[e] # "NONE" /\ status'[e] = status[e] /\ question'[e] = question[e]
        /\ response'[e] = TRUE
        /\ \A f \in Escrows : f # e =>
             status'[f] = status[f] /\ question'[f] = question[f] /\ response'[f] = response[f]
    BY <1>1, <1>6 DEF RespondToDispute, CanRespond, TypeOK
  <2>4. Tells(ev)
    BY <2>1, <2>2, <2>3, TellsOfOne
  <2>5. QED
    BY <2>4 DEF ev
<1>7. ASSUME NEW e \in Escrows, Expire(e) PROVE Tells(Event("Expired", e))
  BY <1>1, <1>7 DEF Expire, CanExpire, Active, Become, Tells, AnEvent, Event, Columns, Column,
                    Record, Writes, Made, Updated, NoRow, TypeOK
<1>8. ASSUME NEW e \in Escrows, Elapse(e) PROVE Quiet
  BY <1>8 DEF Elapse, Quiet
<1>9. ASSUME NEW i \in Ids, Overruled(i) PROVE Quiet
  BY <1>9 DEF Overruled, escrowVars, Quiet
<1>10. ASSUME NEW i \in Ids, NEW o \in Rulings, Verdict(i, o), status[link[i]] # "DISPUTED"
       PROVE  Quiet
  BY <1>10 DEF Verdict, Rule, escrowVars, Quiet
<1>11. QED
  BY <1>2, <1>3, <1>4, <1>5, <1>6, <1>7, <1>8, <1>9, <1>10, VerdictTells, FreshIds
     DEF ContractStep

-----------------------------------------------------------------------------
(* The events of one escrow begin with its creation, which is not repeated. *)
Creation(e, n) == events[n].escrow = e /\ events[n].kind = "EscrowCreated"

Founded(e) ==
  /\ status[e] = "NONE" => \A n \in 1..Len(events) : events[n].escrow # e
  /\ status[e] # "NONE" => \E n \in 1..Len(events) : Creation(e, n)
  /\ \A n \in 1..Len(events) : events[n].escrow = e =>
       \/ Creation(e, n) /\ \A m \in 1..(n - 1) : events[m].escrow # e
       \/ ~Creation(e, n) /\ \E m \in 1..(n - 1) : Creation(e, m)

(* The events tell everything that the contract has on record.             *)
Recorded(e) ==
  \A c \in Columns : Shows(Writing(e, c), Told(e, c), Len(events), Column(Record(e), c))

(* Each column of the row is what k events made of it, or more than k.     *)
Behind(e, k) ==
  \A c \in Columns : \E j \in k..Len(events) :
    Shows(Writing(e, c), Told(e, c), j, Column(row[e], c))

Followed(e) ==
  /\ Behind(e, checkpoint)
  /\ \A p \in Passes : Running(p) => checkpoint <= pass[p].at /\ Behind(e, pass[p].at)

(* Passes that do not overlap: there is one at most.                       *)
OnePass == \A p, q \in Passes : Running(p) /\ Running(q) => p = q

AppIInv ==
  /\ IInv /\ Solvent /\ AppTypeOK
  /\ events \in Seq(AnEvent)
  /\ \A e \in Escrows : row[e].status = "NONE" => row[e] = NoRow
  /\ \A e \in scope.followed : Founded(e) /\ Recorded(e)
  /\ ~straggled => OnePass /\ \A e \in scope.followed : Followed(e)

LEMMA LogGrows ==
  ASSUME events \in Seq(AnEvent), NEW ev \in AnEvent, events' = Append(events, ev)
  PROVE  /\ events' \in Seq(AnEvent)
         /\ Len(events) \in Nat /\ Len(events') = Len(events) + 1
         /\ \A n \in 1..Len(events) : events'[n] = events[n]
         /\ events'[Len(events) + 1] = ev
  OBVIOUS

LEMMA WritingType ==
  ASSUME NEW e, NEW c, Len(events) \in Nat
  PROVE  Writing(e, c) \in SUBSET Nat
  BY DEF Writing

LEMMA WritingGrows ==
  ASSUME events \in Seq(AnEvent), NEW ev \in AnEvent, events' = Append(events, ev), NEW e, NEW c
  PROVE  /\ Writing(e, c) \in SUBSET Nat /\ Writing(e, c)' \in SUBSET Nat
         /\ \A n \in Nat : n <= Len(events) =>
              (n \in Writing(e, c)' <=> n \in Writing(e, c)) /\ Told(e, c)'[n] = Told(e, c)[n]
         /\ Len(events') \in Writing(e, c)' <=> ev.escrow = e /\ Writes(ev, c)
         /\ Told(e, c)'[Len(events')] = Column(Made(ev), c)
<1>1. /\ Len(events) \in Nat /\ Len(events') = Len(events) + 1
      /\ \A n \in 1..Len(events) : events'[n] = events[n]
      /\ events'[Len(events')] = ev
  BY LogGrows
<1>2. Writing(e, c) \in SUBSET Nat /\ Writing(e, c)' \in SUBSET Nat
  BY <1>1 DEF Writing
<1>3. ASSUME NEW n \in Nat, n <= Len(events)
      PROVE  (n \in Writing(e, c)' <=> n \in Writing(e, c)) /\ Told(e, c)'[n] = Told(e, c)[n]
  <2>1. CASE n = 0
    BY <2>1 DEF Writing, Told
  <2>2. CASE n # 0
    <3>1. n \in 1..Len(events) /\ n \in 1..Len(events') /\ events'[n] = events[n]
      BY <1>1, <1>3, <2>2
    <3>2. QED
      BY <2>2, <3>1 DEF Writing, Told
  <2>3. QED
    BY <2>1, <2>2
<1>4. Len(events') # 0 /\ Len(events') \in 1..Len(events')
  BY <1>1
<1>5. QED
  BY <1>1, <1>2, <1>3, <1>4 DEF Writing, Told

(* What was shown is still shown.                                          *)
LEMMA StillShown ==
  ASSUME events \in Seq(AnEvent), NEW ev \in AnEvent, events' = Append(events, ev),
         NEW e, NEW c, NEW j \in 0..Len(events), NEW v, Shows(Writing(e, c), Told(e, c), j, v)
  PROVE  Shows(Writing(e, c), Told(e, c), j, v)'
<1>1. /\ Writing(e, c) \in SUBSET Nat /\ Writing(e, c)' \in SUBSET Nat
      /\ \A n \in Nat : n <= j =>
           (n \in Writing(e, c)' <=> n \in Writing(e, c)) /\ Told(e, c)'[n] = Told(e, c)[n]
  BY WritingGrows, LogGrows
<1>2. Shows(Writing(e, c)', Told(e, c)', j, v)
  BY <1>1, ShowsGrown
<1>3. QED
  BY <1>2
LEMMA RecordedNext ==
  ASSUME events \in Seq(AnEvent), NEW ev \in AnEvent, events' = Append(events, ev),
         Tells(ev), NEW e \in Escrows, Recorded(e)
  PROVE  Recorded(e)'
<1> SUFFICES ASSUME NEW c \in Columns
             PROVE  Shows(Writing(e, c), Told(e, c), Len(events), Column(Record(e), c))'
  BY DEF Recorded
<1>1. /\ Writing(e, c) \in SUBSET Nat /\ Writing(e, c)' \in SUBSET Nat
      /\ Len(events) \in Nat /\ Len(events') = Len(events) + 1
      /\ Len(events') \in Writing(e, c)' <=> ev.escrow = e /\ Writes(ev, c)
      /\ Told(e, c)'[Len(events')] = Column(Made(ev), c)
  BY WritingGrows, LogGrows
<1>2. Column(Record(e), c)' =
        IF ev.escrow = e /\ Writes(ev, c) THEN Column(Made(ev), c) ELSE Column(Record(e), c)
  BY DEF Tells
<1>3. CASE ev.escrow = e /\ Writes(ev, c)
  BY <1>1, <1>2, <1>3, ShowsWritten
<1>4. CASE ~(ev.escrow = e /\ Writes(ev, c))
  <2>1. Shows(Writing(e, c), Told(e, c), Len(events), Column(Record(e), c))
    BY DEF Recorded
  <2>2. PICK v : v = Column(Record(e), c)
    OBVIOUS
  <2>3. Shows(Writing(e, c), Told(e, c), Len(events), v)'
    <3>1. PICK j : j = Len(events)
      OBVIOUS
    <3>2. j \in 0..Len(events) /\ Shows(Writing(e, c), Told(e, c), j, v)
      BY <1>1, <2>1, <2>2, <3>1
    <3>3. Shows(Writing(e, c), Told(e, c), j, v)'
      BY <3>2, StillShown
    <3>4. Shows(Writing(e, c)', Told(e, c)', j + 1, v)
      BY <1>1, <1>4, <3>1, <3>3, ShowsStill
    <3>5. QED
      BY <1>1, <3>1, <3>4
  <2>4. QED
    BY <1>2, <1>4, <2>2, <2>3
<1>5. QED
  BY <1>3, <1>4

LEMMA FoundedNext ==
  ASSUME events \in Seq(AnEvent), NEW ev \in AnEvent, events' = Append(events, ev),
         Tells(ev), NEW e \in Escrows, Founded(e)
  PROVE  Founded(e)'
<1>1. /\ Len(events) \in Nat /\ Len(events') = Len(events) + 1
      /\ \A n \in 1..Len(events) : events'[n] = events[n]
      /\ events'[Len(events')] = ev
  BY LogGrows
<1>2. /\ \A n \in 1..Len(events') : n \in 1..Len(events) \/ n = Len(events')
      /\ \A n \in 1..Len(events) : n \in 1..Len(events')
      /\ Len(events') \in 1..Len(events')
  BY <1>1
<1>3. /\ \A n \in 1..Len(events) : Creation(e, n)' <=> Creation(e, n)
      /\ \A n \in 1..Len(events') : n = Len(events') =>
           (Creation(e, n)' <=> ev.escrow = e /\ ev.kind = "EscrowCreated")
  BY <1>1 DEF Creation
<1>4. /\ status'[e] = "NONE" => \A n \in 1..Len(events') : events'[n].escrow # e
      /\ status'[e] # "NONE" => \E n \in 1..Len(events') : Creation(e, n)'
  <2>1. CASE status'[e] = "NONE"
    BY <1>1, <1>2, <2>1 DEF Tells, Founded
  <2>2. CASE status'[e] # "NONE" /\ status[e] # "NONE"
    <3>1. PICK n \in 1..Len(events) : Creation(e, n)
      BY <2>2 DEF Founded
    <3>2. QED
      BY <1>2, <1>3, <2>2, <3>1
  <2>3. CASE status'[e] # "NONE" /\ status[e] = "NONE"
    <3>1. ev.escrow = e /\ ev.kind = "EscrowCreated"
      BY <2>3 DEF Tells
    <3>2. PICK n \in 1..Len(events') : n = Len(events')
      BY <1>2
    <3>3. Creation(e, n)'
      BY <1>3, <3>1, <3>2
    <3>4. QED
      BY <2>3, <3>3
  <2>4. QED
    BY <2>1, <2>2, <2>3
<1>5. ASSUME NEW n \in 1..Len(events'), events'[n].escrow = e
      PROVE  \/ Creation(e, n)' /\ \A m \in 1..(n - 1) : events'[m].escrow # e
             \/ ~Creation(e, n)' /\ \E m \in 1..(n - 1) : Creation(e, m)'
  <2>1. 1..(n - 1) \subseteq 1..Len(events)
    BY <1>1
  <2>2. \A m \in 1..(n - 1) : events'[m] = events[m] /\ (Creation(e, m)' <=> Creation(e, m))
    BY <1>1, <1>3, <2>1
  <2>3. CASE n \in 1..Len(events)
    <3>1. events[n].escrow = e /\ (Creation(e, n)' <=> Creation(e, n))
      BY <1>1, <1>3, <1>5, <2>3
    <3>2. \/ Creation(e, n) /\ \A m \in 1..(n - 1) : events[m].escrow # e
          \/ ~Creation(e, n) /\ \E m \in 1..(n - 1) : Creation(e, m)
      BY <2>3, <3>1 DEF Founded
    <3>3. QED
      BY <2>2, <3>1, <3>2
  <2>4. CASE n = Len(events')
    <3>1. ev.escrow = e /\ n - 1 = Len(events)
      BY <1>1, <1>5, <2>4
    <3>2. CASE status[e] = "NONE"
      BY <1>3, <2>2, <2>4, <3>1, <3>2 DEF Tells, Founded
    <3>3. CASE status[e] # "NONE"
      <4>1. PICK m \in 1..Len(events) : Creation(e, m)
        BY <3>3 DEF Founded
      <4>2. ~Creation(e, n)'
        BY <1>3, <2>4, <3>1, <3>3 DEF Tells
      <4>3. m \in 1..(n - 1) /\ Creation(e, m)'
        BY <2>2, <3>1, <4>1
      <4>4. QED
        BY <4>2, <4>3
    <3>4. QED
      BY <3>2, <3>3
  <2>5. QED
    BY <1>1, <2>3, <2>4
<1>6. QED
  BY <1>4, <1>5 DEF Founded

LEMMA BehindGrows ==
  ASSUME events \in Seq(AnEvent), NEW ev \in AnEvent, events' = Append(events, ev),
         NEW e \in Escrows, row' = row, NEW k \in Nat, Behind(e, k)
  PROVE  Behind(e, k)'
<1> SUFFICES ASSUME NEW c \in Columns
             PROVE  \E j \in k..Len(events') :
                      Shows(Writing(e, c), Told(e, c), j, Column(row[e], c))'
  BY DEF Behind
<1>1. PICK j \in k..Len(events) : Shows(Writing(e, c), Told(e, c), j, Column(row[e], c))
  BY DEF Behind
<1>2. PICK v : v = Column(row[e], c)
  OBVIOUS
<1>3. j \in 0..Len(events) /\ j \in k..Len(events')
  BY LogGrows
<1>4. Shows(Writing(e, c), Told(e, c), j, v)'
  BY <1>1, <1>2, <1>3, StillShown
<1>5. QED
  BY <1>2, <1>3, <1>4-----------------------------------------------------------------------------
(* The indexer keeps its types, whatever it does.                          *)
LEMMA PassType ==
  ASSUME IndexerTypeOK, NEW p \in Passes
  PROVE  /\ pass[p] \in [at : Nat, to : 0..Len(events)]
         /\ pass[p].at <= pass[p].to
  BY DEF IndexerTypeOK

LEMMA IndexerTypes ==
  ASSUME IndexerTypeOK, events \in Seq(AnEvent),
         \/ EmitNothing \/ Housekeeping
         \/ \E ev \in AnEvent : Emit(ev)
         \/ \E p \in Passes : HandleNext(p)
  PROVE  IndexerTypeOK'
<1>1. Len(events) \in Nat /\ 0 \in 0..Len(events) /\ MaxFaults \in Nat
  BY IndexerAssumption
<1>2. CASE EmitNothing
  BY <1>2 DEF EmitNothing, indexerVars, IndexerTypeOK
<1>3. ASSUME NEW ev \in AnEvent, Emit(ev) PROVE IndexerTypeOK'
  <2>1. 0..Len(events) \subseteq 0..Len(events')
    BY <1>3, LogGrows DEF Emit
  <2>2. QED
    BY <1>3, <2>1 DEF Emit, IndexerTypeOK
<1>4. ASSUME NEW p \in Passes, HandleNext(p) PROVE IndexerTypeOK'
  <2>1. pass[p].at + 1 \in Nat /\ pass[p].at + 1 <= pass[p].to
    BY <1>1, <1>4, PassType DEF HandleNext, Pending
  <2>2. QED
    BY <1>4, <2>1 DEF HandleNext, IndexerTypeOK
<1>5. ASSUME NEW p \in Passes, StartPass(p) PROVE IndexerTypeOK'
  <2>1. [at |-> checkpoint, to |-> Len(events)] \in [at : Nat, to : 0..Len(events)]
    BY <1>1 DEF IndexerTypeOK
  <2>2. QED
    BY <1>1, <1>5, <2>1 DEF StartPass, IndexerTypeOK
<1>6. NoPass \in [at : Nat, to : 0..Len(events)] /\ NoPass.at <= NoPass.to
  BY <1>1 DEF NoPass
<1>7. ASSUME NEW p \in Passes, SaveCheckpoint(p) PROVE IndexerTypeOK'
  BY <1>6, <1>7 DEF SaveCheckpoint, End, IndexerTypeOK
<1>8. ASSUME NEW p \in Passes, Throw(p) PROVE IndexerTypeOK'
  BY <1>1, <1>6, <1>8 DEF Throw, Fault, IndexerTypeOK
<1>9. CASE NeighbourThrows
  BY <1>1, <1>9 DEF NeighbourThrows, Fault, IndexerTypeOK
<1>10. CASE Restart
  BY <1>1, <1>6, <1>10 DEF Restart, Stop, Fault, IndexerTypeOK
<1>11. QED
  BY <1>2, <1>3, <1>4, <1>5, <1>7, <1>8, <1>9, <1>10 DEF Housekeeping
(* What is not told of an escrow, and no event is of it, changes nothing.  *)
LEMMA RecordedStill ==
  ASSUME UNCHANGED events, NEW e, Recorded(e), Founded(e),
         status'[e] = "NONE" <=> status[e] = "NONE",
         \A c \in Columns : Column(Record(e), c)' = Column(Record(e), c)
  PROVE  Recorded(e)' /\ Founded(e)'
<1>1. ASSUME NEW c \in Columns
      PROVE  Shows(Writing(e, c), Told(e, c), Len(events), Column(Record(e), c))'
  <2>1. Shows(Writing(e, c), Told(e, c), Len(events), Column(Record(e), c))
    BY DEF Recorded
  <2>2. Writing(e, c)' = Writing(e, c) /\ Told(e, c)' = Told(e, c)
    BY DEF Writing, Told
  <2>3. QED
    BY <2>1, <2>2
<1>2. QED
  BY <1>1 DEF Recorded, Founded, Creation

LEMMA BehindStill ==
  ASSUME UNCHANGED events, NEW e, NEW k, row'[e] = row[e], Behind(e, k)
  PROVE  Behind(e, k)'
<1>1. \A c : Writing(e, c)' = Writing(e, c) /\ Told(e, c)' = Told(e, c)
  BY DEF Writing, Told
<1>2. QED
  BY <1>1 DEF Behind

LEMMA FollowedNext ==
  ASSUME AppIInv, ~straggled, NEW e \in scope.followed, row' = row,
         UNCHANGED <<checkpoint, pass>>,
         UNCHANGED events \/ \E ev \in AnEvent : events' = Append(events, ev)
  PROVE  Followed(e)'
<1>1. e \in Escrows /\ Followed(e) /\ events \in Seq(AnEvent)
  BY EscrowAppAssumption DEF AppIInv, AppTypeOK
<1>2. checkpoint \in Nat /\ \A p \in Passes : pass[p].at \in Nat
  BY <1>1 DEF AppIInv, AppTypeOK, IndexerTypeOK
<1>3. ASSUME NEW k \in Nat, Behind(e, k) PROVE Behind(e, k)'
  BY <1>1, <1>3, BehindGrows, BehindStill
<1>4. Behind(e, checkpoint)'
  <2>1. PICK k \in Nat : k = checkpoint /\ k = checkpoint'
    BY <1>2
  <2>2. Behind(e, k)'
    BY <1>1, <1>3, <2>1 DEF Followed
  <2>3. QED
    BY <2>1, <2>2 DEF Behind
<1>5. ASSUME NEW p \in Passes, Running(p)'
      PROVE  (checkpoint <= pass[p].at /\ Behind(e, pass[p].at))'
  <2>1. PICK k \in Nat : k = pass[p].at /\ k = pass'[p].at
    BY <1>2
  <2>2. Running(p) /\ checkpoint <= k /\ Behind(e, k)
    BY <1>1, <1>5, <2>1 DEF Followed, Running
  <2>3. Behind(e, k)'
    BY <1>3, <2>2
  <2>4. QED
    BY <2>1, <2>2, <2>3 DEF Behind
<1>6. QED
  BY <1>4, <1>5 DEF Followed

LEMMA ContractKeeps ==
  ASSUME AppIInv, ContractStep, UNCHANGED <<row, scope>>
  PROVE  AppIInv'
<1>1. IInv /\ Solvent /\ AppTypeOK /\ events \in Seq(AnEvent)
  BY DEF AppIInv
<1>2. IInv' /\ Solvent'
  BY <1>1, AppStep, NextOK, SolventNext DEF AppNext
<1>3. \/ Quiet /\ EmitNothing
      \/ \E ev : Tells(ev) /\ Log(ev)
  BY <1>1, ContractTells
<1>4. /\ UNCHANGED <<checkpoint, pass, awaited, straggled, faults>>
      /\ EmitNothing \/ \E ev \in AnEvent : Emit(ev)
  BY <1>3 DEF EmitNothing, indexerVars, Log, Emit, Tells
<1>5. UNCHANGED events \/ \E ev \in AnEvent : events' = Append(events, ev)
  BY <1>4 DEF EmitNothing, indexerVars, Emit
<1>6. AppTypeOK'
  BY <1>1, <1>4, IndexerTypes DEF AppTypeOK
<1>7. events' \in Seq(AnEvent)
  BY <1>1, <1>5
<1>8. ASSUME NEW e \in scope.followed PROVE Founded(e)' /\ Recorded(e)'
  <2>1. e \in Escrows /\ Founded(e) /\ Recorded(e)
    BY EscrowAppAssumption DEF AppIInv, AppTypeOK
  <2>2. CASE Quiet /\ EmitNothing
    <3>1. UNCHANGED <<events, status, question, response>>
      BY <2>2 DEF Quiet, EmitNothing, indexerVars
    <3>2. \A c \in Columns : Column(Record(e), c)' = Column(Record(e), c)
      BY <3>1 DEF Column, Record
    <3>3. QED
      BY <2>1, <3>1, <3>2, RecordedStill
  <2>3. ASSUME NEW ev, Tells(ev), Log(ev) PROVE Founded(e)' /\ Recorded(e)'
    <3>1. CASE ev.escrow \in scope.followed
      BY <1>1, <2>1, <2>3, <3>1, RecordedNext, FoundedNext DEF Log, Emit, Tells
    <3>2. CASE ev.escrow \notin scope.followed
      <4>1. UNCHANGED events /\ ev.escrow # e
        BY <2>3, <3>2 DEF Log, EmitNothing, indexerVars
      <4>2. /\ status'[e] = "NONE" <=> status[e] = "NONE"
            /\ \A c \in Columns : Column(Record(e), c)' = Column(Record(e), c)
        BY <2>1, <2>3, <4>1 DEF Tells
      <4>3. QED
        BY <2>1, <4>1, <4>2, RecordedStill
    <3>3. QED
      BY <3>1, <3>2
  <2>4. QED
    BY <1>3, <2>2, <2>3
<1>9. ~straggled' => OnePass' /\ \A e \in scope.followed : Followed(e)'
  BY <1>4, <1>5, FollowedNext DEF AppIInv, OnePass, Running
<1>10. QED
  BY <1>2, <1>6, <1>7, <1>8, <1>9 DEF AppIInv

-----------------------------------------------------------------------------
(* The handler is given the events of a pass in order.                     *)
LEMMA HandledRow ==
  ASSUME NEW r \in Row, r.status = "NONE" => r = NoRow, NEW ev \in AnEvent
  PROVE  /\ Handled(r, ev) \in Row
         /\ Handled(r, ev).status = "NONE" => Handled(r, ev) = NoRow
<1>1. CASE r # NoRow
  BY <1>1, UpdatedRow DEF Handled
<1>2. CASE r = NoRow
  BY <1>2 DEF Handled, NoRow, Row, EscrowStatus
<1>3. QED
  BY <1>1, <1>2

LEMMA HandledColumns ==
  ASSUME NEW r \in Row, NEW ev \in AnEvent, r = NoRow <=> ev.kind = "EscrowCreated",
         NEW c \in Columns
  PROVE  Column(Handled(r, ev), c) = IF Writes(ev, c) THEN Column(Made(ev), c) ELSE Column(r, c)
<1>1. CASE r # NoRow
  BY <1>1, UpdatedColumns DEF Handled
<1>2. CASE r = NoRow
  BY <1>2 DEF Handled, Writes, Made, NoRow, Column, Columns
<1>3. QED
  BY <1>1, <1>2

(* The row of a created escrow shows no more than an absent one before the *)
(* creation, and never again after it.                                     *)
LEMMA NothingBefore ==
  ASSUME NEW e, NEW j \in Nat, Len(events) \in Nat, j <= Len(events),
         \A m \in 1..j : events[m].escrow # e,
         NEW v, NEW c, Shows(Writing(e, c), Told(e, c), j, v)
  PROVE  v = Column(NoRow, c)
<1>1. PICK n \in Writing(e, c) : n <= j /\ v = Told(e, c)[n]
  BY DEF Shows
<1>2. n = 0
  BY <1>1 DEF Writing
<1>3. QED
  BY <1>1, <1>2 DEF Told

LEMMA SomethingAfter ==
  ASSUME events \in Seq(AnEvent), NEW e, NEW m \in 1..Len(events), Creation(e, m),
         NEW j \in m..Len(events), NEW v, Shows(Writing(e, "status"), Told(e, "status"), j, v)
  PROVE  v # "NONE"
<1>1. Len(events) \in Nat /\ \A n \in 1..Len(events) : events[n] \in AnEvent
  OBVIOUS
<1>2. m \in Writing(e, "status") /\ m \in Nat /\ j \in Nat /\ m <= j
  BY <1>1 DEF Creation, Writing, Writes
<1>3. PICK n \in Writing(e, "status") : m <= n /\ n <= j /\ v = Told(e, "status")[n]
  BY <1>1, <1>2, WritingType, ShowsLater
<1>4. n \in Nat /\ n # 0 /\ n \in 1..Len(events) /\ Writes(events[n], "status")
  BY <1>1, <1>2, <1>3 DEF Writing
<1>5. v = Column(Made(events[n]), "status")
  BY <1>3, <1>4 DEF Told
<1>6. QED
  BY <1>1, <1>4, <1>5, NoneWritten
(* The row of the escrow that the event is about: it exists, unless it is  *)
(* about to, or was made by a handler further on.                          *)
LEMMA RowExists ==
  ASSUME AppIInv, NEW e \in scope.followed, NEW k \in Nat, k + 1 \in 1..Len(events),
         events[k + 1].escrow = e, Behind(e, k)
  PROVE  /\ ~Creation(e, k + 1) => row[e] # NoRow
         /\ Creation(e, k + 1) /\ row[e] # NoRow => Behind(e, k + 1)
<1>1. /\ e \in Escrows /\ Founded(e) /\ events \in Seq(AnEvent) /\ row[e] \in Row
      /\ row[e].status = "NONE" => row[e] = NoRow
      /\ Len(events) \in Nat /\ k < Len(events)
  BY EscrowAppAssumption DEF AppIInv, AppTypeOK
<1>2. PICK j \in k..Len(events) : Shows(Writing(e, "status"), Told(e, "status"), j, row[e].status)
  BY DEF Behind, Columns, Column
<1>3. ASSUME ~Creation(e, k + 1) PROVE row[e] # NoRow
  <2>1. PICK m \in 1..k : Creation(e, m)
    BY <1>1, <1>3 DEF Founded
  <2>2. m \in 1..Len(events) /\ j \in m..Len(events)
    BY <1>1, <1>2, <2>1
  <2>3. PICK v : v = row[e].status
    OBVIOUS
  <2>4. v # "NONE"
    BY <1>1, <1>2, <2>1, <2>2, <2>3, SomethingAfter
  <2>5. QED
    BY <2>3, <2>4 DEF NoRow
<1>4. ASSUME Creation(e, k + 1), row[e] # NoRow, NEW c \in Columns
      PROVE  \E n \in (k + 1)..Len(events) :
               Shows(Writing(e, c), Told(e, c), n, Column(row[e], c))
  <2>1. \A m \in 1..k : events[m].escrow # e
    BY <1>1, <1>4 DEF Founded
  <2>2. PICK n \in k..Len(events) : Shows(Writing(e, c), Told(e, c), n, Column(row[e], c))
    BY <1>4 DEF Behind
  <2>3. CASE n # k
    BY <1>1, <2>2, <2>3
  <2>4. CASE n = k
    <3>1. PICK v : v = Column(row[e], c)
      OBVIOUS
    <3>2. v = Column(NoRow, c)
      BY <1>1, <2>1, <2>2, <2>4, <3>1, NothingBefore
    <3>3. c # "status"
      BY <1>1, <1>4, <3>1, <3>2 DEF Column, NoRow
    <3>4. k + 1 \notin Writing(e, c)
      BY <1>4, <3>3 DEF Writing, Writes, Creation
    <3>5. Shows(Writing(e, c), Told(e, c), k + 1, v)
      BY <1>1, <2>2, <2>4, <3>1, <3>4, WritingType, ShowsStill
    <3>6. QED
      BY <1>1, <3>1, <3>5
  <2>5. QED
    BY <2>3, <2>4
<1>5. QED
  BY <1>3, <1>4 DEF Behind

(* An event that leaves a column alone, in a row that it leaves alone.     *)
LEMMA BehindPast ==
  ASSUME NEW e, NEW c, NEW k \in Nat, Len(events) \in Nat, k + 1 \in 1..Len(events),
         k + 1 \notin Writing(e, c), NEW v,
         \E j \in k..Len(events) : Shows(Writing(e, c), Told(e, c), j, v)
  PROVE  \E j \in (k + 1)..Len(events) : Shows(Writing(e, c), Told(e, c), j, v)
<1>1. PICK j \in k..Len(events) : Shows(Writing(e, c), Told(e, c), j, v)
  OBVIOUS
<1>2. CASE j = k
  BY <1>1, <1>2, WritingType, ShowsStill
<1>3. CASE j # k
  BY <1>1, <1>3
<1>4. QED
  BY <1>2, <1>3

LEMMA HandleBehind ==
  ASSUME AppIInv, NEW e \in scope.followed, NEW k \in Nat, k + 1 \in 1..Len(events),
         NEW ev, ev = events[k + 1], Behind(e, k),
         UNCHANGED events, row' = [row EXCEPT ![ev.escrow] = Handled(row[ev.escrow], ev)]
  PROVE  Behind(e, k + 1)'
<1>1. /\ e \in Escrows /\ Founded(e) /\ events \in Seq(AnEvent) /\ row \in [Escrows -> Row]
      /\ Len(events) \in Nat /\ ev \in AnEvent /\ ev.escrow \in Escrows
  BY EscrowAppAssumption DEF AppIInv, AppTypeOK, AnEvent
<1>2. CASE ev.escrow # e
  <2>1. row'[e] = row[e] /\ \A c : k + 1 \notin Writing(e, c)
    BY <1>1, <1>2 DEF Writing
  <2>2. Behind(e, k + 1)
    BY <1>1, <2>1, BehindPast DEF Behind
  <2>3. QED
    BY <2>1, <2>2, BehindStill
<1>3. CASE ev.escrow = e /\ (row[e] = NoRow <=> ev.kind = "EscrowCreated")
  <2>1. row'[e] = Handled(row[e], ev)
    BY <1>1, <1>3
  <2>2. ASSUME NEW c \in Columns
        PROVE  \E j \in (k + 1)..Len(events) :
                 Shows(Writing(e, c), Told(e, c), j, Column(row'[e], c))
    <3>1. Column(row'[e], c) =
            IF Writes(ev, c) THEN Column(Made(ev), c) ELSE Column(row[e], c)
      BY <1>1, <1>3, <2>1, HandledColumns
    <3>2. CASE Writes(ev, c)
      <4>1. k + 1 \in Writing(e, c) /\ Told(e, c)[k + 1] = Column(Made(ev), c)
        BY <1>3, <3>2 DEF Writing, Told
      <4>2. PICK n \in Nat : n = k + 1
        OBVIOUS
      <4>3. Shows(Writing(e, c), Told(e, c), n, Told(e, c)[n])
        BY <4>1, <4>2, ShowsWritten
      <4>4. n \in (k + 1)..Len(events)
        BY <1>1, <4>2
      <4>5. QED
        BY <3>1, <3>2, <4>1, <4>2, <4>3, <4>4
    <3>3. CASE ~Writes(ev, c)
      <4>1. k + 1 \notin Writing(e, c)
        BY <3>3 DEF Writing
      <4>2. PICK v : v = Column(row[e], c) /\ v = Column(row'[e], c)
        BY <3>1, <3>3
      <4>3. \E j \in k..Len(events) : Shows(Writing(e, c), Told(e, c), j, v)
        BY <4>2 DEF Behind
      <4>4. \E j \in (k + 1)..Len(events) : Shows(Writing(e, c), Told(e, c), j, v)
        BY <1>1, <4>1, <4>3, BehindPast
      <4>5. QED
        BY <4>2, <4>4
    <3>4. QED
      BY <3>2, <3>3
  <2>3. \A c : Writing(e, c)' = Writing(e, c) /\ Told(e, c)' = Told(e, c)
    BY DEF Writing, Told
  <2>4. QED
    BY <2>2, <2>3 DEF Behind
<1>4. CASE ev.escrow = e /\ ~(row[e] = NoRow <=> ev.kind = "EscrowCreated")
  <2>1. row[e] # NoRow /\ ev.kind = "EscrowCreated" /\ Behind(e, k + 1)
    BY <1>4, RowExists DEF Creation
  <2>2. row'[e] = row[e]
    BY <1>1, <1>4, <2>1 DEF Handled, Updated
  <2>3. QED
    BY <2>1, <2>2, BehindStill
<1>5. QED
  BY <1>2, <1>3, <1>4
LEMMA HandleKeeps ==
  ASSUME AppIInv, NEW p \in Passes, HandleEscrowEvent(p), UNCHANGED <<vars, scope>>
  PROVE  AppIInv'
<1>1. /\ IInv /\ Solvent /\ AppTypeOK /\ IndexerTypeOK /\ events \in Seq(AnEvent)
      /\ row \in [Escrows -> Row]
  BY DEF AppIInv, AppTypeOK
<1>2. IInv' /\ Solvent'
  BY <1>1, NextOK, SolventNext
<1>3. /\ HandleNext(p)
      /\ UNCHANGED <<events, checkpoint, awaited, straggled, faults>>
      /\ pass' = [pass EXCEPT ![p].at = pass[p].at + 1]
      /\ pass[p].at < pass[p].to
  BY DEF HandleEscrowEvent, HandleNext, Pending
<1>4. PICK k : k = pass[p].at
  OBVIOUS
<1>5. k \in Nat /\ k + 1 \in 1..Len(events) /\ Len(events) \in Nat
  BY <1>1, <1>3, <1>4, PassType
<1>6. PICK ev : ev = events[k + 1]
  OBVIOUS
<1>7. ev \in AnEvent /\ ev.escrow \in Escrows
  BY <1>1, <1>5, <1>6 DEF AnEvent
<1>8. row' = [row EXCEPT ![ev.escrow] = Handled(row[ev.escrow], ev)]
  BY <1>4, <1>6 DEF HandleEscrowEvent, Upcoming
<1>9. /\ row' \in [Escrows -> Row]
      /\ \A e \in Escrows : row'[e].status = "NONE" => row'[e] = NoRow
  <2>1. /\ Handled(row[ev.escrow], ev) \in Row
        /\ Handled(row[ev.escrow], ev).status = "NONE" => Handled(row[ev.escrow], ev) = NoRow
    BY <1>1, <1>7, HandledRow DEF AppIInv
  <2>2. QED
    BY <1>1, <1>7, <1>8, <2>1 DEF AppIInv
<1>10. AppTypeOK'
  BY <1>1, <1>3, <1>9, IndexerTypes DEF AppTypeOK
<1>11. ASSUME NEW e \in scope.followed PROVE Founded(e)' /\ Recorded(e)'
  <2>1. Founded(e) /\ Recorded(e)
    BY DEF AppIInv
  <2>2. UNCHANGED <<events, status, question, response>>
    BY <1>3 DEF vars, escrowVars
  <2>3. \A c \in Columns : Column(Record(e), c)' = Column(Record(e), c)
    BY <2>2 DEF Column, Record
  <2>4. QED
    BY <2>1, <2>2, <2>3, RecordedStill
<1>12. ASSUME ~straggled' PROVE OnePass' /\ \A e \in scope.followed : Followed(e)'
  <2>1. ~straggled /\ OnePass
    BY <1>3, <1>12 DEF AppIInv
  <2>2. Running(p) /\ \A q \in Passes : Running(q)' => q = p
    BY <1>1, <1>3, <2>1 DEF Running, NoPass, OnePass, IndexerTypeOK
  <2>3. ASSUME NEW e \in scope.followed PROVE Followed(e)'
    <3>1. e \in Escrows /\ Followed(e)
      BY <1>1, <2>1, EscrowAppAssumption DEF AppIInv, AppTypeOK
    <3>2. checkpoint \in Nat /\ checkpoint <= k /\ Behind(e, k)
      BY <1>1, <1>4, <2>2, <3>1 DEF Followed, IndexerTypeOK
    <3>3. Behind(e, k + 1)'
      BY <1>3, <1>5, <1>6, <1>8, <3>2, HandleBehind
    <3>4. checkpoint' = checkpoint /\ pass'[p].at = k + 1
      BY <1>1, <1>3, <1>4 DEF IndexerTypeOK
    <3>5. ASSUME NEW c \in Columns
          PROVE  /\ \E j \in checkpoint'..Len(events') :
                      Shows(Writing(e, c), Told(e, c), j, Column(row[e], c))'
                 /\ \E j \in pass'[p].at..Len(events') :
                      Shows(Writing(e, c), Told(e, c), j, Column(row[e], c))'
      <4>1. PICK j \in (k + 1)..Len(events') :
                   Shows(Writing(e, c), Told(e, c), j, Column(row[e], c))'
        BY <3>3 DEF Behind
      <4>2. j \in checkpoint'..Len(events') /\ j \in pass'[p].at..Len(events')
        BY <1>3, <1>5, <3>2, <3>4
      <4>3. QED
        BY <4>1, <4>2
    <3>6. Behind(e, checkpoint)' /\ Behind(e, pass[p].at)'
      BY <3>5 DEF Behind
    <3>7. checkpoint' <= pass'[p].at
      BY <1>5, <3>2, <3>4
    <3>8. QED
      BY <2>2, <3>6, <3>7 DEF Followed
  <2>4. QED
    BY <2>2, <2>3 DEF OnePass
<1>13. events' \in Seq(AnEvent) /\ scope' = scope
  BY <1>1, <1>3
<1>14. QED
  BY <1>2, <1>9, <1>10, <1>11, <1>12, <1>13 DEF AppIInv
(* The indexer reads the chain, and two passes stay on record.             *)
LEMMA HousekeepingFrame ==
  ASSUME Housekeeping
  PROVE  UNCHANGED events /\ (~straggled' => ~straggled)
<1>1. ASSUME NEW p \in Passes, StartPass(p)
      PROVE  UNCHANGED events /\ (~straggled' => ~straggled)
  <2>1. straggled' = (straggled \/ \E q \in Passes : Running(q)) /\ UNCHANGED events
    BY <1>1 DEF StartPass
  <2>2. QED
    BY <2>1
<1>2. ASSUME NEW p \in Passes, SaveCheckpoint(p) \/ Throw(p)
      PROVE  UNCHANGED <<events, straggled>>
  BY <1>2 DEF SaveCheckpoint, Throw, Fault
<1>3. CASE NeighbourThrows \/ Restart
  BY <1>3 DEF NeighbourThrows, Restart, Stop, Fault
<1>4. QED
  BY <1>1, <1>2, <1>3 DEF Housekeeping

(* A pass begins where the checkpoint is, and the checkpoint moves to      *)
(* where a pass has come.                                                  *)
LEMMA PassesKeep ==
  ASSUME AppIInv, Housekeeping, ~straggled', NEW e \in scope.followed, row' = row
  PROVE  OnePass' /\ Followed(e)'
<1>1. AppTypeOK /\ IndexerTypeOK /\ e \in Escrows
  BY EscrowAppAssumption DEF AppIInv, AppTypeOK
<1>2. ~straggled /\ OnePass /\ Followed(e) /\ UNCHANGED events
  BY HousekeepingFrame DEF AppIInv
<1>3. ASSUME NEW k, Behind(e, k) PROVE Behind(e, k)'
  BY <1>2, <1>3, BehindStill
<1>4. ASSUME NEW k, Behind(e, k), checkpoint' = k PROVE Behind(e, checkpoint)'
  BY <1>3, <1>4 DEF Behind
<1>5. ASSUME NEW p \in Passes, NEW k, Behind(e, k), pass'[p].at = k
      PROVE  Behind(e, pass[p].at)'
  BY <1>3, <1>5 DEF Behind
<1>6. ASSUME checkpoint' = checkpoint,
             \A p \in Passes : Running(p)' => Running(p) /\ pass'[p] = pass[p]
      PROVE  OnePass' /\ Followed(e)'
  <2>1. Behind(e, checkpoint)'
    BY <1>2, <1>4, <1>6 DEF Followed
  <2>2. ASSUME NEW p \in Passes, Running(p)'
        PROVE  (checkpoint <= pass[p].at /\ Behind(e, pass[p].at))'
    <3>1. checkpoint <= pass[p].at /\ Behind(e, pass[p].at) /\ pass'[p] = pass[p]
      BY <1>2, <1>6, <2>2 DEF Followed
    <3>2. QED
      BY <1>5, <1>6, <3>1
  <2>3. QED
    BY <1>2, <1>6, <2>1, <2>2 DEF OnePass, Followed
<1>7. ASSUME NEW p \in Passes, StartPass(p) PROVE OnePass' /\ Followed(e)'
  <2>1. /\ \A q \in Passes : ~Running(q)
        /\ pass' = [pass EXCEPT ![p] = [at |-> checkpoint, to |-> Len(events)]]
        /\ checkpoint' = checkpoint
    BY <1>7 DEF StartPass
  <2>2. pass'[p].at = checkpoint /\ \A q \in Passes : Running(q)' => q = p
    BY <1>1, <2>1 DEF Running, IndexerTypeOK
  <2>3. Behind(e, checkpoint)' /\ Behind(e, pass[p].at)'
    BY <1>2, <1>4, <1>5, <2>1, <2>2 DEF Followed
  <2>4. checkpoint' <= pass'[p].at
    BY <1>1, <2>1, <2>2 DEF IndexerTypeOK
  <2>5. QED
    BY <2>2, <2>3, <2>4 DEF OnePass, Followed
<1>8. ASSUME NEW p \in Passes, SaveCheckpoint(p) PROVE OnePass' /\ Followed(e)'
  <2>1. /\ Running(p) /\ ~(pass[p].at < pass[p].to) /\ checkpoint' = pass[p].to
        /\ pass' = [pass EXCEPT ![p] = NoPass]
    BY <1>8 DEF SaveCheckpoint, End, Pending
  <2>2. checkpoint' = pass[p].at
    BY <1>1, <2>1, PassType
  <2>3. \A q \in Passes : ~Running(q)'
    BY <1>1, <1>2, <2>1 DEF Running, OnePass, IndexerTypeOK
  <2>4. Behind(e, checkpoint)'
    BY <1>2, <1>4, <2>1, <2>2 DEF Followed
  <2>5. QED
    BY <2>3, <2>4 DEF OnePass, Followed
<1>9. ASSUME NEW p \in Passes, Throw(p) PROVE OnePass' /\ Followed(e)'
  BY <1>1, <1>6, <1>9 DEF Throw, Fault, Running, IndexerTypeOK
<1>10. CASE NeighbourThrows
  BY <1>6, <1>10 DEF NeighbourThrows, Fault, Running
<1>11. CASE Restart
  BY <1>6, <1>11 DEF Restart, Stop, Fault, Running
<1>12. QED
  BY <1>7, <1>8, <1>9, <1>10, <1>11 DEF Housekeeping

LEMMA OnePassKept ==
  ASSUME AppIInv, Housekeeping, ~straggled'
  PROVE  OnePass'
<1>1. IndexerTypeOK /\ ~straggled /\ OnePass
  BY HousekeepingFrame DEF AppIInv, AppTypeOK
<1>2. ASSUME NEW p \in Passes, StartPass(p) PROVE OnePass'
  BY <1>1, <1>2 DEF StartPass, Running, OnePass, IndexerTypeOK
<1>3. ASSUME NEW p \in Passes, SaveCheckpoint(p) \/ Throw(p) PROVE OnePass'
  BY <1>1, <1>3 DEF SaveCheckpoint, End, Throw, Running, OnePass, IndexerTypeOK
<1>4. CASE NeighbourThrows \/ Restart
  BY <1>1, <1>4 DEF NeighbourThrows, Restart, Stop, Running, OnePass
<1>5. QED
  BY <1>2, <1>3, <1>4 DEF Housekeeping

LEMMA HousekeepingKeeps ==
  ASSUME AppIInv, Housekeeping, UNCHANGED <<row, vars, scope>>
  PROVE  AppIInv'
<1>1. /\ IInv /\ Solvent /\ AppTypeOK /\ IndexerTypeOK /\ events \in Seq(AnEvent)
  BY DEF AppIInv, AppTypeOK
<1>2. IInv' /\ Solvent'
  BY <1>1, NextOK, SolventNext
<1>3. AppTypeOK'
  BY <1>1, IndexerTypes DEF AppTypeOK
<1>4. UNCHANGED events
  BY HousekeepingFrame
<1>5. ASSUME NEW e \in scope.followed PROVE Founded(e)' /\ Recorded(e)'
  <2>1. Founded(e) /\ Recorded(e)
    BY DEF AppIInv
  <2>2. UNCHANGED <<events, status, question, response>>
    BY <1>4 DEF vars, escrowVars
  <2>3. \A c \in Columns : Column(Record(e), c)' = Column(Record(e), c)
    BY <2>2 DEF Column, Record
  <2>4. QED
    BY <2>1, <2>2, <2>3, RecordedStill
<1>6. QED
  BY <1>1, <1>2, <1>3, <1>4, <1>5, PassesKeep, OnePassKept DEF AppIInv

LEMMA AppInitOK == AppInit => AppIInv
<1> SUFFICES ASSUME AppInit PROVE AppIInv
  OBVIOUS
<1>1. Init /\ events = <<>> /\ scope \in Scopes /\ row = [e \in Escrows |-> NoRow]
  BY DEF AppInit, IndexerInit
<1>2. IInv /\ Solvent
  BY <1>1, InitOK, InitSolvent
<1>3. Len(events) = 0 /\ events \in Seq(AnEvent)
  BY <1>1
<1>4. AppTypeOK
  <2>1. NoRow \in Row
    BY DEF NoRow, Row, EscrowStatus
  <2>2. IndexerTypeOK
    <3>1. 0 \in 0..Len(events) /\ 0 \in 0..MaxFaults
      BY <1>3, IndexerAssumption
    <3>2. NoPass \in [at : Nat, to : 0..Len(events)] /\ NoPass.at <= NoPass.to
      BY <3>1 DEF NoPass
    <3>3. QED
      BY <3>1, <3>2 DEF AppInit, IndexerInit, IndexerTypeOK
  <2>3. QED
    BY <1>1, <2>1, <2>2 DEF AppTypeOK
<1>5. ASSUME NEW e \in scope.followed
      PROVE  /\ Founded(e) /\ Recorded(e) /\ Behind(e, checkpoint)
             /\ \A p \in Passes : ~Running(p)
  <2>1. e \in Escrows
    BY <1>1, EscrowAppAssumption
  <2>2. Record(e) = NoRow /\ row[e] = NoRow
    BY <1>1, <2>1 DEF Init, Record, NoRow
  <2>3. checkpoint = 0 /\ \A p \in Passes : ~Running(p)
    BY DEF AppInit, IndexerInit, Running
  <2>4. ASSUME NEW c \in Columns PROVE Shows(Writing(e, c), Told(e, c), 0, Column(NoRow, c))
    <3>1. 0 \in Writing(e, c) /\ Told(e, c)[0] = Column(NoRow, c)
      BY DEF Writing, Told
    <3>2. QED
      BY <3>1, ShowsWritten
  <2>5. Founded(e)
    BY <1>1, <1>3, <2>1 DEF Init, Founded
  <2>6. QED
    BY <1>3, <2>2, <2>3, <2>4, <2>5 DEF Recorded, Behind
<1>6. QED
  BY <1>1, <1>2, <1>3, <1>4, <1>5 DEF AppIInv, Followed, OnePass, NoRow, AppInit, IndexerInit,
                                      Running
LEMMA AppNextOK == AppIInv /\ [AppNext]_appVars => AppIInv'
<1> SUFFICES ASSUME AppIInv, [AppNext]_appVars PROVE AppIInv'
  OBVIOUS
<1>1. CASE ContractStep /\ UNCHANGED <<row, scope>>
  BY <1>1, ContractKeeps
<1>2. CASE IndexerStep
  BY <1>2, HandleKeeps, HousekeepingKeeps DEF IndexerStep
<1>3. CASE UNCHANGED appVars
  <2>1. UNCHANGED <<vars, row, scope>> /\ EmitNothing
    BY <1>3 DEF appVars, EmitNothing
  <2>2. IInv' /\ Solvent' /\ AppTypeOK'
    BY <2>1, NextOK, SolventNext, IndexerTypes DEF AppIInv, AppTypeOK
  <2>3. UNCHANGED <<events, checkpoint, pass, straggled, status, question, response>>
    BY <2>1 DEF EmitNothing, indexerVars, vars, escrowVars
  <2>4. ASSUME NEW e \in scope.followed PROVE Founded(e)' /\ Recorded(e)'
    <3>1. \A c \in Columns : Column(Record(e), c)' = Column(Record(e), c)
      BY <2>3 DEF Column, Record
    <3>2. QED
      BY <2>3, <3>1, RecordedStill DEF AppIInv
  <2>5. ~straggled' => OnePass' /\ \A e \in scope.followed : Followed(e)'
    BY <2>1, <2>3, FollowedNext DEF AppIInv, OnePass, Running
  <2>6. QED
    BY <2>1, <2>2, <2>3, <2>4, <2>5 DEF AppIInv
<1>4. QED
  BY <1>1, <1>2, <1>3 DEF AppNext

LEMMA AppInvariant == AppSpec => []AppIInv
<1>1. AppInit => AppIInv
  BY AppInitOK
<1>2. AppIInv /\ [AppNext]_appVars => AppIInv'
  BY AppNextOK
<1>3. QED
  BY <1>1, <1>2, PTL DEF AppSpec

(* At rest the row is what the contract has on record.                     *)
LEMMA RestMirrors ==
  ASSUME AppIInv, AtRest, ~straggled, NEW e \in scope.followed
  PROVE  row[e] = Record(e)
<1>1. /\ e \in Escrows /\ TypeOK /\ row[e] \in Row /\ Recorded(e)
      /\ Followed(e) /\ checkpoint = Len(events) /\ Len(events) \in Nat
  BY EscrowAppAssumption DEF AppIInv, AppTypeOK, IInv, AtRest
<1>2. ASSUME NEW c \in Columns PROVE Column(row[e], c) = Column(Record(e), c)
  <2>1. PICK j \in Len(events)..Len(events) :
               Shows(Writing(e, c), Told(e, c), j, Column(row[e], c))
    BY <1>1 DEF Followed, Behind
  <2>2. j = Len(events) /\ Writing(e, c) \in SUBSET Nat
    BY <1>1, WritingType
  <2>3. Shows(Writing(e, c), Told(e, c), j, Column(Record(e), c))
    BY <1>1, <2>2 DEF Recorded
  <2>4. QED
    BY <1>1, <2>1, <2>2, <2>3, ShowsOne
<1>3. Record(e) \in Row
  BY <1>1 DEF Record, Row, TypeOK
<1>4. QED
  BY <1>1, <1>2, <1>3, SameColumns

LEMMA RestIsRight ==
  ASSUME AppIInv, AtRest, ~straggled, NEW e \in scope.followed, Unhindered(e),
         NEW party \in Parties, NEW b
  PROVE  Offers(party, e, b) <=> Takes(party, e, b)
<1>1. /\ e \in Escrows /\ TypeOK /\ Solvent /\ DisputeIsLive(e)
  BY EscrowAppAssumption DEF AppIInv, AppTypeOK, IInv, EscrowOK
<1>2. row[e].status = status[e] /\ row[e].question = question[e]
  <2>1. row[e] = Record(e)
    BY RestMirrors
  <2>2. QED
    BY <2>1 DEF Record
<1>3. status[e] = "DISPUTED" => question[e] # NoQuestion
  BY <1>1, ConsumerAssumption DEF DisputeIsLive
<1>4. status[e] \in Active => amount[e] <= held
  <2>1. \A f \in Escrows : Locked(f) \in Nat
    BY <1>1, LockedNat
  <2>2. Locked(e) <= held
    <3> DEFINE f == [x \in Escrows |-> Locked(x)]
    <3>1. f[e] = Locked(e) /\ \A x \in Escrows : f[x] \in Nat
      BY <1>1, <2>1
    <3>2. held = SumFunctionOnSet(f, Escrows)
      BY <1>1 DEF Solvent
    <3> HIDE DEF f
    <3>3. QED
      BY <1>1, <3>1, <3>2, SumBounds, EscrowAssumption
  <2>3. QED
    BY <2>2 DEF Locked
<1>5. \A p \in Parties : status[e] \in Active => CanTransfer(e, p)
  BY <1>4 DEF Unhindered, CanTransfer
<1>6. \E i \in Ids : Oracle!CanAsk(i)
  BY DEF Unhindered, Oracle!CanAsk
<1>7. e \in overdue
  BY DEF Unhindered
<1>8. QED
  BY <1>2, <1>3, <1>5, <1>6, <1>7
     DEF Offers, Takes, Shown, CanDeliver, CanAccept, CanOpenDispute, CanRespond, CanExpire,
         Active, Parties

(* Once every event was handled, whatever was redelivered after throws and *)
(* restarts, the escrows table is the contract's record, and the page      *)
(* offers a party the calls that the contract takes from it, no more and   *)
(* no less; unless a straggling pass wrote over a later one.               *)
THEOREM EscrowSite == AppSpec => []SiteAgrees
<1>1. AppIInv => SiteAgrees
  <2> SUFFICES ASSUME AppIInv PROVE SiteAgrees
    OBVIOUS
  <2>1. MirrorAgrees
    BY RestMirrors DEF AppIInv, MirrorAgrees, Record
  <2>2. PageIsRight
    BY RestIsRight DEF PageIsRight
  <2>3. QED
    BY <2>1, <2>2 DEF SiteAgrees
<1>2. QED
  BY <1>1, AppInvariant, PTL

(* The application's contract is the one that the theorems above are       *)
(* about: with its indexer and its page, it does nothing else.             *)
THEOREM EscrowUnderSite == AppSpec => Spec
<1>1. AppInit => Init
  BY DEF AppInit
<1>2. AppIInv /\ [AppNext]_appVars => [Next]_vars
  BY AppStep DEF AppIInv
<1>3. QED
  BY <1>1, <1>2, AppInvariant, PTL DEF AppSpec, Spec
=============================================================================
