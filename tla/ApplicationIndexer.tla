-------------------------- MODULE ApplicationIndexer --------------------------
(***************************************************************************)
(* The chain indexer's passes over one of its six contracts (indexContract *)
(* and startIndexer of api/src/workers/indexer.ts), without what a handler *)
(* writes: a module that EXTENDS or instantiates this one pairs HandleNext *)
(* with its own handler.                                                   *)
(*                                                                         *)
(* A tick of the timer awaits six passes, one per contract, in one         *)
(* Promise.all.  When any of them throws the tick is over and the next one *)
(* is scheduled, but the other five go on: such a straggler overlaps the   *)
(* pass that the next tick starts over the same contract.                  *)
(***************************************************************************)
EXTENDS Naturals, Sequences, FiniteSetsExt

CONSTANTS
  MaxPasses,     \* bound: passes over the contract at one time
  MaxFaults      \* bound: throws and restarts

ASSUME IndexerAssumption == MaxPasses \in Nat \ {0} /\ MaxFaults \in Nat

VARIABLES
  events,      \* the contract's events, in chain order
  checkpoint,  \* indexer_checkpoints: how many of them are done for good
  pass,        \* passes under way: events handled, and how many to handle
  awaited,     \* the pass the current tick waits for, if it has one
  straggled,   \* history: two passes were once under way together
  faults       \* throws and restarts so far

indexerVars == <<events, checkpoint, pass, awaited, straggled, faults>>

Passes == 1..MaxPasses
NoPass == [at |-> 0, to |-> 0]

IndexerTypeOK ==
  /\ checkpoint \in 0..Len(events)
  /\ pass \in [Passes -> [at : Nat, to : 0..Len(events)]]
  /\ \A p \in Passes : pass[p].at <= pass[p].to
  /\ awaited \subseteq Passes
  /\ straggled \in BOOLEAN
  /\ faults \in 0..MaxFaults

IndexerInit ==
  /\ events = <<>>
  /\ checkpoint = 0
  /\ pass = [p \in Passes |-> NoPass]
  /\ awaited = {}
  /\ straggled = FALSE
  /\ faults = 0

(* A transaction of an application contract emits one event, or none.      *)
Emit(e) ==
  /\ events' = Append(events, e)
  /\ UNCHANGED <<checkpoint, pass, awaited, straggled, faults>>

EmitNothing == UNCHANGED indexerVars
-----------------------------------------------------------------------------
Running(p) == pass[p] # NoPass

(* The first of the passes not under way: they are all alike.              *)
Fresh(p) == ~Running(p) /\ \A q \in Passes : q < p => Running(q)

(* A tick reads the events from the checkpoint to the tip of the chain.  A *)
(* tip some confirmations back is that of a pass begun earlier: the chain  *)
(* does not look at the indexer.                                           *)
StartPass(p) ==
  /\ awaited = {}
  /\ Fresh(p)
  /\ checkpoint < Len(events)
  /\ pass' = [pass EXCEPT ![p] = [at |-> checkpoint, to |-> Len(events)]]
  /\ awaited' = {p}
  /\ straggled' = (straggled \/ \E q \in Passes : Running(q))
  /\ UNCHANGED <<events, checkpoint, faults>>

Pending(p) == pass[p].at < pass[p].to
Upcoming(p) == events[pass[p].at + 1]

(* The next event of pass p is handed to the handler.                      *)
HandleNext(p) ==
  /\ Pending(p)
  /\ pass' = [pass EXCEPT ![p].at = @ + 1]
  /\ UNCHANGED <<events, checkpoint, awaited, straggled, faults>>

End(p) ==
  /\ pass' = [pass EXCEPT ![p] = NoPass]
  /\ awaited' = awaited \ {p}

(* An upsert: a straggler that saves last puts the checkpoint back.        *)
SaveCheckpoint(p) ==
  /\ Running(p)
  /\ ~Pending(p)
  /\ checkpoint' = pass[p].to
  /\ End(p)
  /\ UNCHANGED <<events, straggled, faults>>

Fault ==
  /\ faults < MaxFaults
  /\ faults' = faults + 1
  /\ UNCHANGED <<events, checkpoint, straggled>>

(* A handler, a query or the save throws: the tick rejects.                *)
Throw(p) ==
  /\ Running(p)
  /\ Fault
  /\ pass' = [pass EXCEPT ![p] = NoPass]
  /\ awaited' = awaited \ {p}

(* The pass over another contract throws: the tick rejects, pass p goes on. *)
NeighbourThrows ==
  /\ awaited # {}
  /\ Fault
  /\ awaited' = {}
  /\ UNCHANGED pass

(* The process stops, and is started again from its checkpoints.           *)
Stop ==
  /\ Fault
  /\ pass' = [p \in Passes |-> NoPass]
  /\ awaited' = {}

Restart == (\E p \in Passes : Running(p)) /\ Stop

(* What the indexer does besides handling an event.                        *)
Housekeeping ==
  \/ \E p \in Passes : StartPass(p) \/ SaveCheckpoint(p) \/ Throw(p)
  \/ NeighbourThrows
  \/ Restart
-----------------------------------------------------------------------------
(* Every event was handled, and nothing is under way.                      *)
AtRest == checkpoint = Len(events) /\ \A p \in Passes : ~Running(p)
=============================================================================
