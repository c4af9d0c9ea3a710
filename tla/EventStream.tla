---------------------------- MODULE EventStream ------------------------------
(***************************************************************************)
(* The stream of one assertion's events (api/src/routes/verdict.ts over    *)
(* the bus of api/src/lib/events.ts) and the pages that follow it          *)
(* (web/src/components/verdict/reasoning-stream.tsx).  A stream subscribes *)
(* first and then reads the row: a row with an outcome is replayed and the *)
(* stream ends.  An event `error` or `done` ends it as well; the browser   *)
(* opens an ended stream again unless it has heard `done`.                 *)
(***************************************************************************)
EXTENDS Naturals

CONSTANTS
  Viewers,
  NoOutcome

VARIABLE viewer    \* where each page is, and the outcome on its screen

ViewerStep == {"away", "subscribed", "live", "lost", "refused", "closed"}
AllAway == [v \in Viewers |-> [at |-> "away", shown |-> NoOutcome]]

StreamTypeOK(Outcomes) ==
  viewer \in [Viewers -> [at : ViewerStep, shown : Outcomes \cup {NoOutcome}]]

Subscribed(v) == viewer[v].at \in {"subscribed", "live"}
Watching(v) == viewer[v].at \in {"subscribed", "live", "lost"}
-----------------------------------------------------------------------------
Open(v) ==
  /\ viewer[v].at = "away"
  /\ viewer' = [viewer EXCEPT ![v].at = "subscribed"]

(* Fault: the row is read, and never replayed.                             *)
ReadRowUnreplayed(v, outcome) ==
  /\ viewer[v].at = "subscribed"
  /\ viewer' = [viewer EXCEPT ![v].at = "live"]

ReadRow(v, outcome) ==
  /\ viewer[v].at = "subscribed"
  /\ viewer' = [viewer EXCEPT ![v] =
       IF outcome = NoOutcome THEN [@ EXCEPT !.at = "live"]
       ELSE [at |-> "closed", shown |-> outcome]]

(* retry: 3000.                                                            *)
Reconnect(v) ==
  /\ viewer[v].at = "lost"
  /\ viewer' = [viewer EXCEPT ![v].at = "subscribed"]

(* Too many requests from one address (server.ts): a stream answered so is *)
(* not tried again.                                                        *)
Refuse(v) ==
  /\ viewer[v].at \in {"away", "lost"}
  /\ viewer' = [viewer EXCEPT ![v].at = "refused"]

(* The connection breaks, or the reader goes elsewhere.                    *)
DropConnection(v) ==
  /\ Subscribed(v)
  /\ viewer' = [viewer EXCEPT ![v].at = "lost"]

Leave(v) ==
  /\ viewer[v].at # "away"
  /\ viewer' = [viewer EXCEPT ![v] = [at |-> "away", shown |-> NoOutcome]]
-----------------------------------------------------------------------------
Publish(Effect(_)) ==
  viewer' = [v \in Viewers |-> IF Subscribed(v) THEN Effect(viewer[v]) ELSE viewer[v]]

(* `outcome` and, in the same call stack, `done`.                          *)
PublishOutcome(outcome) ==
  Publish(LAMBDA w : [at |-> "closed", shown |-> outcome])

(* The frame `error` is shown; the server ends the stream, which the       *)
(* browser takes for a broken connection.                                  *)
PublishError == Publish(LAMBDA w : [w EXCEPT !.at = "lost"])

PublishDone == Publish(LAMBDA w : [w EXCEPT !.at = "closed"])

(* The process stops with every stream it serves.                          *)
LoseStreams == PublishError
=============================================================================
