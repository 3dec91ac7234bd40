--------------------------- MODULE DurableRegister ---------------------------
(***************************************************************************)
(* What write_json and write_bytes_file (agent-core/src/storage.rs)        *)
(* promise about the file they replace: a register of whole values, whose  *)
(* writes take effect in one step, and of which a successful write outlives *)
(* a power loss, unless a later write or removal took its place.           *)
(***************************************************************************)
CONSTANTS
  Writers,   \* the tasks that write the file
  Values,    \* what they write
  Nothing,   \* there is no file, or no write in progress
  Durable    \* a write reports success only when its value is on disk

VARIABLES
  reg,     \* what a reader finds
  stable,  \* what a reader finds after a power loss
  call     \* per writer: its value, and how far its write has come

vars == <<reg, stable, call>>

NoCall == [phase |-> "none", value |-> Nothing]

Set(w, phase, value) == call' = [call EXCEPT ![w] = [phase |-> phase, value |-> value]]

InPhase(w, phase) == call[w].phase = phase

Init ==
  /\ reg = Nothing
  /\ stable = Nothing
  /\ call = [w \in Writers |-> NoCall]

Begin(w, v) ==
  /\ InPhase(w, "none")
  /\ Set(w, "pending", v)
  /\ UNCHANGED <<reg, stable>>

Commit(w) ==
  /\ InPhase(w, "pending")
  /\ reg' = call[w].value
  /\ Set(w, "visible", call[w].value)
  /\ UNCHANGED stable

\* The system may write the register to disk whenever it likes; a writer
\* can also wait for that.
Flush ==
  /\ stable' = reg
  /\ UNCHANGED <<reg, call>>

Sync(w) ==
  /\ InPhase(w, "visible")
  /\ stable' = reg
  /\ Set(w, "durable", call[w].value)
  /\ UNCHANGED reg

Succeed(w) ==
  /\ InPhase(w, IF Durable THEN "durable" ELSE "visible")
  /\ call' = [call EXCEPT ![w] = NoCall]
  /\ UNCHANGED <<reg, stable>>

\* A write that fails has taken effect or has not.
Fail(w) ==
  /\ call' = [call EXCEPT ![w] = NoCall]
  /\ UNCHANGED <<reg, stable>>

Remove ==
  /\ reg' = Nothing
  /\ UNCHANGED <<stable, call>>

Restart ==
  /\ call' = [w \in Writers |-> NoCall]
  /\ UNCHANGED <<reg, stable>>

PowerLoss ==
  /\ reg' = stable
  /\ call' = [w \in Writers |-> NoCall]
  /\ UNCHANGED stable

Next ==
  \/ \E w \in Writers :
       \/ \E v \in Values : Begin(w, v)
       \/ Commit(w) \/ Sync(w) \/ Succeed(w) \/ Fail(w)
  \/ Flush \/ Remove \/ Restart \/ PowerLoss

Spec == Init /\ [][Next]_vars

=============================================================================
