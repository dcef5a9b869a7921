----------------------------- MODULE CallSlots -----------------------------
(***************************************************************************)
(* What a deadline pool promises its callers (jit/deadline.py, the module    *)
(* docstring and the docstring of `call`): a call is refused at once or gets *)
(* a slot; it keeps the slot until its function has returned, whether or not *)
(* its caller still waits; and its caller gets the answer, or gives up while *)
(* there is none.                                                           *)
(***************************************************************************)
EXTENDS Naturals, FiniteSets

CONSTANTS Call, Slots    \* the calls made, and how many may be inside

VARIABLES
  slot,     \* slot[c]: what call c holds
  outcome   \* outcome[c]: what the caller of c got

svars == <<slot, outcome>>

Inside == {c \in Call : slot[c] \in {"held", "returned"}}

SlotsInit ==
  /\ slot = [c \in Call |-> "none"]
  /\ outcome = [c \in Call |-> "none"]

Refuse(c) ==
  /\ slot[c] = "none" /\ outcome[c] = "none"
  /\ Cardinality(Inside) = Slots
  /\ outcome' = [outcome EXCEPT ![c] = "refused"]
  /\ UNCHANGED slot

Admit(c) ==
  /\ slot[c] = "none" /\ outcome[c] = "none"
  /\ Cardinality(Inside) < Slots
  /\ slot' = [slot EXCEPT ![c] = "held"]
  /\ UNCHANGED outcome

FunctionReturns(c) ==
  /\ slot[c] = "held"
  /\ slot' = [slot EXCEPT ![c] = "returned"]
  /\ UNCHANGED outcome

\* Only a function that has returned gives its slot back.
GiveBack(c) ==
  /\ slot[c] = "returned"
  /\ slot' = [slot EXCEPT ![c] = "given back"]
  /\ UNCHANGED outcome

GetAnswer(c) ==
  /\ slot[c] \in {"returned", "given back"} /\ outcome[c] = "none"
  /\ outcome' = [outcome EXCEPT ![c] = "answered"]
  /\ UNCHANGED slot

GiveUp(c) ==
  /\ slot[c] = "held" /\ outcome[c] = "none"
  /\ outcome' = [outcome EXCEPT ![c] = "expired"]
  /\ UNCHANGED slot

SlotsNext ==
  \E c \in Call :
    Refuse(c) \/ Admit(c) \/ FunctionReturns(c) \/ GiveBack(c) \/ GetAnswer(c) \/ GiveUp(c)

SlotsSpec == SlotsInit /\ [][SlotsNext]_svars
=============================================================================
