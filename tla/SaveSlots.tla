------------------------------ MODULE SaveSlots ------------------------------
(* What load_i32 and save_i32 promise a game (runtime/crumb/storage.h):      *)
(* every slot holds one value or nothing, a save that reports success has    *)
(* replaced exactly one slot in one step, a save that reports failure has    *)
(* replaced nothing, and a load returns its fallback or a value the slot     *)
(* held while the load ran.  A power loss may put a slot back to a value it  *)
(* held since it last became durable, never to anything else.                *)
CONSTANTS Procs, Slots, Values, Fallback, None

VARIABLES value,    \* the value each slot holds, or None
          durable,  \* what a power loss may leave in each slot
          call      \* the call each game process has under way

slotVars == <<call, value, durable>>

NoCall == [op |-> "none", slot |-> None, value |-> None]
CallBegun(op, s, v) == [op |-> op, slot |-> s, value |-> v]

SlotsInit ==
    /\ value \in [Slots -> Values \cup {None}]
    /\ durable = [s \in Slots |-> {value[s]}]
    /\ call = [p \in Procs |-> NoCall]

Enter(p) ==
    /\ call[p].op \in {"none", "saved", "failed", "loaded"}
    /\ \/ \E s \in Slots, v \in Values : call' = [call EXCEPT ![p] = CallBegun("save", s, v)]
       \/ \E s \in Slots : call' = [call EXCEPT ![p] = CallBegun("load", s, None)]
       \/ call' = [call EXCEPT ![p] = CallBegun("failed", None, None)]
       \/ call' = [call EXCEPT ![p] = CallBegun("loaded", None, Fallback)]
    /\ UNCHANGED <<value, durable>>

(* The one step in which a save takes effect. *)
Replace(p) ==
    /\ call[p].op = "save"
    /\ call' = [call EXCEPT ![p].op = "replaced"]
    /\ value' = [value EXCEPT ![call[p].slot] = call[p].value]
    /\ durable' = [durable EXCEPT ![call[p].slot] = @ \cup {call[p].value}]

(* The step in which a load sees the slot. *)
Look(p) ==
    /\ call[p].op = "load"
    /\ call' = [call EXCEPT ![p].op = "looked", ![p].value = value[call[p].slot]]
    /\ value[call[p].slot] # None
    /\ UNCHANGED <<value, durable>>

Return(p) ==
    /\ \/ call[p].op = "replaced" /\ call' = [call EXCEPT ![p] = CallBegun("saved", None, None)]
       \/ call[p].op = "save" /\ call' = [call EXCEPT ![p] = CallBegun("failed", None, None)]
       \/ call[p].op = "looked" /\ call' = [call EXCEPT ![p] = CallBegun("loaded", None, @.value)]
       \/ call[p].op \in {"load", "looked"} /\ call' = [call EXCEPT ![p] = CallBegun("loaded", None, Fallback)]
    /\ UNCHANGED value
    /\ \A s \in Slots : durable'[s] \subseteq durable[s] /\ value[s] \in durable'[s]

Abandon(p) ==
    /\ call' = [call EXCEPT ![p] = NoCall]
    /\ UNCHANGED <<value, durable>>

LosePower ==
    /\ call' = [p \in Procs |-> NoCall]
    /\ \A s \in Slots : value'[s] \in durable[s] /\ durable'[s] = {value'[s]}

SlotsNext == LosePower
             \/ \E p \in Procs : Enter(p) \/ Replace(p) \/ Look(p) \/ Return(p) \/ Abandon(p)

SlotsSpec == SlotsInit /\ [][SlotsNext]_slotVars
=============================================================================
