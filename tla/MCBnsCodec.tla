----------------------------- MODULE MCBnsCodec -----------------------------
(* The three uses of the generated classes, one at a time: transactions,   *)
(* objects of the state, and messages of every class.                      *)
EXTENDS BnsCodec, BnsObjects, BnsMessages

AllInit == Init /\ ObjectsInit /\ MessagesInit

AllNext ==
  \/ stored = <<>> /\ message = <<>> /\ Next /\ UNCHANGED <<objectVars, messageVars>>
  \/ stage = "idle" /\ message = <<>> /\ ObjectsNext /\ UNCHANGED <<vars, messageVars>>
  \/ stage = "idle" /\ stored = <<>> /\ MessagesNext /\ UNCHANGED <<vars, objectVars>>

AllSpec == AllInit /\ [][AllNext]_<<vars, objectVars, messageVars>>
=============================================================================
