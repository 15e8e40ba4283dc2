-------------------------------- MODULE OnceCall -------------------------------
(***************************************************************************)
(* What the SDK's transport promises of a call that changes something      *)
(* (any method but GET and HEAD): the backend applies it at most once,     *)
(* however often it is sent, and a call that reports success was applied.  *)
(* A call that reports an error may still be applied, even later.          *)
(***************************************************************************)
EXTENDS Naturals

CONSTANT Ids

VARIABLES outcome,  \* what the caller knows of each call
          effects   \* how often the backend applied it

Init == /\ outcome = [i \in Ids |-> "none"]
        /\ effects = [i \in Ids |-> 0]

Call(i) == /\ outcome[i] # "pending"
           /\ outcome' = [outcome EXCEPT ![i] = "pending"]
           /\ effects' = [effects EXCEPT ![i] = 0]

Apply(i) == /\ outcome[i] \in {"pending", "error"} /\ effects[i] = 0
            /\ effects' = [effects EXCEPT ![i] = 1]
            /\ UNCHANGED outcome

Succeed(i) == /\ outcome[i] = "pending" /\ effects[i] = 1
              /\ outcome' = [outcome EXCEPT ![i] = "ok"]
              /\ UNCHANGED effects

Fail(i) == /\ outcome[i] = "pending"
           /\ outcome' = [outcome EXCEPT ![i] = "error"]
           /\ UNCHANGED effects

Next == \E i \in Ids : Call(i) \/ Apply(i) \/ Succeed(i) \/ Fail(i)

Spec == Init /\ [][Next]_<<outcome, effects>>
================================================================================
