----------------------------- MODULE MCTsProvider ------------------------------
(* The instance of TsProvider that TLC checks.                                *)
EXTENDS TsProvider

\* A good package and those with one fault.
OneFault ==
    {Good} \cup {[Good EXCEPT !.enc = e] : e \in {"other", "plain"}}
           \cup {[Good EXCEPT !.sig = s] : s \in {"bad", "missing"}}
           \cup {[Good EXCEPT !.empty = TRUE]}

Base == [local |-> FALSE, allowPlain |-> FALSE, policyKey |-> TRUE, requireSig |-> FALSE,
         hardware |-> "auto", agent |-> TRUE]

\* Configurations that take different paths through exchange and hardwarePayload.
SomeConfigs ==
    { Base,
      [Base EXCEPT !.hardware = "required"],
      [Base EXCEPT !.local = TRUE, !.policyKey = FALSE, !.hardware = "off"],
      [Base EXCEPT !.hardware = "required", !.agent = FALSE],
      [Base EXCEPT !.policyKey = FALSE, !.requireSig = TRUE] }
================================================================================
