----------------------------- MODULE MCNhiProvider -----------------------------
(* Instances of NhiProvider for TLC: the configurations and the package        *)
(* qualities each run is about.                                                *)
EXTENDS NhiProvider, TLC

Plain(m, h) == [plaintextOK |-> FALSE, policyKey |-> TRUE, reqSig |-> TRUE,
                mode |-> m, hwPresent |-> h, env |-> "cloud"]

\* Life cycle: one configuration, nothing to check in a package.
LifecycleConfigs == {Plain("off", FALSE)}
GoodOnly == {GoodQuality}

\* Options: every combination of the policy options, the hardware modes with
\* and without a module, and the three ways to an environment.
AllConfigs == Config
OneFault == {GoodQuality,
             [GoodQuality EXCEPT !.sig = "bad"],
             [GoodQuality EXCEPT !.sig = "missing"],
             [GoodQuality EXCEPT !.full = FALSE],
             [GoodQuality EXCEPT !.dated = FALSE]}

\* Recovery: a hardware key is required, and the platform has one.
RecoveryConfigs == {Plain("required", TRUE)}

\* Identities are interchangeable; used by the runs that check no liveness.
Symmetry ==
    Permutations(Callers) \cup Permutations(Loops) \cup Permutations(Chans)
        \cup Permutations(Keys) \cup Permutations(PkgIds)
        \cup Permutations(HwKeys) \cup Permutations(Nonces)
================================================================================
