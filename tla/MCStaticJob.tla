----------------------------- MODULE MCStaticJob -----------------------------
(***************************************************************************)
(* A finite instance of StaticJob.  Clocks are in units of 30 MHz, so that *)
(* the paper's GV100 range is 17 .. 46 and the oracle's floor is 30.       *)
(***************************************************************************)
EXTENDS StaticJob

GV100 == [min |-> 17, max |-> 46, step |-> 10]     \* the maximum is off the grid
Small == [min |-> 8, max |-> 26, step |-> 9]       \* below the paper's floor
Tiny  == [min |-> 8, max |-> 14, step |-> 2]
Large == [min |-> 32, max |-> 50, step |-> 6]      \* above it

MCTargets == [type : {"runtime_slowdown"}, num : {1}, den : {9, 19}]
    \cup [type : {"relative_performance_loss"}, num : {1}, den : {10, 20}]
    \cup {[type |-> "none", num |-> 0, den |-> 1]}

Point(f, r, w) == [freq |-> f, ratio |-> r, power |-> w]

MCPoints == {Point(17, 89, NoPower), Point(26, 90, NoPower), Point(37, 95, NoPower),
             Point(37, 90, 2), Point(40, 90, 1), Point(46, 100, NoPower), Point(60, 96, NoPower)}

MCSweeps == UNION {[1 .. n -> MCPoints] : n \in 0 .. 2}
    \cup {<<Point(37, 95, NoPower), Point(37, 90, 2), Point(37, 95, 1)>>,
          <<Point(26, 90, NoPower), Point(37, 95, NoPower), Point(46, 100, NoPower)>>}

Sweeps ==
    {[profiles |-> f, allow |-> a, enforce |-> e] :
        f \in {[k \in {kind} |-> s] : kind \in {"workload", "profile"}, s \in MCSweeps}
              \cup {[k \in {"default", "profile"} |-> IF k = "default" THEN s ELSE <<>>] :
                        s \in MCSweeps},
        a \in BOOLEAN, e \in BOOLEAN}

Fits(fmaxes, lists, perfs) ==
    [objective : {"edp", "ed2p"}, mode : {"paper_faithful_gv100", "algorithmic_proxy"},
     fmax : fmaxes, freqs : lists, fp : {1}, dram : {1}, time : {4},
     power : [alpha : {1}, beta : {1}, gamma : {0, 1, 2}, constant : {-40, -16, 3}],
     perf : perfs]

(* Linear runtimes, rising and falling with the distance to f_max.         *)
WideConfigs == Fits({NoClock, 46, 40},
    {NoClock, <<>>, <<17, 27, 46>>, <<27, 17>>, <<17, 30, 37>>, <<17, 18>>},
    {<<0, 0, 0, 0, 0>>, <<1, 1, 0, 0, 0>>, <<0, -1, 1, 1, 0>>, <<0, -1, 0, 0, 0>>})

(* A runtime that is least away from f_max.                                *)
CurvedConfigs == Fits({NoClock, 13}, {NoClock, <<8, 12>>, <<9, 10, 13>>},
    {<<0, -6, 9, 0, 1>>, <<0, 0, 0, 0, 1>>})

NoConfig == [profiles |-> [k \in {} |-> <<>>], allow |-> FALSE, enforce |-> TRUE]

MCJobs ==
    [policy : {"oracle_static"}, platform : {GV100, Small, Large}, target : MCTargets,
     config : Sweeps]
    \cup [policy : {"ali_2022_reimpl"}, platform : {GV100, Small},
          target : {[type |-> "none", num |-> 0, den |-> 1]}, config : WideConfigs]
    \cup [policy : {"ali_2022_reimpl"}, platform : {Tiny},
          target : {[type |-> "none", num |-> 0, den |-> 1]}, config : CurvedConfigs]
    \cup [policy : {"max_freq", "min_freq"}, platform : {GV100, Small},
          target : {[type |-> "none", num |-> 0, den |-> 1]}, config : {NoConfig}]

MCEdits(policy) ==
    CASE policy = "oracle_static" ->
           {NoConfig, [profiles |-> [k \in {"profile"} |-> <<Point(46, 100, NoPower)>>],
                       allow |-> TRUE, enforce |-> TRUE]}
      [] policy = "ali_2022_reimpl" ->
           {[objective |-> "edp", mode |-> "algorithmic_proxy", fmax |-> NoClock,
             freqs |-> <<17, 27>>, fp |-> 1, dram |-> 1, time |-> 4,
             power |-> [alpha |-> 1, beta |-> 1, gamma |-> 1, constant |-> 1],
             perf |-> <<1, 1, 1, 1, 1>>]}
      [] OTHER -> {NoConfig}

MCRatios == {89, 93}
=============================================================================
