------------------------------ MODULE EnergyUcb ------------------------------
(***************************************************************************)
(* The algorithm core of EnergyUCB (energyucb_reimpl/core.py): rewards,    *)
(* empirical means, switching-aware indices, the feasible set, and the     *)
(* choice of an arm, in a session of calls of them: no control loop is     *)
(* built on the core yet, so they come in any order and with any           *)
(* arguments.  Real numbers are fractions <<a, b>> with b > 0.  An arm is  *)
(* a state [mean, pulls].  The tuples of arms are in the caller's order,   *)
(* so the set of their arms stands for them.                               *)
(***************************************************************************)
EXTENDS Integers, Sequences, SequencesExt

CONSTANTS Bonus(_, _),      \* alpha * sqrt(ln(t) / n), rounded to an integer
          Arms, MaxArm,     \* the arms, and the one of f_max
          Orders,           \* orders a caller may give the arms
          Means,            \* optimistic initial means
          Observations,     \* what may be measured of one step
          Progresses,       \* estimated progress, by arm
          Budgets,          \* relative performance loss budgets
          Times, Penalties, \* time steps and switching penalties
          MaxPulls          \* bound: rewards of one arm

IsFraction(f) == f \in Int \X Nat /\ f[2] > 0

ASSUME EnergyUcbAssumption ==
    /\ MaxArm \in Arms
    /\ \A order \in Orders : /\ order \in Seq(Arms) /\ ToSet(order) = Arms
                             /\ \A i, j \in DOMAIN order : order[i] = order[j] => i = j
    /\ \A f \in Means \cup Budgets : IsFraction(f)
    /\ \A o \in Observations : o.energy \in Nat /\ o.core \in Nat /\ o.uncore \in Nat
    /\ \A p \in Progresses : p \in [Arms -> Nat]
    /\ \A b \in Budgets : 0 <= b[1] /\ b[1] < b[2]
    /\ Times \subseteq Nat \ {0} /\ Penalties \subseteq Nat
    /\ MaxPulls \in Nat \ {0}
    /\ \A t \in Times, n \in 1 .. MaxPulls : Bonus(t, n) \in Nat

VARIABLES order, initial,   \* the caller's order, the optimistic mean
          arms,             \* the states of the arms
          total,            \* history: the sum of the rewards of each arm
          choice            \* the last choice since the last reward, in a set

session == <<order, initial, arms, total, choice>>

Plus(f, g) == <<f[1] * g[2] + g[1] * f[2], f[2] * g[2]>>

-----------------------------------------------------------------------------
(* Rewards and means.                                                      *)

(* energy_progress_reward(); no reward is defined without uncore activity. *)
Measured(o) == o.uncore > 0

Reward(o) == <<-(o.energy * o.core), o.uncore>>

(* initialize_optimistic_arm_states() *)
OptimisticArms(mean) == [a \in Arms |-> [mean |-> mean, pulls |-> 0]]

BugUpdateMean(arm, r) ==    \* seeded bug: the optimistic mean counts as a pull
    LET n   == arm.pulls + 2
        num == arm.mean[1]
        den == arm.mean[2]
    IN  [mean  |-> <<num * r[2] * n + (r[1] * den - num * r[2]), den * r[2] * n>>,
         pulls |-> arm.pulls + 1]

(* update_empirical_mean(): n <- n + 1, mean <- mean + (r - mean) / n.     *)
UpdateMean(arm, r) ==
    LET n   == arm.pulls + 1
        num == arm.mean[1]
        den == arm.mean[2]
    IN  [mean |-> <<num * r[2] * n + (r[1] * den - num * r[2]), den * r[2] * n>>, pulls |-> n]

-----------------------------------------------------------------------------
(* Indices.                                                                *)

StandardIndex(arm, t) ==
    LET bonus == Bonus(t, IF arm.pulls = 0 THEN 1 ELSE arm.pulls)
    IN  <<arm.mean[1] + bonus * arm.mean[2], arm.mean[2]>>

BugSwitchingIndex(arm, t, penalty, candidate, previous) ==  \* seeded bug: free switches
    StandardIndex(arm, t)

SwitchingIndex(arm, t, penalty, candidate, previous) ==
    LET index == StandardIndex(arm, t)
    IN  IF candidate = previous THEN index ELSE <<index[1] - penalty * index[2], index[2]>>

Greater(f, g) == f[1] * g[2] > g[1] * f[2]

(* deterministic_argmax(): a later arm needs a strictly higher score.      *)
(* best[n] is the place of the best of the first n arms, 0 for none.       *)
DeterministicArgmax(sequence, among, scores) ==
    LET best[n \in 0 .. Len(sequence)] ==
            IF n = 0 THEN 0
            ELSE IF /\ sequence[n] \in among
                    /\ \/ best[n - 1] = 0
                       \/ Greater(scores[sequence[n]], scores[sequence[best[n - 1]]])
                 THEN n ELSE best[n - 1]
    IN  sequence[best[Len(sequence)]]

-----------------------------------------------------------------------------
(* qos_feasible_arm_ids(): those with 1 - p / p_max <= budget.  Without    *)
(* progress at the maximum frequency there is no such quantity.            *)
FeasibleArms(progress, budget) ==
    {a \in Arms : (progress[MaxArm] - progress[a]) * budget[2] <= budget[1] * progress[MaxArm]}

-----------------------------------------------------------------------------
InitSession ==
    /\ order \in Orders /\ initial \in Means
    /\ arms = OptimisticArms(initial)
    /\ total = [a \in Arms |-> <<0, 1>>]
    /\ choice = {}

(* A reward is computed, and the mean of the arm that was pulled updated.  *)
Learn(a, o) ==
    /\ Measured(o) /\ arms[a].pulls < MaxPulls
    /\ arms' = [arms EXCEPT ![a] = UpdateMean(arms[a], Reward(o))]
    /\ total' = [total EXCEPT ![a] = Plus(total[a], Reward(o))]
    /\ choice' = {}
    /\ UNCHANGED <<order, initial>>

(* An arm is chosen among those the budget allows.                         *)
Choose(time, previous, penalty, progress, budget) ==
    /\ progress[MaxArm] > 0
    /\ LET feasible == FeasibleArms(progress, budget)
           scores   == [a \in Arms |-> SwitchingIndex(arms[a], time, penalty, a, previous)]
       IN  choice' = {[time |-> time, previous |-> previous, penalty |-> penalty,
                       progress |-> progress, budget |-> budget, feasible |-> feasible,
                       chosen |-> DeterministicArgmax(order, feasible, scores)]}
    /\ UNCHANGED <<order, initial, arms, total>>

(* A choice leaves the arms alone: a second one before the next reward     *)
(* would be the first choice of another session.                           *)
NextCall ==
    \/ \E a \in Arms, o \in Observations : Learn(a, o)
    \/ /\ choice = {}
       /\ \E t \in Times, a \in Arms, c \in Penalties, p \in Progresses, b \in Budgets :
             Choose(t, a, c, p, b)

SessionSpec == InitSession /\ [][NextCall]_session

-----------------------------------------------------------------------------
(* The running mean of an arm is the sum of its rewards by their number,   *)
(* in which the optimistic initial mean has no part once there is one; an  *)
(* arm without a reward still has that mean.                               *)
MeansAreEmpirical ==
    \A a \in Arms :
        LET arm == arms[a]
        IN  IF arm.pulls = 0 THEN arm.mean = initial /\ total[a] = <<0, 1>>
            ELSE arm.mean[1] * arm.pulls * total[a][2] = total[a][1] * arm.mean[2]

Place(a) == CHOOSE i \in DOMAIN order : order[i] = a

(* The arm of f_max may always be chosen, and a chosen arm loses no more   *)
(* performance than the budget.  The arm of the last step is left only for *)
(* one whose index is better by at least the penalty, by more than that    *)
(* for one later in the order, or because it may not be chosen any more.   *)
SwitchPays ==
    \A c \in choice :
        LET index == [a \in Arms |-> StandardIndex(arms[a], c.time)]
            old   == index[c.previous]
            gain  == Plus(index[c.chosen], <<-old[1], old[2]>>)
        IN  /\ {MaxArm, c.chosen} \subseteq c.feasible
            /\ c.progress[c.chosen] * c.budget[2]
                  >= (c.budget[2] - c.budget[1]) * c.progress[MaxArm]
            /\ c.previous \in c.feasible \ {c.chosen} =>
                 /\ gain[1] >= c.penalty * gain[2]
                 /\ Place(c.chosen) > Place(c.previous) => gain[1] > c.penalty * gain[2]
=============================================================================
