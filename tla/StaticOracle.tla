----------------------------- MODULE StaticOracle -----------------------------
(***************************************************************************)
(* StaticOraclePolicy.initialize() (oracle_static/policy.py): the clock a  *)
(* static oracle takes from an offline sweep of its workload.  A profile   *)
(* is a sequence of points [freq, ratio, power], the ratio in percent of   *)
(* the performance at the maximum clock.                                   *)
(***************************************************************************)
EXTENDS PerformanceTarget, ClockGrid, Sequences

CONSTANTS NoPower,          \* Python's None for a power, which sorts last
          PaperFloor        \* PAPER_FREQUENCY_FLOOR_MHZ, in units of the clocks

ASSUME StaticOracleAssumption == NoPower \notin Int /\ PaperFloor \in Nat

Points == [freq : Int, ratio : Int, power : Int \cup {NoPower}]

-----------------------------------------------------------------------------
(* _select_static_oracle_point() over the points with an index in I.       *)

BugMeets(point, target) == TRUE     \* seeded bug: the target is not compared

Meets(point, target) == point.ratio * target[2] >= target[1] * 100

CheaperPower(a, b) == a.power # NoPower /\ (b.power = NoPower \/ a.power < b.power)

Lower(a, b) == a.freq < b.freq \/ (a.freq = b.freq /\ CheaperPower(a, b))

Faster(a, b) == a.ratio > b.ratio \/ (a.ratio = b.ratio /\ a.freq > b.freq)

(* Python's min() and max() return the first of several best ones.         *)
LowestPoint(s, I) ==
    CHOOSE i \in I : \A j \in I : ~Lower(s[j], s[i]) /\ (j < i => Lower(s[i], s[j]))

FastestPoint(s, I) ==
    CHOOSE i \in I : \A j \in I : ~Faster(s[j], s[i]) /\ (j < i => Faster(s[i], s[j]))

MeetingPoints(s, I, target) == {i \in I : Meets(s[i], target)}

SelectPoint(s, I, target) ==
    LET valid == MeetingPoints(s, I, target)
    IN  IF valid # {} THEN LowestPoint(s, valid) ELSE FastestPoint(s, I)

-----------------------------------------------------------------------------
(* A config is [profiles, allow, enforce]: the profiles it has, by kind,   *)
(* allow_proxy_profile and enforce_paper_frequency_floor.                  *)

ProfileKinds == {"workload", "default", "profile"}

IsOracleConfig(c) ==
    /\ DOMAIN c.profiles \subseteq ProfileKinds
    /\ \A k \in DOMAIN c.profiles : c.profiles[k] \in Seq(Points)
    /\ c.allow \in BOOLEAN /\ c.enforce \in BOOLEAN

(* _load_profile_for_workload(): the proxies only when they are allowed.   *)
Provenance(c) ==
    IF "workload" \in DOMAIN c.profiles THEN "workload"
    ELSE IF ~c.allow THEN "missing"
    ELSE IF "default" \in DOMAIN c.profiles THEN "default"
    ELSE IF "profile" \in DOMAIN c.profiles THEN "profile"
    ELSE "missing"

Profile(c) == c.profiles[Provenance(c)]

EffectiveFloor(c, p) ==
    IF c.enforce /\ p.max >= PaperFloor /\ p.min < PaperFloor THEN PaperFloor ELSE p.min

InDomain(c, p) == {i \in DOMAIN Profile(c) : Profile(c)[i].freq >= EffectiveFloor(c, p)}

OraclePoint(c, p, t) ==
    Profile(c)[SelectPoint(Profile(c), InDomain(c, p), MinimumRatio(t))]

(* initialize() does not raise.                                            *)
OracleAccepts(c, p, t) ==
    /\ HasTarget(t)
    /\ Provenance(c) # "missing"
    /\ InDomain(c, p) # {}
    /\ Provenance(c) = "workload" =>
         MeetingPoints(Profile(c), InDomain(c, p), MinimumRatio(t)) # {}

(* The point is clamped to the platform's range after it was chosen.       *)
OracleClock(c, p, t) == Clamp(OraclePoint(c, p, t).freq, p.min, p.max)
=============================================================================
