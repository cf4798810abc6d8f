------------------------------- MODULE Operations -------------------------------
(***************************************************************************)
(* What is kept and told about the equipment: faults and their repairs,    *)
(* the plan for a rack, reminders and the daily digest, the timeline of an *)
(* asset, its value.  They share no state that any of them depends on, so  *)
(* they are checked side by side: a behaviour is about one of them from    *)
(* its beginning, and the variables of the others are unused in it.        *)
(***************************************************************************)
EXTENDS Integers, TLC

CONSTANTS
    Studies,
    Workers, Assets, Faults, Normal, FirstStatus, MaxRequests,  \* RepairLifecycle
    MaxTotal, MaxHeight, MaxQuantity,                           \* RackPlanning
    Recipients, Runs, Hours, DigestDays, MaxStarts,             \* NotificationDigest
    Slots, Audiences, MaxDay, Windows, Limit, MaxEdits, NoDate, \* Alerts
    Centers, Departments, Nowhere, c1, c2, d1, MaxEvents,       \* Timeline
    MonthLength, Year, Unit, Amounts, Terms, Rates, Notice, MaxChanges \* Valuation

VARIABLES
    study,
    status, snapshot, archived, normal, faults, rounds, job, pc, seen, requests, want, held,
    total, height, quantity, start, followed, spans,
    clock, rows, saved, suppressed, at, day, todo, current, accepted, tries, starts,
    today, row, policy, edits,
    asset, count, log,
    date, configured, expiry, last, changes

repairVars == <<status, snapshot, archived, normal, faults, rounds, job, pc, seen, requests, want, held>>
planVars == <<total, height, quantity, start, followed, spans>>
digestVars == <<clock, rows, saved, suppressed, at, day, todo, current, accepted, tries, starts>>
alertVars == <<today, row, policy, edits>>
timelineVars == <<asset, count, log>>
valueVars == <<date, configured, expiry, last, changes>>
vars == <<study, repairVars, planVars, digestVars, alertVars, timelineVars, valueVars>>

-----------------------------------------------------------------------------
(* RepairLifecycle: two faults of one asset that open, close and go; the first   *)
(* with drafts, usages and several rounds; the asset is edited, retired, archived *)
(* and restored.                                                                  *)

Fault(kind, f) == [kind |-> kind, fault |-> f]
Record(f, finish) == [kind |-> "record", fault |-> f, finish |-> finish]
Edit(f, n, finish) == [kind |-> "edit", fault |-> f, round |-> n, finish |-> finish]
Round(kind, f, n) == [kind |-> kind, fault |-> f, round |-> n]
Asset(kind, a) == [kind |-> kind, asset |-> a]

SameAsset == 11 :> 1 @@ 12 :> 1
LifeRequests ==
    {Fault(k, 11) : k \in {"create", "delete", "touch"}} \cup {Fault(k, 12) : k \in {"create", "delete"}}
      \cup {Record(11, b) : b \in BOOLEAN} \cup {Record(12, TRUE)}
      \cup {Edit(11, n, b) : n \in 1..2, b \in BOOLEAN}
      \cup {Round(k, 11, n) : k \in {"drop", "reopen"}, n \in 1..2}
      \cup {Round("use", 11, n) : n \in 0..2}
      \cup {Asset(k, 1) : k \in {"archive", "restore", "retire"}}
      \cup {[kind |-> "status", asset |-> 1, to |-> "idle"]}

Repair == INSTANCE RepairLifecycle WITH AssetOf <- SameAsset, Requests <- LifeRequests

(* RackPlanning and NotificationDigest *)

Plan == INSTANCE RackPlanning WITH rows <- spans
Digest == INSTANCE NotificationDigest WITH LastDay <- DigestDays, pc <- at

(* Alerts: one or two rows of each kind, with primary keys that decide ties; a *)
(* user of one center who may not see the spare parts, and the company.        *)

Slot(kind, name, rank) == [kind |-> kind, name |-> name, rank |-> rank]
m1 == Slot("maintenance", 1, 22)
f1 == Slot("fault", 1, 31)
TheSlots ==
    {m1, Slot("maintenance", 2, 21), f1, Slot("fault", 2, 32), Slot("license", 1, 11), Slot("license", 2, 12),
     Slot("inventory", 1, 41), Slot("inventory", 2, 42), Slot("spare", 1, 51), Slot("spare", 2, 52)}
Kinds == {"maintenance", "license", "fault", "inventory", "spare"}
TheAudiences ==
    {[scope |-> TheSlots, may |-> Kinds, stock |-> TRUE],
     [scope |-> {m1, f1}, may |-> Kinds \ {"license"}, stock |-> FALSE]}

Reminders == INSTANCE Alerts WITH LastDay <- MaxDay

(* Timeline: readers with all scope, none, and rules that name centers,        *)
(* departments, all departments, the unlocated and the unowned.                *)

Rule(centers, depts, all) == [centers |-> centers, depts |-> depts, all |-> all]
Scoped(rules) == [global |-> FALSE, rules |-> rules]
TheReaders ==
    {[global |-> TRUE, rules |-> {}], Scoped({}),
     Scoped({Rule({c1}, {}, TRUE)}), Scoped({Rule({c1}, {Nowhere}, TRUE)}),
     Scoped({Rule({c1, c2}, {d1}, FALSE)}),
     Scoped({Rule({c1, Nowhere}, {d1}, FALSE), Rule({c2}, {Nowhere}, FALSE)}),
     Scoped({Rule({c1, c2, Nowhere}, {Nowhere}, TRUE)})}

History == INSTANCE Timeline WITH None <- Nowhere, Readers <- TheReaders

(* Valuation: months of 31, 28, 31 and 30 days, in small.                     *)

TheMonths == <<4, 2, 4, 3>>

Value == INSTANCE Valuation WITH
    Warning <- Notice, MaxEdits <- MaxChanges,
    today <- date, asset <- configured, edits <- changes

ASSUME OperationsConstants ==
    /\ Studies \subseteq {"repair", "plan", "digest", "alerts", "timeline", "value"}
    /\ Repair!RepairConstants /\ Repair!RepairRequests /\ Digest!DigestConstants
    /\ Reminders!AlertConstants /\ Value!ValueConstants
    /\ Nowhere \notin Centers \cup Departments \cup {1, 2}

-----------------------------------------------------------------------------
Unused == "unused"

NoRepair ==
    /\ status = Unused /\ snapshot = Unused /\ archived = Unused /\ normal = Unused
    /\ faults = Unused /\ rounds = Unused /\ job = Unused /\ pc = Unused /\ seen = Unused
    /\ requests = Unused /\ want = Unused /\ held = Unused
NoPlan ==
    /\ total = Unused /\ height = Unused /\ quantity = Unused /\ start = Unused
    /\ followed = Unused /\ spans = Unused
NoDigest ==
    /\ clock = Unused /\ rows = Unused /\ saved = Unused /\ suppressed = Unused /\ at = Unused
    /\ day = Unused /\ todo = Unused /\ current = Unused /\ accepted = Unused /\ tries = Unused
    /\ starts = Unused
NoAlerts == today = Unused /\ row = Unused /\ policy = Unused /\ edits = Unused
NoTimeline == asset = Unused /\ count = Unused /\ log = Unused
NoValue == date = Unused /\ configured = Unused /\ expiry = Unused /\ last = Unused /\ changes = Unused

Init ==
    /\ study \in Studies
    /\ IF study = "repair" THEN Repair!Init ELSE NoRepair
    /\ IF study = "plan" THEN Plan!Init ELSE NoPlan
    /\ IF study = "digest" THEN Digest!Init ELSE NoDigest
    /\ IF study = "alerts" THEN Reminders!Init ELSE NoAlerts
    /\ IF study = "timeline" THEN History!Init ELSE NoTimeline
    /\ IF study = "value" THEN Value!Init ELSE NoValue

RepairStep ==
    /\ study = "repair" /\ Repair!Next
    /\ UNCHANGED <<study, planVars, digestVars, alertVars, timelineVars, valueVars>>
PlanStep ==
    /\ study = "plan" /\ Plan!Next
    /\ UNCHANGED <<study, repairVars, digestVars, alertVars, timelineVars, valueVars>>
DigestStep ==
    /\ study = "digest" /\ Digest!Next
    /\ UNCHANGED <<study, repairVars, planVars, alertVars, timelineVars, valueVars>>
AlertStep ==
    /\ study = "alerts" /\ Reminders!Next
    /\ UNCHANGED <<study, repairVars, planVars, digestVars, timelineVars, valueVars>>
TimelineStep ==
    /\ study = "timeline" /\ History!Next
    /\ UNCHANGED <<study, repairVars, planVars, digestVars, alertVars, valueVars>>
ValueStep ==
    /\ study = "value" /\ Value!Next
    /\ UNCHANGED <<study, repairVars, planVars, digestVars, alertVars, timelineVars>>

Next == RepairStep \/ PlanStep \/ DigestStep \/ AlertStep \/ TimelineStep \/ ValueStep

Spec == Init /\ [][Next]_vars

-----------------------------------------------------------------------------
(* Properties; each is explained where the component states it. *)

\* RepairLifecycle: an asset is in repair exactly while one of its faults is open,
\* has its old status again afterwards, and a fault mirrors its rounds.
RepairsAgree == study = "repair" => Repair!RepairsAgree

\* RepairLifecycle: finished rounds and rounds that used parts are kept.
HistoryIsKept == [][study = "repair" => Repair!KeepsRounds]_vars

\* RepairLifecycle: no transactions wait for each other in a ring.
RepairsDoNotDeadlock == study = "repair" => Repair!RepairsDoNotDeadlock

\* RackPlanning: each device of a plan is a legal write when its turn comes, and
\* no order of legal writes gets more of them into the rack.
PlanIsBest == study = "plan" => Plan!PlanIsBest

\* NotificationDigest: nobody gets the digest of a day twice, whatever overlaps,
\* dies, is lost or restored.
AtMostOneDigest == study = "digest" => Digest!AtMostOneDigest

\* Alerts: nothing more urgent is left out than what is shown, and all is counted.
AlertsAreTrue == study = "alerts" => Reminders!AlertsAreTrue

\* Timeline: details are shown to whose scope holds all that the event was about.
DetailsFollowTheEvent == study = "timeline" => History!DetailsFollowTheEvent

\* Valuation: values fall month by month, are due in time, and their readings agree.
ValuesAreSteady == study = "value" => Value!ValuesAreSteady

Symmetry == Permutations(Workers) \cup Permutations(Recipients) \cup Permutations(Runs)
=============================================================================
