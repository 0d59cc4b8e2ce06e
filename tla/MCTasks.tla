------------------------------ MODULE MCTasks ------------------------------
(***************************************************************************)
(* Instances of Tasks for TLC.                                             *)
(***************************************************************************)
EXTENDS Tasks, TLC

TwoTasks == {"nightly", "boot"}
TwoKinds == "nightly" :> "scheduled" @@ "boot" :> "event"

Day(n) == [day |-> n, lower |-> TRUE]
Schedule(frequency, days, weeks, until) ==
    [frequency |-> frequency, days |-> days, weeks |-> weeks, hour |-> 3, minute |-> 0,
     everyHours |-> 0, everyMinutes |-> 30, until |-> until]
Nightly == Schedule("daily", {}, {}, Unset)
Weekly == Schedule("weekly", {Day(0), Day(6)}, {}, 5)
Monthly == Schedule("monthly", {Day(0)}, {"first", "last"}, Unset)

\* A task of root that is changed and then destroyed.
OfRoot == <<
    "nightly" :> Setting("backup", "root", "c1", Weekly, TRUE) @@ "boot" :> Gone,
    "nightly" :> Setting("backup", "root", "c2", Monthly, TRUE) @@ "boot" :> Gone,
    "nightly" :> Gone @@ "boot" :> Gone >>

\* An event task that is changed, given to another account, and destroyed.
OnBoot == <<
    "nightly" :> Gone @@ "boot" :> Setting("mount", "root", "c1", OnEvent, TRUE),
    "nightly" :> Gone @@ "boot" :> Setting("mount", "root", "c2", OnEvent, TRUE),
    "nightly" :> Gone @@ "boot" :> Setting("mount", "ops", "c2", OnEvent, TRUE),
    "nightly" :> Gone @@ "boot" :> Gone >>

\* A scheduled task that is given to another account, and stays.
NewAccount == <<
    "nightly" :> Setting("backup", "root", "c1", Nightly, TRUE) @@ "boot" :> Gone,
    "nightly" :> Setting("backup", "ops", "c1", Monthly, TRUE) @@ "boot" :> Gone >>

\* A weekday spelled with a capital.
Capital == <<
    "nightly" :> Setting("backup", "root", "c1",
                         Schedule("weekly", {[day |-> 0, lower |-> FALSE]}, {}, 5), TRUE)
        @@ "boot" :> Gone >>

AllScenarios == {OfRoot, OnBoot, NewAccount, Capital}
=============================================================================
