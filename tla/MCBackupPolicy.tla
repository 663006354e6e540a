---------------------------- MODULE MCBackupPolicy ----------------------------
(***************************************************************************)
(* Instances of BackupPolicy: three minutes, of which the second has the   *)
(* local time of the first, as when clocks are set back, and the third is  *)
(* the same time on the next day.                                          *)
(***************************************************************************)
EXTENDS BackupPolicy

MCLocalDay == [z \in {"Warsaw"} |-> [t \in 0..2 |-> IF t < 2 THEN 1 ELSE 2]]
MCLocalTime == [z \in {"Warsaw"} |-> [t \in 0..2 |-> 2]]

Input(auto, mode, time, day) ==
    [automaticOnInvoiceIssued |-> auto, scheduleMode |-> mode, scheduleTime |-> time,
     scheduleDayOfWeek |-> day, scheduleTimezone |-> Undefined]

Policy(auto, mode, time, day) ==
    [automaticOnInvoiceIssued |-> auto, scheduleMode |-> mode, scheduleTime |-> time,
     scheduleDayOfWeek |-> day, scheduleTimezone |-> "Warsaw"]

\* A daily and a weekly schedule, the latter for the second day.
MCSchedules == {Policy(FALSE, "DAILY", 2, Null), Policy(TRUE, "WEEKLY", 2, 2)}
MCUnset == {DEFAULT_POLICY("Warsaw")}
MCNoInputs == {}

\* What the form sends for a daily schedule and for none, and updates that
\* leave fields out: a weekly schedule at the time there was, an unknown zone.
MCInputs ==
    {FormInput(Policy(FALSE, "DAILY", 2, Null)), FormInput(Policy(TRUE, "MANUAL", 2, Null)),
     [Input(Undefined, "WEEKLY", Undefined, 2) EXCEPT !.scheduleTimezone = "Warsaw"],
     [Input(Undefined, Undefined, Undefined, Undefined) EXCEPT !.scheduleTimezone = "unknown"]}
=============================================================================
