--------------------------- MODULE HrworksPeriods ---------------------------
(* The months that a run of the HRworks collector covers (hrworks/periods.py), a    *)
(* date being a triple year, month, day.  One step computes the windows of a run    *)
(* from its arguments.                                                             *)
EXTENDS Integers, Sequences, SequencesExt

CONSTANTS Dates,     \* days on which a run starts
          Backs,     \* settings incremental_months_back
          Forecasts, \* settings incremental_forecast_months
          FullYears, \* 2024 and 2025
          Forecast,  \* HRWORKS_FORECAST_MONTHS
          Longest    \* bound on the months of one range

VARIABLES today, mode, back, ahead,
          windows    \* sequence of month starts, empty before the step

vars == <<today, mode, back, ahead, windows>>

FirstDay(date) == [date EXCEPT ![3] = 1]
NextMonth(date) == IF date[2] = 12 THEN <<date[1] + 1, 1, 1>> ELSE <<date[1], date[2] + 1, 1>>
PreviousMonth(date) == IF date[2] = 1 THEN <<date[1] - 1, 12, 1>> ELSE <<date[1], date[2] - 1, 1>>

Precedes(a, b) == \/ a[1] < b[1]
                  \/ a[1] = b[1] /\ a[2] < b[2]
                  \/ a[1] = b[1] /\ a[2] = b[2] /\ a[3] < b[3]

(* n steps over the calendar, forward or back. *)
Moved(start, n, Step(_)) ==
  LET at[k \in 0..n] == IF k = 0 THEN start ELSE Step(at[k - 1]) IN at[n]
NotNegative(n) == IF n < 0 THEN 0 ELSE n
ShiftMonthStart(start, delta) == IF delta < 0 THEN Moved(start, -delta, PreviousMonth)
                                 ELSE Moved(start, delta, NextMonth)

(* The months from a date on, until the first one past the end. *)
IterMonthWindows(start, end) ==
  IF Precedes(end, start) THEN <<>>
  ELSE LET Cursor(k) == Moved(FirstDay(start), k, NextMonth)
       IN  [k \in 1..Min({n \in 0..Longest : Precedes(FirstDay(end), Cursor(n))}) |-> Cursor(k - 1)]

IncrementalWindows ==
  IterMonthWindows(ShiftMonthStart(FirstDay(today), -NotNegative(back)),
                   ShiftMonthStart(FirstDay(today), NotNegative(ahead)))

(* Two full years, then the current year and the forecast, without the months that  *)
(* are there already.                                                              *)
Add(done, window) == IF Contains(done, window) THEN done ELSE Append(done, window)
AppendRange(done, start, end) ==
  LET new == IterMonthWindows(start, end)
      seen[n \in 0..Len(new)] == IF n = 0 THEN done ELSE Add(seen[n - 1], new[n])
  IN  seen[Len(new)]
DefaultWindows ==
  LET full[n \in 0..Len(FullYears)] ==
        IF n = 0 THEN <<>> ELSE AppendRange(full[n - 1], <<FullYears[n], 1, 1>>, <<FullYears[n], 12, 1>>)
  IN  AppendRange(full[Len(FullYears)], <<today[1], 1, 1>>, Moved(FirstDay(today), Forecast, NextMonth))

Init == /\ today \in Dates
        /\ mode \in {"incremental", "default"}
        /\ back \in Backs
        /\ ahead \in Forecasts
        /\ windows = <<>>

ResolveSyncMonths == /\ windows = <<>>
                     /\ windows' = IF mode = "incremental" THEN IncrementalWindows
                                   ELSE DefaultWindows
                     /\ UNCHANGED <<today, mode, back, ahead>>

Next == ResolveSyncMonths
Spec == Init /\ [][Next]_vars
-----------------------------------------------------------------------------
Number(date) == 12 * date[1] + date[2]
Wanted == IF mode = "incremental"
          THEN Number(today) - NotNegative(back)..Number(today) + NotNegative(ahead)
          ELSE (UNION {Number(<<FullYears[i], 1, 1>>)..Number(<<FullYears[i], 12, 1>>) :
                         i \in DOMAIN FullYears})
               \cup Number(<<today[1], 1, 1>>)..Number(today) + Forecast

(* Over the turn of the year and for settings below zero, a run covers exactly the  *)
(* months asked for, each once, from their first day.                               *)
WindowsAreTheMonths ==
  windows # <<>> => /\ {Number(windows[i]) : i \in DOMAIN windows} = Wanted
                    /\ IsInjective(windows)
                    /\ \A i \in DOMAIN windows : windows[i] = FirstDay(windows[i])
=============================================================================
