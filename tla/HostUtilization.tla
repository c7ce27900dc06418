---------------------------- MODULE HostUtilization ----------------------------
(***************************************************************************)
(* What SimulationOutput writes of the executions of tasks: an instance    *)
(* for each execution in the history of each task, with the reads and the  *)
(* writes of the task, and a layout, which gives each instance a first     *)
(* core on its host, so that no two that overlap in time share a core.     *)
(*                                                                         *)
(* An instance is a record with its host and number of cores, the cores of *)
(* the host, and its start and end.                                        *)
(*                                                                         *)
(* And the meters of the energy of hosts and the bandwidth of links        *)
(* (EnergyMeterService.cpp, BandwidthMeterService.cpp, the same code): each*)
(* thing metered has a period and the time left to its next measure. Dates *)
(* are integers; a meter is asked to stop at a date, or never.             *)
(***************************************************************************)
EXTENDS Integers, SequencesExt, FiniteSetsExt

\* The instances of a task with this history, the last execution first. The reads and writes
\* are those of the task, in each of them.
Instances(task, history, reads, writes) ==
    [i \in 1 .. Len(history) |->
       [task |-> task, execution |-> history[Len(history) + 1 - i],
        reads |-> SelectSeq(reads, LAMBDA r : r.task = task),
        writes |-> SelectSeq(writes, LAMBDA w : w.task = task)]]

PointOnSegment(s, p) ==
    LET least == IF s[1] < s[2] THEN s[1] ELSE s[2]
        greatest == IF s[1] < s[2] THEN s[2] ELSE s[1]
    IN p <= greatest /\ p >= least

Touch(s, u) ==
    \/ PointOnSegment(s, u[1]) \/ PointOnSegment(s, u[2])
    \/ PointOnSegment(u, s[1]) \/ PointOnSegment(u, s[2])

\* In time, an overlap of `epsilon` does not count; the differences are unsigned.
OverlapInTime(s, u, epsilon) ==
    /\ ~(s[2] >= u[1] /\ s[2] - u[1] <= epsilon)
    /\ ~(u[2] >= s[1] /\ u[2] - s[1] <= epsilon)
    /\ Touch(s, u)

OverlapInCores(s, u) == s[2] # u[1] /\ u[2] # s[1] /\ Touch(s, u)

\* May d[i] begin at core v, after those before it in the sequence?
Fits(d, i, v, placed, epsilon) ==
    \A j \in 1 .. i - 1 :
      ~(/\ d[j].host = d[i].host
        /\ OverlapInTime(<<d[i].start, d[i].end>>, <<d[j].start, d[j].end>>, epsilon)
        /\ OverlapInCores(<<v, v + d[i].cores>>, <<placed[j], placed[j] + d[j].cores>>))

\* searchForLayout(): the first place of d[i] that leaves places for the rest.
NoLayout == <<>>
RECURSIVE SearchForLayout(_, _, _, _)
SearchForLayout(d, i, placed, epsilon) ==
    LET Rest(v) == IF i = Len(d) THEN Append(placed, v)
                   ELSE SearchForLayout(d, i + 1, Append(placed, v), epsilon)
        good == {v \in 0 .. d[i].hostCores - d[i].cores :
                   Fits(d, i, v, placed, epsilon) /\ Rest(v) # NoLayout}
    IN IF good = {} THEN NoLayout ELSE Rest(Min(good))

\* What a layout is for: two instances that run at once on a host do not share a core.
IsLayout(d, placed) ==
    \A i, j \in DOMAIN d :
      /\ placed[i] + d[i].cores <= d[i].hostCores
      /\ i # j /\ d[i].host = d[j].host /\ d[i].start < d[j].end /\ d[j].start < d[i].end =>
           placed[i] + d[i].cores <= placed[j] \/ placed[j] + d[j].cores <= placed[i]

-------------------------------------------------------------------------------
(* Meters *)

(* least: 1 second for hosts, 0.01 for links.                                *)
ValidPeriods(periods, least) == DOMAIN periods # {} /\ \A h \in DOMAIN periods : periods[h] >= least

NewMeter(periods) == [periods |-> periods, left |-> [h \in DOMAIN periods |-> 0], date |-> 0]

TimeToNextMeasure(m) == Min({m.left[h] : h \in DOMAIN m.left})

(* What is due when a time has passed is measured, and has its period again. *)
Due(m, elapsed) == {h \in DOMAIN m.left : m.left[h] <= elapsed}
AfterTime(m, elapsed) ==
  [m EXCEPT !.left = [h \in DOMAIN m.left |->
                        IF h \in Due(m, elapsed) THEN m.periods[h] ELSE m.left[h] - elapsed],
            !.date = @ + elapsed]

(* Rounds of main() until a stop message arrives: the measures, as pairs of  *)
(* a thing and a date. A message is only looked for when there is time left. *)
Measures(periods, stop, rounds) ==
  LET wait(m) == TimeToNextMeasure(m)
      run[n \in 0 .. rounds] ==
        IF n = 0 THEN [meter |-> NewMeter(periods), taken |-> {}, stopped |-> FALSE]
        ELSE LET r == run[n - 1]
                 m == r.meter
             IN IF r.stopped \/ (wait(m) > 0 /\ stop < m.date + wait(m))
                  THEN [r EXCEPT !.stopped = TRUE]
                ELSE [r EXCEPT !.meter = AfterTime(m, wait(m)),
                               !.taken = @ \cup {<<h, m.date + wait(m)>> : h \in Due(m, wait(m))}]
  IN run[rounds].taken
===============================================================================
