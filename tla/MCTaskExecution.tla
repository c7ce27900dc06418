--------------------------- MODULE MCTaskExecution ---------------------------
(* Two tasks read the same file; the first also reads one that is copied to one of the       *)
(* locations the job gives; the second writes two files; the third has none.                  *)
EXTENDS TaskExecution, HostUtilization

CONSTANTS t1, t2, t3, in, both, out, more, l1, l2, l3, c1

MCInputs == (t1 :> <<both, in>>) @@ (t2 :> <<in>>) @@ (t3 :> <<>>)
MCOutputs == (t1 :> <<>>) @@ (t2 :> <<out, more>>) @@ (t3 :> <<>>)
MCFileLocations ==
    (in :> <<l1>>) @@ (both :> <<l3, l2>>) @@ (out :> <<l1>>) @@ (more :> <<l1>>)
MCStaged == {<<in, l1>>, <<both, l1>>}
MCCopyOf == [c \in Copiers |-> <<both, l1, l2>>]

-------------------------------------------------------------------------------
(* The operators of Timestamps and HostUtilization on small inputs *)

Samples(n) ==
    {[i \in 1 .. n |-> [date |-> i, value |-> v[i]]] : v \in [1 .. n -> 1 .. 2]}

\* Merging keeps the first and the last sample of every run of equal ones.
ASSUME MergingKeepsRuns ==
    \A n \in 0 .. 7 : \A s \in Samples(n) : MergedSamples(s) = EndsOfRuns(s)

\* Four executions on a host of 3 cores, one on another host, and how they may be placed.
Executions ==
    LET Some(n) == {[host |-> h, cores |-> c, hostCores |-> 3, start |-> b, end |-> b + n] :
                      h \in {1}, c \in 1 .. 2, b \in 0 .. 2}
    IN {<<[host |-> 2, cores |-> 3, hostCores |-> 3, start |-> 0, end |-> 4]>> \o s :
          s \in Some(1) \X Some(2) \X Some(2) \X Some(1)}

\* A layout that is found is one, and one is found if there is any.
ASSUME LayoutsAreFound ==
    \A d \in Executions :
      LET found == SearchForLayout(d, 1, <<>>, 0)
          positions == {0} \X (0 .. 2) \X (0 .. 2) \X (0 .. 2) \X (0 .. 2)
      IN IF found = NoLayout THEN \A p \in positions : ~IsLayout(d, p)
         ELSE IsLayout(d, found)

\* A thing metered is measured at every multiple of its own period until the meter is asked
\* to stop, and at no other date (EnergyMeterService::main, BandwidthMeterService::main).
ASSUME MetersKeepTheirPeriods ==
    \A things \in {{1}, {1, 2}, {1, 2, 3}}, stop \in 0 .. 9 :
      \A periods \in [things -> 1 .. 4] :
        Measures(periods, stop, 12) =
          {<<h, d>> \in things \X (0 .. stop) : d % periods[h] = 0}
===============================================================================
