---------------------------- MODULE MCDataMovement ----------------------------
(* One file on the first of three storage services. *)
EXTENDS DataMovement

Net == INSTANCE NetworkProximity

CONSTANTS d1, s1, s2, s3

MCStaged == {<<d1, s1>>}

-----------------------------------------------------------------------------
(* The proximity service, by which lookups in the registry are ordered.

   A daemon that has measured the distance to a peer asks for the next peer only at the
   date of the next measurement, which is lost: it measures every other period. *)
ASSUME EveryOtherPeriod ==
  \A period \in 1..3, n \in 1..4 :
    Net!MeasurementDates(period, n) = {(2 * i - 1) * period : i \in 1..n}

(* Distances are kept in the order of the measure: until both daemons have measured each
   other, a pair of hosts has a distance in one direction and none in the other.  In a
   plane the distance is the same both ways. *)
ASSUME DistancesHaveADirection ==
  LET measured == Net!AddEntryToDatabase(<<>>, <<"h1", "h2">>, 7, 3)
      plane == ("h1" :> [x |-> 3, y |-> 4, date |-> 5]) @@ ("h2" :> [x |-> 0, y |-> 0, date |-> 2])
      Both(type, e, c) == [p \in {<<"h1", "h2">>, <<"h2", "h1">>} |->
                             Net!Lookup(type, p, e, c, 9).value]
  IN /\ Both("alltoall", measured, <<>>) =
          (<<"h1", "h2">> :> 7) @@ (<<"h2", "h1">> :> Net!NotAvailable)
     /\ Both("vivaldi", <<>>, plane) = [p \in {<<"h1", "h2">>, <<"h2", "h1">>} |-> 25]
     /\ Net!Lookup("vivaldi", <<"h1", "h2">>, <<>>, plane, 9).date = 2

(* A measure moves its sender at an angle of 45 degrees to the line through the two hosts,
   and not along it: a host whose distance was underestimated moves as far sideways as
   away.  The measure that confirms the estimate moves nothing. *)
ASSUME MovesAreTurned ==
  \A x \in {-3, 3}, y \in {-4, 4}, measured \in 0..9 :
    LET sender == [x |-> x, y |-> y]
        move == Net!Move(sender, [x |-> 0, y |-> 0], 5, measured)
        along == move.x * x + move.y * y
        across == move.y * x - move.x * y
    IN along = across /\ (along = 0 <=> measured = 5) /\ (along > 0 <=> measured > 5)

(* A peer is drawn among as many daemons as the first service of the simulation drew
   from: the only service, or another one of the same size, reaches them all, a larger
   one leaves daemons out, and in a smaller one the draw may throw. *)
ASSUME PoolsAreShared ==
  \A first, others \in 1..4 :
    LET order == [i \in 1..others |-> i]
        pool == Net!PoolSize(100, first)
    IN /\ Net!Peers(order, pool) = 1..others <=> first >= others
       /\ Net!DrawMayThrow(order, pool) <=> first > others

(* A service without noise is valid; a host it does not know is at the origin; a
   new host is at the origin too, and its first measures move it. *)
ASSUME FirstCoordinates ==
  LET start == Net!Start("vivaldi", {1, 2}, 5)
  IN /\ Net!ValidProperties([type |-> "alltoall", coverage |-> 100, overhead |-> 0,
                             size |-> 1024, period |-> 60, noise |-> 0])
     /\ ~ Net!ValidHosts(<<1>>)
     /\ Net!GetHostCoordinate(3, start) = [Net!GetHostCoordinate(1, start) EXCEPT !.date = 0]
     /\ DOMAIN Net!Start("alltoall", {1, 2}, 5) = {}
     /\ Net!VivaldiUpdate([x |-> 4, y |-> 0], [x |-> 0, y |-> 0], 4, 8, 1) =
          [x |-> 32, y |-> 16, date |-> 1]
==================================================================================
