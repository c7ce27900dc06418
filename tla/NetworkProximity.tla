-------------------------- MODULE NetworkProximity --------------------------
(***************************************************************************)
(* The network proximity service (NetworkProximityService.cpp) and its     *)
(* daemons, one per monitored host (NetworkProximityDaemon.cpp).  A daemon *)
(* asks the service for a peer, sends it a message, which takes as long as *)
(* the hosts are distant, and reports that time; the service keeps it, and *)
(* in a Vivaldi service moves the sender in a plane.                       *)
(*                                                                         *)
(* Dates are integers, the noise added to the period is 0 unless stated,   *)
(* and coordinates are integers, scaled by 4 by an update so that its      *)
(* factor of a quarter stays exact.  A distance in the plane is given by   *)
(* its square.                                                             *)
(***************************************************************************)
EXTENDS Integers, FiniteSets, Sequences

NotAvailable == -1
Nobody == "nobody"

-----------------------------------------------------------------------------
(* The service. *)

(* The properties a service refuses; a coverage is a number of hundredths.   *)
ValidProperties(p) ==
  /\ p.type \in {"alltoall", "vivaldi"}
  /\ p.type = "alltoall" => p.coverage = 100
  /\ p.coverage > 0 /\ p.coverage <= 100
  /\ p.overhead >= 0 /\ p.size >= 0 /\ p.period > 0 /\ p.noise >= 0

(* A service monitors at least two hosts; nobody checks that they differ.    *)
ValidHosts(hosts) == Len(hosts) >= 2

(* The first coordinates of the hosts of a Vivaldi service.                  *)
Start(type, hosts, date) ==
  [h \in IF type = "vivaldi" THEN hosts ELSE {} |-> [x |-> 0, y |-> 0, date |-> date]]

(* A measure is kept for the pair in the order sender, peer.                 *)
AddEntryToDatabase(entries, pair, value, date) ==
  [p \in DOMAIN entries \cup {pair} |->
     IF p = pair THEN [value |-> value, date |-> date] ELSE entries[p]]

SquaredDistance(p, q) == (p.x - q.x) * (p.x - q.x) + (p.y - q.y) * (p.y - q.y)

(* The answer to a lookup: a distance (squared for Vivaldi) and its date.    *)
Lookup(type, pair, entries, coordinates, date) ==
  LET from == pair[1]
      to == pair[2]
  IN CASE from = to -> [value |-> 0, date |-> date]
       [] from # to /\ type = "vivaldi" /\ {from, to} \subseteq DOMAIN coordinates ->
            LET p == coordinates[from]
                q == coordinates[to]
            IN [value |-> SquaredDistance(p, q),
                date |-> IF p.date <= q.date THEN p.date ELSE q.date]
       [] from # to /\ type = "alltoall" /\ pair \in DOMAIN entries -> entries[pair]
       [] OTHER -> [value |-> NotAvailable, date |-> NotAvailable]

(* A host the service does not know is answered with the origin, and without *)
(* success, which the caller does not look at.                               *)
GetHostCoordinate(host, coordinates) ==
  IF host \in DOMAIN coordinates THEN coordinates[host] ELSE [x |-> 0, y |-> 0, date |-> 0]

(* The distribution a peer is drawn with is static: its bound is the size of *)
(* the pool of the first request of the simulation, whatever service made    *)
(* it.  `order` is the shuffled list of the other daemons, which is always   *)
(* the same for one daemon.                                                  *)
PoolSize(coverage, others) == (coverage * others + 99) \div 100

Peers(order, firstPool) == {order[i] : i \in 1..firstPool \cap DOMAIN order}

(* at() throws for an index beyond the list, which ends the simulation.      *)
DrawMayThrow(order, firstPool) == firstPool > Len(order)

(* The move of a sender: the difference of the positions, times the error,   *)
(* times the complex number (1 + i) / 4, here times 4.                       *)
Move(sender, peer, distance, measured) ==
  LET error == measured - distance
      x == (sender.x - peer.x) * error
      y == (sender.y - peer.y) * error
  IN [x |-> x - y, y |-> x + y]

VivaldiUpdate(sender, peer, distance, measured, date) ==
  LET move == Move(sender, peer, distance, measured)
  IN [x |-> 4 * sender.x + move.x, y |-> 4 * sender.y + move.y, date |-> date]

-----------------------------------------------------------------------------
(* A daemon: the date of its next measurement and the peer it has been given *)
(* for it.                                                                   *)

NewDaemon(date, period) == [due |-> date + period, next |-> Nobody]

(* The answer to a request for a peer; a message of another daemon, or the   *)
(* lack of one, changes nothing.                                             *)
ProcessNextMessage(d, message, peer) ==
  IF message = "NextContactDaemonAnswer" THEN [d EXCEPT !.next = peer] ELSE d

(* What a daemon does at the date of its measurement.  A measurement forgets *)
(* the peer and asks for no other one: that is left to the next date.        *)
Measures(d, up) == d.next # Nobody /\ d.next \in up

AfterDate(d, up, took, period) ==
  IF Measures(d, up) THEN [due |-> d.due + took + period, next |-> Nobody]
  ELSE [d EXCEPT !.due = d.due + period]

(* The dates of the first n measurements of a daemon whose requests are      *)
(* always answered before the next date, with a peer that is up.             *)
MeasurementDates(period, n) ==
  LET D[i \in 0..2 * n] ==
        IF i = 0 THEN [d |-> ProcessNextMessage(NewDaemon(0, period),
                                                "NextContactDaemonAnswer", "peer"),
                       dates |-> {}]
        ELSE LET d == D[i - 1].d
                 after == AfterDate(d, {"peer"}, 0, period)
             IN IF Measures(d, {"peer"})
                THEN [d |-> after, dates |-> D[i - 1].dates \cup {d.due}]
                ELSE [d |-> ProcessNextMessage(after, "NextContactDaemonAnswer", "peer"),
                      dates |-> D[i - 1].dates]
  IN D[2 * n].dates

=============================================================================
