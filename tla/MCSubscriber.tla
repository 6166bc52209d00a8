----------------------------- MODULE MCSubscriber -----------------------------
(***************************************************************************)
(* Small instances of Subscriber.                                          *)
(***************************************************************************)
EXTENDS SubscriberInvariant

CONSTANTS k1, k2,       \* two karts
          pos, speed,   \* identifiers DBC.csv describes
          time          \* one it does not describe, or not always

\* A line of DBC.csv; its signals take the bytes in these places.
Line(c, big, places) ==
    [id |-> c, count |-> Len(places), big |-> big,
     start |-> [x \in Signal |-> IF x <= Len(places) THEN places[x][1] ELSE 0],
     stop |-> [x \in Signal |-> IF x <= Len(places) THEN places[x][2] ELSE 0]]

Position == Line(pos, TRUE, <<<<0, 0>>, <<1, 2>>>>)
Speed == Line(speed, FALSE, <<<<0, 1>>>>)
Time == Line(time, TRUE, <<<<0, 0>>>>)

\* The file as shipped: big-endian entries, a little-endian one, the closing
\* line.
Shipped == <<Position, Speed, NoEntry>>
OneFile == {Shipped}

\* A short file and a long one with other entries: an edit grows the file the
\* process has counted, or leaves old slots behind a shorter one.
Files == {<<Position, NoEntry>>, <<Time, Position, Speed, NoEntry>>}

Can(k, c, n) == [kart |-> k, topic |-> "can", frame |-> [id |-> c, len |-> n]]
Power(k) == [kart |-> k, topic |-> "power", frame |-> [id |-> None, len |-> 0]]

\* Whole frames and one cut short, a little-endian signal without and with a
\* byte behind it, an unknown identifier, an unparsable text.
AllTraffic == {Can(k1, pos, 3), Can(k2, pos, 1), Can(k2, speed, 2), Can(k1, speed, 3),
               Can(k2, time, 3), Can(k2, None, 0), Power(k1)}
MixedTraffic == {Can(k1, pos, 3), Can(k2, time, 3), Power(k1)}
LittleTraffic == {Can(k1, speed, 2), Power(k2)}
LiveTraffic == {Can(k2, time, 3), Power(k1)}
===============================================================================
