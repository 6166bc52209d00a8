----------------------------- MODULE MCGpsParser -----------------------------
(* A receiver that sends positions, a speed of 51.2 km/h, one above what   *)
(* two bytes hold, lines with a wrong checksum, without one and with half  *)
(* of one that is taken for right, and sentences nobody reads.             *)
EXTENDS GpsParser, TLC

Numbers(a, b, c) == 2 :> a @@ 4 :> b @@ 7 :> c
Says(who, what, digits, numbers) ==
    [talker |-> who, type |-> what, star |-> digits # <<>>,
     high |-> IF digits # <<>> THEN digits[1] ELSE -1,
     low |-> IF digits # <<>> THEN digits[2] ELSE -1,
     xor |-> 79, field |-> numbers]

Right == <<4, 15>>
Cut == <<5, -1>>
Wrong == <<4, 14>>

MCLines == {
    Says("$GP", "GGA", Right, Numbers(554012345, 123456789, 8)),
    Says("$GN", "VTG", Cut, Numbers(0, 0, 51200)),
    Says("$GN", "VTG", Right, Numbers(0, 0, 70000)),
    Says("$GN", "VTG", Wrong, Numbers(0, 0, 0)),
    Says("$GN", "GGA", <<>>, Numbers(0, 0, 0)),
    Says("other", "GGA", Right, Numbers(0, 0, 0)),
    Says("$GP", "other", Right, Numbers(0, 0, 0))}
==============================================================================
