----------------------------- MODULE MCCanDecode -----------------------------
(***************************************************************************)
(* Small instances of CanDecode.                                           *)
(***************************************************************************)
EXTENDS CanDecode, TLC

CONSTANTS top,          \* the one bit of a byte that is told apart
          x, y, z       \* ids

Entry(name, big, signals) == [id |-> name, big |-> big, signals |-> signals]
From(start, stop) == [start |-> start, stop |-> stop]

\* The layouts of DBC.csv: 0x32D (whose signals overlap), 0x1C2, 0x5A5.
Temperatures(name) ==
    Entry(name, TRUE, <<From(0, 1), From(2, 3), From(4, 7), From(6, 7)>>)
Position(name) == Entry(name, TRUE, <<From(0, 3), From(4, 7)>>)
Speed(name) == Entry(name, FALSE, <<From(0, 1)>>)
Late(name) == Entry(name, FALSE, <<From(4, 7)>>)
Narrow(name) == Entry(name, FALSE, <<From(2, 4)>>)

\* Only big-endian entries for the server.
BigTables ==
    "server" :> {<<Temperatures(x), Position(y)>>}
    @@ "v2" :> {<<Temperatures(x), Position(y), Late(z)>>,
                <<Speed(x), Late(y), Temperatures(z)>>}
    @@ "v1" :> {<<Speed(x), Narrow(y)>>}

\* The little-endian entry of DBC.csv in the server.
LittleTables == "server" :> {<<Position(x), Speed(y)>>}
================================================================================
