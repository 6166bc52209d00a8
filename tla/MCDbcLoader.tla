------------------------------ MODULE MCDbcLoader ------------------------------
(***************************************************************************)
(* Files of up to three lines, each an entry, a blank line or the closing  *)
(* mark.                                                                   *)
(***************************************************************************)
EXTENDS DbcLoader

CONSTANTS a, b, c       \* identifiers

Entry(id, n) == [id |-> id, count |-> n]
Mark == [id |-> None, count |-> 0]
EmptyLine == [id |-> Blank, count |-> 0]

Contents == {<<>>, <<Mark>>, <<Entry(a, 1)>>, <<Entry(a, 1), Mark>>,
             <<Entry(a, 1), Entry(b, 2)>>,
             <<Entry(a, 1), Entry(b, 2), Mark>>, <<Entry(b, 4), Entry(c, 3), Mark>>,
             <<Mark, Entry(c, 4)>>, <<EmptyLine, Entry(c, 4)>>,
             <<Entry(a, 1), EmptyLine, Entry(b, 2)>>}

AllFiles == {[lines |-> s, nl |-> e] : s \in Contents, e \in BOOLEAN}
===============================================================================
