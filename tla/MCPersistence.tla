--------------------------- MODULE MCPersistence ---------------------------
(***************************************************************************)
(* Small instances of Persistence.  Of the prices 1000, 1004 and 1010 the   *)
(* first two print alike when Kraken's numbers are cut to tens, and so does *)
(* a size of 3 with 0.                                                      *)
(***************************************************************************)
EXTENDS Persistence

MCPrices == {1000, 1004, 1010}
MCSizes  == {0, 3, 10}

\* A level, three changes at once, everything gone, and a message that lists nothing.
MCChanges == {
  (<<"bid", 1010>> :> 10),
  (<<"bid", 1000>> :> 3) @@ (<<"bid", 1010>> :> 0) @@ (<<"ask", 1010>> :> 10),
  [l \in {<<"bid", 1000>>, <<"bid", 1010>>, <<"ask", 1010>>} |-> 0],
  << >> }
=============================================================================
