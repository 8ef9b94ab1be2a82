---------------------------- MODULE MCClientLoop ----------------------------
(***************************************************************************)
(* Small instances of ClientLoop: clients of two kinds in one process.      *)
(***************************************************************************)
EXTENDS ClientLoop

BothKinds == [c \in Clients |-> IF c = "k" THEN "kraken" ELSE "okx"]
AllKinds  == [c \in Clients |-> CASE c = "k" -> "kraken" [] c = "b" -> "bitstamp"
                                  [] OTHER -> "okx"]
=============================================================================
