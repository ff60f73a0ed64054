------------------------------- MODULE MCIngest -------------------------------
(* Two trade connections and one of quotes for TLC.                            *)
EXTENDS Ingest

CONSTANTS c1, c2, q, k1

TwoConns == {c1, c2}
OneKey   == {k1}
Growing  == <<1, 2>>
One      == {1}
===============================================================================
