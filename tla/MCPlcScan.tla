------------------------------ MODULE MCPlcScan ------------------------------
(* PlcScan with one sensor and one row that is asked for, a bit or a word. *)
EXTENDS PlcScan

MCRows == <<"A1", "B1">>
MCShorts == {{}, {"B1"}}
=============================================================================
