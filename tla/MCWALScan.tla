------------------------------ MODULE MCWALScan ------------------------------
(* Commits of one and of two effects. *)
EXTENDS WALScan

MCContents == {<<1>>, <<1, 2>>}
=============================================================================
