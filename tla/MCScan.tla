-------------------------------- MODULE MCScan --------------------------------
(* Four keys, two of them extensions of a third; one record that can outgrow a page. *)
EXTENDS Scan

MCScanKeys == {<<1>>, <<1, 1>>, <<1, 2>>, <<2>>}
MCScanPrefixes == {<<>>, <<1>>}
MCBytes == [k \in MCScanKeys |-> IF k = <<1, 2>> THEN 3 ELSE 1]
=============================================================================
