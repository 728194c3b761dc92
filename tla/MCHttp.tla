-------------------------------- MODULE MCHttp --------------------------------
(* The wire, the servers and their answers of the model-checked instances. *)
EXTENDS Http

MCHosts   == {<<"gw", "m1">>, <<"ns", "m2">>, <<"pc", "m3">>}
MCLeases  == {<<"ip1", "ns">>, <<"ip2", "ns">>}
MCAnswers == {<<"a", "gw", 2>>, <<"b", "ns", 0>>, <<"c", "none", 1>>}
MCServers == {<<0, -1>>, <<3, 2>>, <<4, -1>>, <<2, 5>>}
=============================================================================
