------------------------------- MODULE MCFiles -------------------------------
(* Small trees for Files: one user directory, the generated files that differ.    *)
EXTENDS Files

MCBootDirs  == <<"home">>
MCBootFiles == <<"a">>
MCGenFiles  == 
  <<<<"proc", "uptime">>, <<"proc", "meminfo">>, <<"proc", "tasks">>, <<"proc", "net">>,
    <<"dev", "random">>, <<"dev", "fb0">>>>
MCPaths == {[abs |-> TRUE, words |-> s] : s \in
             {<<"home">>, <<"home", "a">>, <<"proc", "uptime">>}}
MCDatas == {<<"x">>, <<"y", "z">>}
=============================================================================
