--------------------------- MODULE MCServerProcess ----------------------------
(* ServerProcess instantiated for TLC. *)
EXTENDS ServerProcess

MCThreads == {"main", "signal", "persister", "monitor", "handler"}
MCEnvSets == {{}, {"log_level", "enable_persistence"}}
MCOptionSets == {{}, {"port"}}
\* No file, a missing one, what saveToFile writes, one key, an unknown key, a bad line.
MCFiles ==
  {<<>>, <<"missing">>, <<"file", SavedFile>>, <<"file", <<<<"set", "port">>>>>>,
   <<"file", <<<<"comment">>, <<"set", "unknown">>>>>>, <<"file", <<<<"set", "port">>, <<"nokey">>>>>>}

\* A log and three rotated files: as many as the rotation keeps.
MCOldLogs == {4}

\* What the server finds when it is started as the README says.
DefaultEnvSets == {{}}
DefaultOptionSets == {{}}
DefaultFiles == {<<>>}
===============================================================================
