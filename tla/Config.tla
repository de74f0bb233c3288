-------------------------------- MODULE Config --------------------------------
(***************************************************************************)
(* config/config.cpp: where the value of each setting comes from.  A line  *)
(* of a configuration file is <<"set", key>>, <<"comment">> (or empty),    *)
(* <<"section">> (anything without an equals sign) or <<"nokey">>.         *)
(* One thread loads the configuration before any other runs, so a load is  *)
(* a function of its inputs.                                               *)
(***************************************************************************)
EXTENDS Integers, Sequences, SequencesExt

\* The variables of loadFromEnvironment.
EnvKeys == {"port", "host", "max_connections", "thread_pool_size", "enable_cluster",
            "cluster_nodes", "max_level", "data_file", "enable_persistence",
            "persistence_interval", "log_level", "log_file", "enable_console"}

\* The keys of applyCustomConfig.
FileKeys == EnvKeys \cup {"enable_aof", "aof_file", "aof_fsync", "aof_fsync_interval"}

\* The keys parseArguments stores in custom_config_.
OptionKeys == {"port", "host", "log_level"}

Settings == FileKeys \cup {"max_file_size", "max_files"}

\* The file saveToFile writes (without custom values).
SavedFile ==
  LET Section(keys) == <<<<"section">>>> \o [i \in DOMAIN keys |-> <<"set", keys[i]>>]
  IN  <<<<"comment">>>>
        \o Section(<<"port", "host", "max_connections", "thread_pool_size", "enable_cluster",
                     "cluster_nodes">>)
        \o Section(<<"max_level", "data_file", "enable_persistence", "persistence_interval">>)
        \o Section(<<"log_level", "log_file", "enable_console", "max_file_size", "max_files">>)

\* loadFromEnvironment, with the set env of variables that are set.
LoadFromEnvironment(env) == [k \in Settings |-> IF k \in env THEN "env" ELSE "default"]

\* The first line loadFromFile throws at, or 0.
BadLine(lines) == SelectInSeq(lines, LAMBDA l : l[1] \in {"section", "nokey"})

\* custom_config_: the options, and the lines before the one that throws.
CustomConfig(options, lines) ==
  LET end == IF BadLine(lines) = 0 THEN Len(lines) ELSE BadLine(lines) - 1
  IN  options \cup {lines[i][2] : i \in {j \in 1 .. end : lines[j][1] = "set"}}

\* A plausible repair: applyCustomConfig does not lock config_mutex_ again.
ApplyUnlocked(custom, settings) ==
  [settings |-> [k \in Settings |-> IF k \in custom \cap FileKeys THEN "file" ELSE settings[k]],
   result |-> "loaded"]

\* applyCustomConfig runs with config_mutex_ locked and reads a value it finds with
\* getString, which locks it again: the thread waits for itself.
ApplyCustomConfig(custom, settings) ==
  [settings |-> settings, result |-> IF custom \cap FileKeys = {} THEN "loaded" ELSE "hangs"]

\* loadConfiguration.  A file is <<>> (no file given), <<"missing">> or <<"file", lines>>.
LoadConfiguration(env, options, file) ==
  LET settings == LoadFromEnvironment(env) IN
  CASE file = <<>> -> [settings |-> settings, result |-> "loaded"]
    [] file = <<"missing">> -> [settings |-> settings, result |-> "throws"]
    [] Len(file) = 2 -> IF BadLine(file[2]) # 0
                        THEN [settings |-> settings, result |-> "throws"]
                        ELSE ApplyCustomConfig(CustomConfig(options, file[2]), settings)
===============================================================================
