------------------------------ MODULE MCPlugins -------------------------------
(* Plugins for TLC.  One file is on the environment's path and in the        *)
(* directory, one in the directory only.                                     *)
EXTENDS Plugins

CONSTANTS a, b, k1, k2, p1, p2

MCKeys == {k1, k2}
MCFiles == {a, b}
MCPlugins == {p1, p2}
MCEnvPaths == {<<>>, <<a>>}
MCDirectories == {<<a, b>>}
MCBlacklists == {{}, {a}}
=============================================================================
