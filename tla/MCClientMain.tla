---------------------------- MODULE MCClientMain ----------------------------
(* Instances of ClientMain for TLC. *)
EXTENDS ClientMain

MCOrder == <<"a", "b">>

\* The client is started to run, or for a mode; its user asks for a benchmark,
\* for a changed configuration or for an update.
MCCmdLine == {{}, {"FETCH"}}
MCRequests == {{"BENCHMARK"}, {"CONFIG", "CONFRESTART"}, {"FETCH"}}

\* Everything in some behaviour, and every two things in some behaviour together.
MCArrivals ==
  {{"INT", "HUP", "inifile", "user"}, {"TSTP", "CONT", "HUP", "user"},
   {"pausefile", "exitfile", "inifile", "user"}, {"INT", "TSTP", "CONT", "pausefile"},
   {"exitfile", "HUP", "pausefile"}, {"exitfile", "TSTP", "CONT", "inifile"},
   {"INT", "exitfile"}}
MCRequestOnly == {{"user"}}
MCRestart == {{"HUP", "TSTP"}, {"INT", "HUP"}}
MCPauses == {{"TSTP", "CONT"}}
==============================================================================
