----------------------------- MODULE MCRelaunch -----------------------------
(***************************************************************************)
(* A small instance of Relaunch: the window's worker and one command line  *)
(* on an application, and on each other.                                   *)
(***************************************************************************)
EXTENDS Relaunch

Running(pid, exe) == [pid |-> pid, exe |-> exe, state |-> "live"]

MCStarted ==
    <<Running(1, "appwatch"), Running(2, "appwatch"), Running(3, "browser")>>

MCOwn == [r \in {"worker", "cli"} |-> IF r = "worker" THEN 1 ELSE 2]
=============================================================================
