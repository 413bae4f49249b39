-------------------------- MODULE MCTrackerProcess --------------------------
(* Which threads save: all three, or the snapshot thread and main. *)
EXTENDS TrackerProcess

EverySaver == {"snapshot_thread", "exit_thread", "main"}
AtShutdown == {"snapshot_thread", "main"}
=============================================================================
