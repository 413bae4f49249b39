--------------------------- MODULE TrackerProcess ---------------------------
(***************************************************************************)
(* The tracker's main(): the accept loop, the signal handler that clears   *)
(* g_running, the thread that reads "quit" from the console, the snapshot  *)
(* thread, and the save with which each way to end begins.  Start-up and   *)
(* what the connections do are in Replication.                             *)
(*                                                                         *)
(* main is at "check" before it tests g_running, "call" between the test   *)
(* and the system call, "accept" in it, "failed" when it has returned -1,  *)
(* "save" after the loop.                                                  *)
(***************************************************************************)
EXTENDS SnapshotFile

CONSTANT Overlap   \* whether a save may begin while another is under way

ASSUME OverlapAssumption == Overlap \in BOOLEAN

VARIABLES running,   \* g_running
          main,
          signalled, \* where main was when the signal came, or "never"
          due        \* the registrations accepted before the signal

mainVars == <<running, main, signalled, due>>
vars == <<fileVars, mainVars>>

Init ==
  /\ FileInit
  /\ running = TRUE /\ main = "check" /\ signalled = "never" /\ due = 0

-----------------------------------------------------------------------------
(* main. *)

Check ==
  /\ main = "check"
  /\ main' = IF running THEN "call" ELSE "save"
  /\ UNCHANGED <<fileVars, running, signalled, due>>

EnterAccept ==
  /\ main = "call"
  /\ main' = "accept"
  /\ UNCHANGED <<fileVars, running, signalled, due>>

\* A client is accepted and given its thread; or accept() fails by itself.
AcceptClient ==
  /\ main = "accept"
  /\ main' \in {"check", "failed"}
  /\ UNCHANGED <<fileVars, running, signalled, due>>

AfterFailure ==
  /\ main = "failed"
  /\ main' = IF running THEN "check" ELSE "save"
  /\ UNCHANGED <<fileVars, running, signalled, due>>

\* Mutants: the handler is installed with SA_RESTART; the save after the loop
\* is forgotten.
Signal_restarts ==
  /\ signalled = "never"
  /\ running' = FALSE /\ signalled' = main /\ due' = known
  /\ UNCHANGED <<fileVars, main>>

FinalSave_forgotten ==
  /\ main = "save" /\ "main" \in Savers /\ pc["main"] = "idle"
  /\ pc' = [pc EXCEPT !["main"] = "saved"]
  /\ UNCHANGED <<known, inode, file, data, fd, deaths, mainVars>>

\* SIGINT or SIGTERM: on_signal, and a blocked accept() returns EINTR.
Signal ==
  /\ signalled = "never"
  /\ running' = FALSE /\ signalled' = main /\ due' = known
  /\ main' = IF main = "accept" THEN "failed" ELSE main
  /\ UNCHANGED fileVars

MayBegin(s) == Overlap \/ \A x \in Savers : pc[x] \in {"idle", "woken", "saved", "unsaved"}

FinalSave ==
  /\ main = "save" /\ "main" \in Savers
  /\ MayBegin("main") /\ Serialize("main")
  /\ UNCHANGED mainVars

MainStep ==
  \/ Check \/ EnterAccept \/ AfterFailure \/ FinalSave
  \/ "main" \in Savers /\ SaveStep("main") /\ UNCHANGED mainVars

-----------------------------------------------------------------------------
(* The detached threads, and the end of the process. *)

\* 30 seconds have passed and g_running is still set; it need not be when the
\* save begins.
PeriodicWake ==
  /\ running /\ "snapshot_thread" \in Savers /\ pc["snapshot_thread"] = "idle"
  /\ pc' = [pc EXCEPT !["snapshot_thread"] = "woken"]
  /\ UNCHANGED <<known, inode, file, data, fd, deaths, mainVars>>

PeriodicSave ==
  /\ "snapshot_thread" \in Savers /\ pc["snapshot_thread"] = "woken"
  /\ MayBegin("snapshot_thread") /\ Serialize("snapshot_thread")
  /\ UNCHANGED mainVars

QuitSave ==
  /\ "exit_thread" \in Savers
  /\ MayBegin("exit_thread") /\ Serialize("exit_thread")
  /\ UNCHANGED mainVars

ThreadStep(s) == SaveStep(s) /\ UNCHANGED mainVars

NewProcess ==
  /\ Restart
  /\ running' = TRUE /\ main' = "check" /\ signalled' = "never" /\ due' = 0

Others == Savers \ {"main"}

Next ==
  \/ MainStep \/ AcceptClient \/ Signal \/ PeriodicWake \/ PeriodicSave
  \/ QuitSave
  \/ \E s \in Others : ThreadStep(s)
  \/ Register /\ UNCHANGED mainVars
  \/ NewProcess

\* main is scheduled and system calls on files return.  No client has to come,
\* so accept() may block for ever.
Fairness == WF_vars(MainStep) /\ \A s \in Others : WF_vars(ThreadStep(s))

Spec == Init /\ [][Next]_vars
FairSpec == Spec /\ Fairness

-----------------------------------------------------------------------------
(* Properties. *)

Over == pc["main"] \in {"saved", "unsaved"}

\* SignalSaves: a signal ends the loop and leads to the last save even if no
\* client ever connects again: "With SA_RESTART the flag gets set but the
\* accept loop never notices, so the shutdown save never runs" (main.cpp:484).
\* A signal between the test of g_running and the system call is the exception.
SignalSaves ==
  (signalled \notin {"never", "call"}) ~> (Over \/ signalled = "never")

\* ShutdownKeeps: when the last save has succeeded, every registration accepted
\* before the signal is in the snapshot: "so Ctrl-C does not discard state"
\* (main.cpp:480).
ShutdownKeeps ==
  (pc["main"] = "saved" /\ Complete(Snapshot)) => The(Snapshot) >= due
=============================================================================
