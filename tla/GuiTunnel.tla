----------------------------- MODULE GuiTunnel -----------------------------
(***************************************************************************)
(* The tunnel switch of the desktop application: start_tunnel, stop_tunnel *)
(* and quit_app of gui/turnguard-gui/src-tauri/src/lib.rs, the thread that *)
(* watches each child process, and what the window (src/App.tsx) shows.    *)
(*                                                                         *)
(* Tauri is external: commands run one after another on the main thread,   *)
(* and an emitted event reaches the window at once.  A launch is a child   *)
(* process, numbered in the order of the spawns.                           *)
(***************************************************************************)
EXTENDS Naturals, FiniteSets

CONSTANTS Tunnels,      \* names of saved tunnels
          NoTunnel,     \* the empty string
          MaxLaunches   \* bound on child processes

ASSUME GuiAssumption ==
    /\ NoTunnel \notin Tunnels
    /\ MaxLaunches \in Nat

VARIABLES child,        \* state.child: a launch, or 0 for None
          running,      \* state.running
          active,       \* state.active_tunnel
          alive,        \* launches whose process runs
          lost,         \* launches whose handle was given up while they ran (history)
          launched,     \* number of launches so far
          cmd,          \* where the command on the main thread is
          name,         \* the argument of start_tunnel
          monitor,      \* monitor[n]: where the thread that watches launch n is
          uiRunning,    \* the window's running
          uiActive      \* the window's activeTunnel

guiVars ==
    <<child, running, active, alive, lost, launched, cmd, name, monitor, uiRunning, uiActive>>

Launches == 1..MaxLaunches

GuiInit ==
    /\ child = 0 /\ running = FALSE /\ active = NoTunnel
    /\ alive = {} /\ lost = {} /\ launched = 0
    /\ cmd = "idle" /\ name = NoTunnel
    /\ monitor = [n \in Launches |-> "none"]
    /\ uiRunning = FALSE /\ uiActive = NoTunnel

Then(from, to) == cmd = from /\ cmd' = to

-----------------------------------------------------------------------------
(* The main thread *)

(* handleToggle of the window: it stops the tunnel it believes active. *)
Toggle(t) ==
    /\ cmd = "idle"
    /\ IF uiActive = t
       THEN cmd' = "stop" /\ UNCHANGED name
       ELSE cmd' = "start" /\ name' = t
    /\ UNCHANGED <<child, running, active, alive, lost, launched, monitor, uiRunning, uiActive>>

Quit ==
    /\ Then("idle", "quit")
    /\ UNCHANGED <<child, running, active, alive, lost, launched, name, monitor, uiRunning, uiActive>>

AfterTake == CASE cmd = "start" -> "startClear"
               [] cmd = "stop"  -> "stopClear"
               [] cmd = "quit"  -> "quitClear"

(* Mutation: the handle is dropped without a kill. *)
TakeChildOnly ==
    /\ cmd \in {"start", "stop", "quit"}
    /\ child' = 0
    /\ cmd' = AfterTake
    /\ UNCHANGED <<running, active, alive, lost, launched, name, monitor, uiRunning, uiActive>>

(* stop_tunnel_internal: take the handle, kill and wait, under its lock.   *)
(* The errors of kill and wait are ignored; both are taken to succeed for  *)
(* a child whose handle is held.                                           *)
TakeChild ==
    /\ cmd \in {"start", "stop", "quit"}
    /\ alive' = alive \ {child}
    /\ child' = 0
    /\ cmd' = AfterTake
    /\ UNCHANGED <<running, active, lost, launched, name, monitor, uiRunning, uiActive>>

(* The rest of stop_tunnel_internal; nothing is emitted. *)
ClearState ==
    /\ Then("startClear", "spawn") \/ Then("stopClear", "idle") \/ Then("quitClear", "exited")
    /\ running' = FALSE /\ active' = NoTunnel
    /\ UNCHANGED <<child, alive, lost, launched, name, monitor, uiRunning, uiActive>>

(* No such tunnel, no binary, or the spawn fails: an error, no event. *)
SpawnFails ==
    /\ Then("spawn", "idle")
    /\ UNCHANGED <<child, running, active, alive, lost, launched, name, monitor, uiRunning, uiActive>>

Spawn ==
    /\ Then("spawn", "setRunning") /\ launched < MaxLaunches
    /\ launched' = launched + 1
    /\ alive' = alive \cup {launched + 1}
    /\ UNCHANGED <<child, running, active, lost, name, monitor, uiRunning, uiActive>>

SetRunning ==
    /\ Then("setRunning", "setActive")
    /\ running' = TRUE
    /\ UNCHANGED <<child, active, alive, lost, launched, name, monitor, uiRunning, uiActive>>

(* The name, and the events "starting" and the active tunnel. *)
SetActive ==
    /\ Then("setActive", "store")
    /\ active' = name
    /\ uiRunning' = FALSE /\ uiActive' = name
    /\ UNCHANGED <<child, running, alive, lost, launched, name, monitor>>

(* Mutation: no thread watches the child. *)
StoreUnwatched ==
    /\ Then("store", "emit")
    /\ child' = launched
    /\ UNCHANGED <<running, active, alive, lost, launched, name, monitor, uiRunning, uiActive>>

(* The handle is stored and the monitor thread started. *)
StoreChild ==
    /\ Then("store", "emit")
    /\ child' = launched
    /\ monitor' = [monitor EXCEPT ![launched] = "watch"]
    /\ UNCHANGED <<running, active, alive, lost, launched, name, uiRunning, uiActive>>

EmitRunning ==
    /\ Then("emit", "idle")
    /\ uiRunning' = TRUE
    /\ UNCHANGED <<child, running, active, alive, lost, launched, name, monitor, uiActive>>

-----------------------------------------------------------------------------
(* The monitor threads: each looks every 500 ms at whatever child is there *)

MonitorGone(n) ==
    /\ monitor[n] = "watch" /\ child = 0
    /\ monitor' = [monitor EXCEPT ![n] = "gone"]
    /\ UNCHANGED <<child, running, active, alive, lost, launched, cmd, name, uiRunning, uiActive>>

(* The handle goes, then the lock is dropped. *)
GiveUp(n) ==
    /\ monitor[n] = "watch" /\ child # 0
    /\ child' = 0
    /\ monitor' = [monitor EXCEPT ![n] = "clearRunning"]

(* try_wait reports the exit. *)
MonitorSees(n) ==
    /\ GiveUp(n) /\ child \notin alive
    /\ UNCHANGED <<running, active, alive, lost, launched, cmd, name, uiRunning, uiActive>>

(* try_wait fails: the same, whether the child has ended or not. *)
MonitorFails(n) ==
    /\ GiveUp(n)
    /\ lost' = lost \cup ({child} \cap alive)
    /\ UNCHANGED <<running, active, alive, launched, cmd, name, uiRunning, uiActive>>

MonitorClearsRunning(n) ==
    /\ monitor[n] = "clearRunning"
    /\ running' = FALSE
    /\ monitor' = [monitor EXCEPT ![n] = "clearActive"]
    /\ UNCHANGED <<child, active, alive, lost, launched, cmd, name, uiRunning, uiActive>>

(* The name, and the events "stopped" and no active tunnel. *)
MonitorClearsActive(n) ==
    /\ monitor[n] = "clearActive"
    /\ active' = NoTunnel
    /\ uiRunning' = FALSE /\ uiActive' = NoTunnel
    /\ monitor' = [monitor EXCEPT ![n] = "gone"]
    /\ UNCHANGED <<child, running, alive, lost, launched, cmd, name>>

-----------------------------------------------------------------------------
ChildExits(n) ==
    /\ n \in alive
    /\ alive' = alive \ {n}
    /\ UNCHANGED <<child, running, active, lost, launched, cmd, name, monitor, uiRunning, uiActive>>

command ==
    \/ TakeChild \/ ClearState \/ SpawnFails \/ Spawn \/ SetRunning \/ SetActive
    \/ StoreChild \/ EmitRunning

watching(n) ==
    \/ MonitorGone(n) \/ MonitorSees(n) \/ MonitorClearsRunning(n) \/ MonitorClearsActive(n)

-----------------------------------------------------------------------------
(* The type of the state; a stored child has a thread that watches it. *)
GuiTypeOK ==
    /\ child \in 0..launched /\ launched \in 0..MaxLaunches
    /\ running \in BOOLEAN /\ uiRunning \in BOOLEAN
    /\ active \in Tunnels \cup {NoTunnel} /\ uiActive \in Tunnels \cup {NoTunnel}
    /\ name \in Tunnels \cup {NoTunnel}
    /\ alive \subseteq 1..launched /\ lost \subseteq 1..launched
    /\ monitor \in [Launches -> {"none", "watch", "clearRunning", "clearActive", "gone"}]
    /\ child # 0 => monitor[child] # "none"

(* start_tunnel stops the running child before it spawns the next: no two  *)
(* turnguard processes run at a time, whatever the monitor threads of      *)
(* earlier launches do to the shared handle.  Between commands the running *)
(* one is the one whose handle is kept, so that stop_tunnel and quit_app   *)
(* can reach it; none outlives quit_app.  Not counted are the children     *)
(* that a monitor thread gave up because try_wait failed (lib.rs:332):     *)
(* nothing reaches those, and they run beside the next one.                *)
OneTunnel ==
    /\ Cardinality(alive \ lost) <= 1
    /\ cmd \in {"idle", "exited"} => alive \ lost \subseteq {child}

(* "Stop any existing tunnel first" (lib.rs:239): a process is spawned     *)
(* when no other runs.                                                     *)
StopsExisting == cmd = "setRunning" => alive = {launched}

(* A child that exits by itself is noticed: its handle is given up. *)
ExitNoticed ==
    \A n \in Launches : child = n /\ n \notin alive ~> child # n \/ cmd = "exited"

(* The window shows "Running" or "Stopped" (App.tsx:216) from the events   *)
(* of start_tunnel and of the thread that is to "Monitor child exit"       *)
(* (lib.rs:311): when nothing is under way it agrees with the handle.      *)
WindowAgrees ==
    /\ cmd = "idle"
    /\ \A n \in Launches : monitor[n] \in {"none", "gone"} \/ (monitor[n] = "watch" /\ child \in alive)
    => uiRunning = (child # 0)
=============================================================================
