--------------------------- MODULE DesktopProofs ---------------------------
(***************************************************************************)
(* Proofs about the turnguard process and the desktop application, for any *)
(* number of launches, tunnels and relays.  The handle the commands and    *)
(* the monitor threads share is either empty or that of the last launch,   *)
(* and it is emptied before the next; so at most one process runs beside   *)
(* those a failed try_wait has lost, and a process begins on a machine on  *)
(* which only those use the routes.                                        *)
(***************************************************************************)
EXTENDS Desktop, FiniteSetTheorems, TLAPS

(* Where the command on the main thread is, by what it knows of the child: *)
(* the handle may be there; it has been taken; a child runs whose handle   *)
(* is not stored yet.                                                      *)
Stored == {"idle", "start", "stop", "quit", "emit"}
Taken == {"startClear", "stopClear", "quitClear", "spawn", "exited"}
Unstored == {"setRunning", "setActive", "store"}

(* The handle is that of the last launch, and an earlier launch runs only  *)
(* if it was lost.                                                         *)
HandleInv ==
    /\ launched \in Nat
    /\ child \in {0, launched}
    /\ alive \ lost \subseteq {launched} \ {0}

(* A process that runs has its handle stored, unless the command that      *)
(* spawned it is about to store it.                                        *)
CommandInv ==
    /\ cmd \in Stored \cup Taken \cup Unstored
    /\ cmd \in Stored => alive \ lost \subseteq {child}
    /\ cmd \in Taken => child = 0 /\ alive \subseteq lost
    /\ cmd \in Unstored => child = 0 /\ launched # 0

(* The child process has not begun or has ended when it is not alive. *)
ChildInv == gui /\ launched \notin alive => pc \in {"none", "exited"}

(* The routes that an active process may have added. *)
OwnRoutes == IF opt.vpn /\ opt.full THEN Added ELSE {}

(* Beside the routes there were, only a process between SetupVPNRouting    *)
(* and CleanupVPNRouting has routes, and those that will be removed.       *)
RouteInv ==
    /\ pc \in Places
    /\ pc \in {"vpn", "vpnUp", "routing"} => opt.vpn
    /\ pc = "vpnUp" => opt.keys
    /\ pc = "routing" => opt.full
    /\ routes \subseteq opt.before \cup left \cup
                        (IF pc \in {"active", "stopped"} THEN OwnRoutes ELSE {})

DesktopInv ==
    /\ GuiTypeOK
    /\ ProcTypeOK
    /\ HandleInv
    /\ CommandInv
    /\ ChildInv
    /\ RouteInv
-----------------------------------------------------------------------------
(* What SetupVPNRouting adds, CleanupVPNRouting removes. *)
LEMMA AddedIsRemoved == OwnRoutes \subseteq Removed
  BY DEF OwnRoutes, Added, Removed

(* A set within one element has at most one. *)
LEMMA AtMostOne ==
    ASSUME NEW S, NEW x, S \subseteq {x}
    PROVE  Cardinality(S) <= 1
<1>1. S = {} \/ S = {x}
  OBVIOUS
<1>2. Cardinality({}) = 0 /\ Cardinality({x}) = 1
  BY FS_EmptySet, FS_Singleton
<1> QED
  BY <1>1, <1>2

(* Before the first launch nothing runs and no route was added. *)
LEMMA DesktopInit == Init => DesktopInv
<1> SUFFICES ASSUME Init
             PROVE  DesktopInv
  OBVIOUS
<1> USE DEF Init, GuiInit, ProcInit
<1>1. GuiTypeOK
  <2>1. 0 \in 0..MaxLaunches /\ 0 \in 0..0
    BY GuiAssumption
  <2>2. monitor \in [Launches -> {"none", "watch", "clearRunning", "clearActive", "gone"}]
    OBVIOUS
  <2> QED
    BY <2>1, <2>2 DEF GuiTypeOK
<1>2. ProcTypeOK
  <2>1. opt \in Options /\ opt.before \subseteq Relays
    BY DEF Options
  <2> QED
    BY <2>1 DEF ProcTypeOK, Places
<1>3. HandleInv /\ CommandInv
  BY DEF HandleInv, CommandInv, Stored, Taken, Unstored
<1>4. ChildInv /\ RouteInv
  BY DEF ChildInv, RouteInv, Places
<1> QED
  BY <1>1, <1>2, <1>3, <1>4 DEF DesktopInv
-----------------------------------------------------------------------------
(* Type correctness of the process *)

(* main keeps the type of the process's state. *)
LEMMA MainKeepsType ==
    ASSUME ProcTypeOK, RouteInv, main \/ Ready \/ StartFails
    PROVE  ProcTypeOK'
<1> USE DEF ProcTypeOK, Goto, Places
<1>1. CASE Refuse \/ Prepare \/ WebStart \/ WebExit \/ Install \/ StartCancelled \/ Ready \/ StartFails
  BY <1>1 DEF Refuse, Prepare, WebStart, WebExit, Install, StartCancelled, Ready, StartFails
<1>2. CASE VpnFails \/ Finish
  BY <1>2 DEF VpnFails, Finish
<1>3. CASE StartVPN
  BY <1>3 DEF StartVPN, RouteInv
<1>4. CASE Assign
  BY <1>4 DEF Assign, RouteInv
<1>5. CASE SetupVPNRouting
  BY <1>5 DEF SetupVPNRouting, Added
<1>6. CASE Stopped
  BY <1>6 DEF Stopped
<1>7. CASE CleanupVPNRouting
  BY <1>7 DEF CleanupVPNRouting
<1> QED
  BY <1>1, <1>2, <1>3, <1>4, <1>5, <1>6, <1>7 DEF main

(* So do the signal and the goroutine that gets it. *)
LEMMA HandlerKeepsType ==
    ASSUME ProcTypeOK, handler \/ Signal
    PROVE  ProcTypeOK'
<1> USE DEF ProcTypeOK
<1>1. CASE Signal
  BY <1>1 DEF Signal
<1>2. CASE StopDevice
  BY <1>2 DEF StopDevice
<1>3. CASE StopProxy
  BY <1>3 DEF StopProxy
<1>4. CASE Cancel
  BY <1>4 DEF Cancel
<1> QED
  BY <1>1, <1>2, <1>3, <1>4 DEF handler

(* main adds routes between SetupVPNRouting and CleanupVPNRouting only,    *)
(* and it does not leave the place it has not begun at, nor its end.       *)
LEMMA MainKeepsRoutes ==
    ASSUME ProcTypeOK, RouteInv, main \/ Ready \/ StartFails, left' = left
    PROVE  RouteInv' /\ pc \notin {"none", "exited"}
<1> USE DEF RouteInv, Goto, Places
<1>1. CASE Refuse \/ Prepare \/ WebStart \/ WebExit \/ Install \/ StartCancelled \/ StartFails
  BY <1>1 DEF Refuse, Prepare, WebStart, WebExit, Install, StartCancelled, StartFails
<1>2. CASE VpnFails \/ Finish \/ StartVPN
  BY <1>2 DEF VpnFails, Finish, StartVPN
<1>3. CASE Ready \/ Assign
  BY <1>3 DEF Ready, Assign
<1>4. CASE SetupVPNRouting
  <2>1. OwnRoutes' = Added
    BY <1>4 DEF SetupVPNRouting, OwnRoutes, Added
  <2> QED
    BY <1>4, <2>1 DEF SetupVPNRouting
<1>5. CASE Stopped
  <2>1. OwnRoutes' = OwnRoutes
    BY <1>5 DEF Stopped, OwnRoutes, Added
  <2> QED
    BY <1>5, <2>1 DEF Stopped
<1>6. CASE CleanupVPNRouting
  BY <1>6, AddedIsRemoved DEF CleanupVPNRouting
<1> QED
  BY <1>1, <1>2, <1>3, <1>4, <1>5, <1>6 DEF main

(* The signal and its goroutine leave main and the routes alone. *)
LEMMA HandlerKeepsRoutes ==
    ASSUME RouteInv, handler \/ Signal, left' = left
    PROVE  RouteInv' /\ UNCHANGED pc
<1>1. UNCHANGED <<opt, pc, routes>>
  BY DEF handler, Signal, StopDevice, StopProxy, Cancel
<1> QED
  BY <1>1 DEF RouteInv, OwnRoutes, Added

(* A step of the process keeps the invariant. *)
LEMMA RunStep ==
    ASSUME DesktopInv, Run(main \/ Ready \/ StartFails \/ handler) \/ Run(Signal)
    PROVE  DesktopInv'
<1>1. UNCHANGED <<guiVars, gui, left>>
  BY DEF Run
<1>2. GuiTypeOK' /\ HandleInv' /\ CommandInv'
  BY <1>1 DEF DesktopInv, guiVars, GuiTypeOK, HandleInv, CommandInv
<1>3. CASE main \/ Ready \/ StartFails
  BY <1>1, <1>2, <1>3, MainKeepsType, MainKeepsRoutes DEF DesktopInv, ChildInv, guiVars
<1>4. CASE handler \/ Signal
  BY <1>1, <1>2, <1>4, HandlerKeepsType, HandlerKeepsRoutes DEF DesktopInv, ChildInv, guiVars
<1> QED
  BY <1>3, <1>4 DEF Run
-----------------------------------------------------------------------------
(* The desktop application *)

(* A process that begins, or is killed, has the type of a process. *)
LEMMA ProcessKeepsType ==
    ASSUME ProcTypeOK, Process("begin") \/ Process("exited")
    PROVE  ProcTypeOK'
  BY DEF ProcTypeOK, Process, Places

(* What leaves the process alone keeps what is known of it. *)
LEMMA ProcessAlone ==
    ASSUME ProcTypeOK, RouteInv, UNCHANGED <<procVars, left>>
    PROVE  ProcTypeOK' /\ RouteInv' /\ UNCHANGED pc
<1>1. UNCHANGED <<opt, pc, sig, done, proxy, tun, vpnDev, routes, left>>
  BY DEF procVars
<1> QED
  BY <1>1 DEF ProcTypeOK, RouteInv, OwnRoutes, Added

(* A spawn: what still runs was lost, and so were the routes it uses. *)
LEMMA SpawnStep ==
    ASSUME DesktopInv, gui, SpawnChild
    PROVE  DesktopInv'
<1> USE DEF SpawnChild, Spawn, Then
<1>1. GuiTypeOK'
  <2>1. launched + 1 \in 0..MaxLaunches /\ child \in 0..(launched + 1)
    BY GuiAssumption DEF DesktopInv, GuiTypeOK
  <2>2. alive \cup {launched + 1} \subseteq 1..(launched + 1) /\ lost \subseteq 1..(launched + 1)
    BY DEF DesktopInv, GuiTypeOK
  <2> QED
    BY <2>1, <2>2 DEF DesktopInv, GuiTypeOK
<1>2. child = 0 /\ alive \subseteq lost
  BY DEF DesktopInv, CommandInv, Taken
<1>3. HandleInv' /\ CommandInv'
  BY <1>2 DEF DesktopInv, HandleInv, CommandInv, Stored, Taken, Unstored
<1>4. ProcTypeOK'
  BY ProcessKeepsType DEF DesktopInv
<1>5. pc' = "begin" /\ UNCHANGED <<opt, routes>>
  BY DEF Process
<1>6. ChildInv'
  BY DEF ChildInv
<1>7. routes' \subseteq opt.before \cup left'
  <2>1. CASE alive = {}
    BY <1>5, <2>1 DEF DesktopInv, ChildInv, RouteInv
  <2>2. CASE alive # {}
    BY <1>5, <2>2
  <2> QED
    BY <2>1, <2>2
<1>8. RouteInv'
  BY <1>5, <1>7 DEF RouteInv, Places
<1> QED
  BY <1>1, <1>3, <1>4, <1>6, <1>8 DEF DesktopInv

(* stop_tunnel_internal takes the handle and ends the process with a kill; *)
(* the routes of that process are those left at the kill.                  *)
LEMMA KillStep ==
    ASSUME DesktopInv, gui, KillChild
    PROVE  DesktopInv'
<1> USE DEF KillChild, TakeChild
<1>1. alive \ lost \subseteq {child}
  BY DEF DesktopInv, CommandInv, Stored
<1>2. /\ alive' = alive \ {child} /\ alive' \subseteq lost
      /\ child' = 0 /\ UNCHANGED <<launched, lost>>
  BY <1>1
<1>3. GuiTypeOK'
  <2>1. 0 \in 0..launched
    BY DEF DesktopInv, GuiTypeOK
  <2> QED
    BY <1>2, <2>1 DEF DesktopInv, GuiTypeOK
<1>4. HandleInv' /\ CommandInv'
  <2>1. cmd' \in {"startClear", "stopClear", "quitClear"}
    BY DEF AfterTake
  <2> QED
    BY <1>2, <2>1 DEF DesktopInv, HandleInv, CommandInv, Stored, Taken, Unstored
<1>5. CASE child \in alive /\ child = launched
  <2>1. Process("exited") /\ left' = left \cup routes
    BY <1>5
  <2>2. ProcTypeOK'
    BY <2>1, ProcessKeepsType DEF DesktopInv
  <2>3. ChildInv' /\ RouteInv'
    BY <2>1 DEF DesktopInv, ChildInv, RouteInv, Process, Places
  <2> QED
    BY <1>3, <1>4, <2>2, <2>3 DEF DesktopInv
<1>6. CASE ~(child \in alive /\ child = launched)
  <2>0. 0 \notin alive
    BY DEF DesktopInv, GuiTypeOK
  <2>1. UNCHANGED <<alive, procVars, left>>
    BY <1>2, <1>6, <2>0 DEF DesktopInv, HandleInv
  <2>2. ProcTypeOK' /\ RouteInv' /\ UNCHANGED pc
    BY <2>1, ProcessAlone DEF DesktopInv
  <2>3. ChildInv'
    BY <1>2, <2>1, <2>2 DEF DesktopInv, ChildInv
  <2> QED
    BY <1>3, <1>4, <2>2, <2>3 DEF DesktopInv
<1> QED
  BY <1>5, <1>6

(* The other steps of a command, and the clicks of the user. *)
LEMMA CommandStep ==
    ASSUME DesktopInv, gui, UNCHANGED <<procVars, gui, left>>,
           \/ ClearState \/ SpawnFails \/ SetRunning \/ SetActive \/ StoreChild \/ EmitRunning
           \/ Quit \/ \E t \in Tunnels : Toggle(t)
    PROVE  DesktopInv'
<1> USE DEF Then
<1>1. CASE ClearState \/ SpawnFails \/ SetRunning \/ SetActive \/ EmitRunning \/ Quit
  <2>1. GuiTypeOK'
    BY <1>1 DEF ClearState, SpawnFails, SetRunning, SetActive, EmitRunning, Quit, DesktopInv, GuiTypeOK
  <2>2. HandleInv' /\ CommandInv' /\ UNCHANGED <<alive, lost, launched>>
    BY <1>1 DEF ClearState, SpawnFails, SetRunning, SetActive, EmitRunning, Quit, DesktopInv,
                HandleInv, CommandInv, Stored, Taken, Unstored
  <2> QED
    BY <2>1, <2>2, ProcessAlone DEF DesktopInv, ChildInv
<1>2. CASE \E t \in Tunnels : Toggle(t)
  <2>1. GuiTypeOK'
    BY <1>2 DEF Toggle, DesktopInv, GuiTypeOK
  <2>2. HandleInv' /\ CommandInv' /\ UNCHANGED <<alive, lost, launched>>
    BY <1>2 DEF Toggle, DesktopInv, HandleInv, CommandInv, Stored, Taken, Unstored
  <2> QED
    BY <2>1, <2>2, ProcessAlone DEF DesktopInv, ChildInv
<1>3. CASE StoreChild
  <2>1. launched \in Launches
    BY <1>3, GuiAssumption DEF StoreChild, DesktopInv, GuiTypeOK, CommandInv, Unstored, Launches
  <2>2. monitor' \in [Launches -> {"none", "watch", "clearRunning", "clearActive", "gone"}]
        /\ monitor'[launched] = "watch"
    BY <1>3, <2>1 DEF StoreChild, DesktopInv, GuiTypeOK
  <2>3. launched \in 0..launched
    BY DEF DesktopInv, HandleInv
  <2>4. GuiTypeOK'
    BY <1>3, <2>2, <2>3 DEF StoreChild, DesktopInv, GuiTypeOK
  <2>5. HandleInv' /\ CommandInv' /\ UNCHANGED <<alive, lost, launched>>
    BY <1>3 DEF StoreChild, DesktopInv, HandleInv, CommandInv, Stored, Taken, Unstored
  <2> QED
    BY <2>4, <2>5, ProcessAlone DEF DesktopInv, ChildInv
<1> QED
  BY <1>1, <1>2, <1>3

(* A monitor thread, of whichever launch, gives up the handle of a child   *)
(* that has exited, or of one that it then counts as lost.                 *)
LEMMA WatchStep ==
    ASSUME DesktopInv, gui, NEW n \in Launches, Watch(n) \/ WatchFails(n)
    PROVE  DesktopInv'
<1> DEFINE threads == watching(n) \/ MonitorFails(n)
<1>1. threads /\ UNCHANGED <<procVars, gui, left>>
  BY DEF Watch, WatchFails
<1> USE DEF watching, GiveUp, MonitorGone, MonitorSees, MonitorFails, MonitorClearsRunning,
            MonitorClearsActive
<1>2. /\ UNCHANGED <<cmd, launched, alive, name>>
      /\ lost \subseteq lost' /\ lost' \subseteq lost \cup alive
      /\ child' = child \/ (child' = 0 /\ alive \ lost' \subseteq alive \ {child})
  BY <1>1
<1>3. GuiTypeOK'
  <2>1. \E s \in {"clearRunning", "clearActive", "gone"} : monitor' = [monitor EXCEPT ![n] = s]
    BY <1>1
  <2>2. monitor' \in [Launches -> {"none", "watch", "clearRunning", "clearActive", "gone"}]
        /\ \A m \in Launches : monitor[m] # "none" => monitor'[m] # "none"
    BY <2>1 DEF DesktopInv, GuiTypeOK
  <2>3. running' \in {FALSE, running} /\ uiRunning' \in {FALSE, uiRunning}
        /\ active' \in {NoTunnel, active} /\ uiActive' \in {NoTunnel, uiActive}
    BY <1>1
  <2>4. child' \in 0..launched /\ (child' # 0 => child' \in Launches /\ monitor'[child'] # "none")
    BY <1>2, <2>2, GuiAssumption DEF DesktopInv, GuiTypeOK, Launches
  <2>5. lost' \subseteq 1..launched
    BY <1>2 DEF DesktopInv, GuiTypeOK
  <2> QED
    BY <1>2, <2>2, <2>3, <2>4, <2>5 DEF DesktopInv, GuiTypeOK
<1>4. HandleInv' /\ CommandInv'
  BY <1>2 DEF DesktopInv, HandleInv, CommandInv
<1> QED
  BY <1>1, <1>2, <1>3, <1>4, ProcessAlone DEF DesktopInv, ChildInv

(* The operating system reports the exit of a child that has ended, or a   *)
(* lost child beside the last one ends.                                    *)
LEMMA ExitStep ==
    ASSUME DesktopInv, gui, NEW n \in Launches, Exits(n) \/ LostExits(n)
    PROVE  DesktopInv'
<1> USE DEF Exits, LostExits, ChildExits
<1>1. /\ alive' \subseteq alive
      /\ launched \in alive \ alive' => pc = "exited"
      /\ UNCHANGED <<child, lost, launched, cmd, procVars, gui, left>>
  <2>1. CASE Exits(n)
    BY <2>1
  <2>2. CASE LostExits(n)
    <3>1. n # launched
      BY <2>2 DEF DesktopInv, HandleInv
    <3> QED
      BY <2>2, <3>1
  <2> QED
    BY <2>1, <2>2
<1>2. GuiTypeOK'
  BY DEF DesktopInv, GuiTypeOK
<1>3. HandleInv' /\ CommandInv'
  BY <1>1 DEF DesktopInv, HandleInv, CommandInv
<1> QED
  BY <1>1, <1>2, <1>3, ProcessAlone DEF DesktopInv, ChildInv

(* The routes a lost child adds are those of a lost child. *)
LEMMA LostStep ==
    ASSUME DesktopInv, NEW n \in Launches, LostSetup(n)
    PROVE  DesktopInv'
<1> USE DEF LostSetup
<1>1. UNCHANGED <<opt, pc, sig, done, proxy, tun, vpnDev, gui>>
  OBVIOUS
<1>2. GuiTypeOK' /\ HandleInv' /\ CommandInv' /\ ChildInv'
  BY DEF DesktopInv, guiVars, GuiTypeOK, HandleInv, CommandInv, ChildInv
<1>3. ProcTypeOK'
  BY <1>1 DEF DesktopInv, ProcTypeOK, Added
<1>4. RouteInv'
  BY <1>1 DEF DesktopInv, RouteInv, OwnRoutes, Added
<1> QED
  BY <1>2, <1>3, <1>4 DEF DesktopInv
-----------------------------------------------------------------------------
(* Every step of the process, the application and the system keeps the     *)
(* invariant.                                                              *)
LEMMA DesktopStep == DesktopInv /\ [Next]_vars => DesktopInv'
<1> SUFFICES ASSUME DesktopInv, [Next]_vars
             PROVE  DesktopInv'
  OBVIOUS
<1>1. CASE Run(main \/ Ready \/ StartFails \/ handler) \/ Run(Signal)
  BY <1>1, RunStep
<1>2. CASE gui /\ Command
  BY <1>2, SpawnStep, KillStep, CommandStep DEF Command
<1>3. CASE gui /\ User
  BY <1>3, CommandStep DEF User
<1>4. CASE gui /\ \E n \in Launches :
              Watch(n) \/ WatchFails(n) \/ Exits(n) \/ LostExits(n) \/ LostSetup(n)
  BY <1>4, WatchStep, ExitStep, LostStep
<1>5. CASE UNCHANGED vars
  <2>1. UNCHANGED <<procVars, left>> /\ UNCHANGED gui
        /\ UNCHANGED <<child, running, active, alive, lost, launched, cmd, name, monitor, uiRunning, uiActive>>
    BY <1>5 DEF vars, guiVars
  <2>2. GuiTypeOK' /\ HandleInv' /\ CommandInv'
    BY <2>1 DEF DesktopInv, GuiTypeOK, HandleInv, CommandInv
  <2> QED
    BY <2>1, <2>2, ProcessAlone DEF DesktopInv, ChildInv
<1> QED
  BY <1>1, <1>2, <1>3, <1>4, <1>5 DEF Next

(* The invariant holds in every state, however often the application       *)
(* starts, stops and loses its child, and wherever a kill finds main.      *)
THEOREM DesktopInvariant == Spec => []DesktopInv
  BY DesktopInit, DesktopStep, PTL DEF Spec

(* The state of the process and of the application keeps its types; a      *)
(* stored handle has a thread that watches it.                             *)
THEOREM DesktopTypeOK == Spec => [](GuiTypeOK /\ ProcTypeOK)
<1>1. DesktopInv => GuiTypeOK /\ ProcTypeOK
  BY DEF DesktopInv
<1> QED
  BY DesktopInvariant, <1>1, PTL

(* No two turnguard processes of the application run at a time, the        *)
(* running one can be reached by stop_tunnel and quit_app, and none        *)
(* outlives quit_app (lib.rs), but for those that a failed try_wait has    *)
(* lost.                                                                   *)
THEOREM OneTunnelAlways == Spec => []OneTunnel
<1>1. DesktopInv => OneTunnel
  <2> SUFFICES ASSUME DesktopInv
               PROVE  OneTunnel
    OBVIOUS
  <2>1. Cardinality(alive \ lost) <= 1
    BY AtMostOne DEF DesktopInv, HandleInv
  <2>2. cmd \in {"idle", "exited"} => alive \ lost \subseteq {child}
    BY DEF DesktopInv, CommandInv, Stored, Taken
  <2> QED
    BY <2>1, <2>2 DEF OneTunnel
<1> QED
  BY DesktopInvariant, <1>1, PTL

(* However main ends by itself no route it added is left: what is there    *)
(* was there before, or belongs to a child that was killed or lost         *)
(* (main.go, routes.go).                                                   *)
THEOREM RoutesRemovedAlways == Spec => []RoutesRemoved
<1>1. DesktopInv => RoutesRemoved
  BY DEF DesktopInv, RouteInv, RoutesRemoved
<1> QED
  BY DesktopInvariant, <1>1, PTL
=============================================================================
