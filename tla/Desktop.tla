------------------------------ MODULE Desktop ------------------------------
(***************************************************************************)
(* The turnguard process and what starts it: a user at a terminal, who may *)
(* send it a signal, or the desktop application, which spawns it as a      *)
(* child and ends it with a kill.  The process modelled is the one started *)
(* last; of a child the application has lost and that still runs beside it *)
(* only its exit and the routes it adds.                                   *)
(***************************************************************************)
EXTENDS MainProcess, GuiTunnel

VARIABLES gui,          \* the desktop application runs it
          left          \* routes of processes that were killed or lost (history)

vars == <<procVars, guiVars, gui, left>>

(* The application's child gets a configuration file and a path for the    *)
(* DNS cache; of the machines a Unix one with a gateway is looked at.      *)
GuiOptions ==
    {o \in Options : /\ ~o.web /\ o.persist /\ o.keys /\ o.gateway
                     /\ o.os = "unix" /\ o.before = {}}

Init ==
    /\ ProcInit /\ GuiInit
    /\ gui \in BOOLEAN
    /\ gui => opt \in GuiOptions
    /\ pc = IF gui THEN "none" ELSE "begin"
    /\ left = {}

-----------------------------------------------------------------------------
(* The process runs; at a terminal it may get a signal. *)
Run(step) == step /\ UNCHANGED <<guiVars, gui, left>>

(* The application's commands: a spawn begins a process, and the kill of   *)
(* stop_tunnel_internal ends the one that runs.                            *)
SpawnChild ==
    /\ Spawn
    /\ Process("begin")
    /\ left' = left \cup (IF alive = {} THEN {} ELSE routes)
    /\ UNCHANGED gui

KillChild ==
    /\ TakeChild
    /\ IF child \in alive /\ child = launched
       THEN Process("exited") /\ left' = left \cup routes
       ELSE UNCHANGED <<procVars, left>>
    /\ UNCHANGED gui

Command ==
    \/ SpawnChild \/ KillChild
    \/ (ClearState \/ SpawnFails \/ SetRunning \/ SetActive \/ StoreChild \/ EmitRunning)
          /\ UNCHANGED <<procVars, gui, left>>

User == (Quit \/ \E t \in Tunnels : Toggle(t)) /\ UNCHANGED <<procVars, gui, left>>

Watch(n) == watching(n) /\ UNCHANGED <<procVars, gui, left>>

WatchFails(n) == MonitorFails(n) /\ UNCHANGED <<procVars, gui, left>>

(* The operating system sees the exit of the process. *)
Exits(n) ==
    /\ ChildExits(n)
    /\ n = launched /\ pc = "exited"
    /\ UNCHANGED <<procVars, gui, left>>

(* A lost child beside the last one ends some time, or gets as far as *)
(* SetupVPNRouting.                                                   *)
LostExits(n) ==
    /\ ChildExits(n) /\ n < launched
    /\ UNCHANGED <<procVars, gui, left>>

LostSetup(n) ==
    /\ n \in alive /\ n < launched /\ opt.vpn /\ opt.full
    /\ routes' = routes \cup Added
    /\ left' = left \cup Added
    /\ UNCHANGED <<opt, pc, sig, done, proxy, tun, vpnDev, guiVars, gui>>

Next ==
    \/ Run(main \/ Ready \/ StartFails \/ handler)
    \/ ~gui /\ Run(Signal)
    \/ /\ gui /\ cmd # "exited"
       /\ \/ Command \/ User
          \/ \E n \in Launches :
                Watch(n) \/ WatchFails(n) \/ Exits(n) \/ LostExits(n) \/ LostSetup(n)

(* main and the signal goroutine are scheduled, a command of the window    *)
(* runs to its end, and the threads that watch a child keep looking.       *)
(* Nothing makes a stream report that the proxy is ready, or StartProxy or *)
(* try_wait fail, or a lost child end, or a signal or a click come.        *)
Spec ==
    /\ Init /\ [][Next]_vars
    /\ WF_vars(Run(main)) /\ WF_vars(Run(handler))
    /\ WF_vars(gui /\ Command)
    /\ \A n \in Launches : WF_vars(gui /\ cmd # "exited" /\ (Watch(n) \/ Exits(n)))

-----------------------------------------------------------------------------
(* However main ends by itself, by os.Exit or through its deferred calls,  *)
(* and also while it hangs in Persist.Stop, no route it added is left      *)
(* behind: what is there was there before, or belongs to a process that    *)
(* was killed or lost by the application.                                  *)
RoutesRemoved == pc \in {"persist", "exited"} => routes \subseteq opt.before \cup left

(* "CleanupVPNRouting removes routes added by SetupVPNRouting"             *)
(* (routes.go:51), and stop_tunnel stops the tunnel (lib.rs:361): once the *)
(* application has stopped its tunnel no route of it is left.              *)
StopRemovesRoutes == gui /\ cmd = "idle" /\ alive = {} => routes \subseteq opt.before
=============================================================================
