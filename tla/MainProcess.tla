---------------------------- MODULE MainProcess ----------------------------
(***************************************************************************)
(* The turnguard process (cmd/turnguard/main.go): main itself, the         *)
(* goroutine that waits for a signal, the WireGuard device                 *)
(* (internal/core/vpn.go) and the routes of the full-tunnel mode           *)
(* (internal/core/routes.go).                                              *)
(*                                                                         *)
(* StartProxy is three steps: its context is installed, then a stream      *)
(* reports, or it fails, or the context is cancelled (ProxyLifecycle has   *)
(* the detail).  The routing commands of the operating system are          *)
(* external: adding a destination that has a route fails, and so does      *)
(* adding one that is not an address.  The process is composed with what   *)
(* starts it in Desktop.                                                   *)
(***************************************************************************)
EXTENDS Naturals

CONSTANTS Relays,       \* GetVKRelayIPs
          Peer,         \* peerAddr: host:port
          DefaultRoute  \* the default route through the TUN device

ASSUME MainAssumption ==
    Relays \cap {Peer, DefaultRoute} = {} /\ Peer # DefaultRoute

VARIABLES opt,          \* the flags and the machine: see Options
          pc,           \* where main is
          sig,          \* where the signal goroutine is
          done,         \* ctx is cancelled
          proxy,        \* the proxy's context
          tun,          \* the TUN device is up
          vpnDev,       \* the variable vpnDev is set
          routes        \* destinations with a route of their own

procVars == <<opt, pc, sig, done, proxy, tun, vpnDev, routes>>

Options ==
    [web     : BOOLEAN,                        \* -webui
     vpn     : BOOLEAN,                        \* -vpn
     keys    : BOOLEAN,                        \* both WireGuard keys are given
     full    : BOOLEAN,                        \* AllowedIPs is everything
     persist : BOOLEAN,                        \* a path for the DNS cache, or a home directory
     gateway : BOOLEAN,                        \* the machine has a default gateway
     os      : {"unix", "windows", "other"},   \* runtime.GOOS
     before  : SUBSET Relays]                  \* routes that were there before

Places == {"none", "begin", "web", "serving", "proxy", "starting", "vpn", "vpnUp",
           "routing", "active", "stopped", "persist", "exited"}

ProcInit ==
    /\ opt \in Options
    /\ sig = "none" /\ done = FALSE
    /\ proxy = "none" /\ tun = FALSE /\ vpnDev = FALSE
    /\ routes = opt.before

(* A process begins, or is killed: of the machine only the routes stay. *)
Process(now) ==
    /\ pc' = now
    /\ sig' = "none" /\ done' = FALSE
    /\ proxy' = "none" /\ tun' = FALSE /\ vpnDev' = FALSE
    /\ UNCHANGED <<opt, routes>>

Goto(from, to) == pc = from /\ pc' = to

-----------------------------------------------------------------------------
(* main *)

(* A missing flag or a bad wrap key ends the process before anything runs. *)
Refuse ==
    /\ Goto("begin", "exited")
    /\ UNCHANGED <<opt, sig, done, proxy, tun, vpnDev, routes>>

(* The context, signal.Notify and the goroutine that waits. *)
Prepare ==
    /\ Goto("begin", IF opt.web THEN "web" ELSE "proxy")
    /\ sig' = "waiting"
    /\ UNCHANGED <<opt, done, proxy, tun, vpnDev, routes>>

WebStart ==
    /\ Goto("web", "serving") \/ Goto("web", "exited")
    /\ UNCHANGED <<opt, sig, done, proxy, tun, vpnDev, routes>>

(* os.Exit(0): no deferred call runs. *)
WebExit ==
    /\ Goto("serving", "exited") /\ done
    /\ UNCHANGED <<opt, sig, done, proxy, tun, vpnDev, routes>>

Install ==
    /\ Goto("proxy", "starting")
    /\ proxy' = "live"
    /\ UNCHANGED <<opt, sig, done, tun, vpnDev, routes>>

Ready ==
    /\ Goto("starting", IF opt.vpn THEN "vpn" ELSE "active")
    /\ UNCHANGED <<opt, sig, done, proxy, tun, vpnDev, routes>>

(* StartProxy fails by itself. *)
StartFails ==
    /\ Goto("starting", "exited")
    /\ UNCHANGED <<opt, sig, done, proxy, tun, vpnDev, routes>>

StartCancelled ==
    /\ Goto("starting", "exited") /\ proxy = "cancelled"
    /\ UNCHANGED <<opt, sig, done, proxy, tun, vpnDev, routes>>

(* Keys are missing or StartVPN fails, with the device closed again. *)
VpnFails ==
    /\ Goto("vpn", "exited")
    /\ proxy' = "cancelled"
    /\ UNCHANGED <<opt, sig, done, tun, vpnDev, routes>>

(* StartVPN brings the device up; the variable is assigned after it. *)
StartVPN ==
    /\ Goto("vpn", "vpnUp") /\ opt.keys
    /\ tun' = TRUE
    /\ UNCHANGED <<opt, sig, done, proxy, vpnDev, routes>>

Assign ==
    /\ Goto("vpnUp", IF opt.full THEN "routing" ELSE "active")
    /\ vpnDev' = TRUE
    /\ UNCHANGED <<opt, sig, done, proxy, tun, routes>>

(* The commands are given the peer with its port and the relays.  Windows  *)
(* passes on the empty gateway it got, the others look one up.             *)
Added == IF opt.os = "unix" /\ opt.gateway THEN Relays ELSE {}

SetupVPNRouting ==
    /\ Goto("routing", "active")
    /\ routes' = routes \cup Added
    /\ UNCHANGED <<opt, sig, done, proxy, tun, vpnDev>>

(* ctx is done: stop the device, "TurnGuard stopped.". *)
Stopped ==
    /\ Goto("active", "stopped") /\ done
    /\ tun' = (tun /\ ~vpnDev)
    /\ UNCHANGED <<opt, sig, done, proxy, vpnDev, routes>>

(* Mutation: only what was there before the start is removed. *)
CleanupOld ==
    /\ Goto("stopped", "persist")
    /\ routes' = routes \ opt.before
    /\ UNCHANGED <<opt, sig, done, proxy, tun, vpnDev>>

Removed == IF opt.vpn /\ opt.full /\ opt.os # "other" THEN Relays ELSE {}

(* The deferred CleanupVPNRouting, if it was registered. *)
CleanupVPNRouting ==
    /\ Goto("stopped", "persist")
    /\ routes' = routes \ Removed
    /\ UNCHANGED <<opt, sig, done, proxy, tun, vpnDev>>

(* The deferred Persist.Stop never returns if there is a cache (DnsPersist *)
(* shows why); without one nothing was deferred.                           *)
Finish ==
    /\ Goto("persist", "exited") /\ ~opt.persist
    /\ UNCHANGED <<opt, sig, done, proxy, tun, vpnDev, routes>>

-----------------------------------------------------------------------------
(* The signal goroutine; a second signal is never read *)

Signal ==
    /\ sig = "waiting" /\ pc # "exited"
    /\ sig' = "device"
    /\ UNCHANGED <<opt, pc, done, proxy, tun, vpnDev, routes>>

(* vpnDev is read without synchronisation: nil may be seen after main has  *)
(* assigned it.                                                            *)
StopDevice ==
    /\ sig = "device"
    /\ sig' = "proxy"
    /\ \E seen \in {FALSE, vpnDev} : tun' = (tun /\ ~seen)
    /\ UNCHANGED <<opt, pc, done, proxy, vpnDev, routes>>

(* Mutation: the proxy is left running. *)
SkipStopProxy ==
    /\ sig = "proxy"
    /\ sig' = "cancel"
    /\ UNCHANGED <<opt, pc, done, proxy, tun, vpnDev, routes>>

(* Without a context installed StopProxy does nothing. *)
StopProxy ==
    /\ sig = "proxy"
    /\ sig' = "cancel"
    /\ proxy' = IF proxy = "live" THEN "cancelled" ELSE proxy
    /\ UNCHANGED <<opt, pc, done, tun, vpnDev, routes>>

(* Mutation: the context is not cancelled. *)
SkipCancel ==
    /\ sig = "cancel"
    /\ sig' = "returned"
    /\ UNCHANGED <<opt, pc, done, proxy, tun, vpnDev, routes>>

Cancel ==
    /\ sig = "cancel"
    /\ sig' = "returned"
    /\ done' = TRUE
    /\ UNCHANGED <<opt, pc, proxy, tun, vpnDev, routes>>

-----------------------------------------------------------------------------
main ==
    \/ Refuse \/ Prepare \/ WebStart \/ WebExit \/ Install \/ StartCancelled
    \/ VpnFails \/ StartVPN \/ Assign \/ SetupVPNRouting
    \/ Stopped \/ CleanupVPNRouting \/ Finish

handler == pc # "exited" /\ (StopDevice \/ StopProxy \/ Cancel)

-----------------------------------------------------------------------------
(* The type of the state; there is a device only if -vpn asked for it. *)
ProcTypeOK ==
    /\ opt \in Options
    /\ pc \in Places
    /\ sig \in {"none", "waiting", "device", "proxy", "cancel", "returned"}
    /\ done \in BOOLEAN
    /\ proxy \in {"none", "live", "cancelled"}
    /\ tun \in BOOLEAN /\ vpnDev \in BOOLEAN
    /\ tun \/ vpnDev => opt.vpn /\ opt.keys
    /\ routes \subseteq Relays \cup {Peer, DefaultRoute}

(* A signal brings the device down, or the process ends, also one that     *)
(* comes while the device is being started.                                *)
SignalBringsDown == sig = "device" /\ pc # "exited" ~> [](~tun) \/ pc = "exited"

(* A signal that comes once StartProxy has installed its context ends the  *)
(* process, unless a DNS cache is kept.                                    *)
LateSignalEnds ==
    sig = "device" /\ proxy = "live" /\ ~opt.persist ~> pc = "exited"

(* "Received signal %v, shutting down..." (main.go:182): the process ends  *)
(* after any signal; one without a DNS cache has nothing to hang in.       *)
SignalEnds == sig = "device" /\ ~opt.persist ~> pc = "exited"

(* "CleanupVPNRouting removes routes added by SetupVPNRouting"             *)
(* (routes.go:51): no other route is removed.                              *)
OnlyAddedRemoved == pc \in {"persist", "exited"} => opt.before \subseteq routes

(* "we need to: 1. Add a route for the TURN server IP through the default  *)
(* gateway ... 3. Add default route through the TUN device" (routes.go:7): *)
(* the routes of an active full tunnel on a machine that has a gateway.    *)
FullTunnelRouted ==
    pc = "active" /\ opt.vpn /\ opt.full /\ opt.gateway /\ opt.os = "unix"
        => {Peer, DefaultRoute} \cup Relays \subseteq routes
=============================================================================
