# A TLA+ development for TurnGuard

TurnGuard carries WireGuard packets over the TURN relays of a video-call service. The process obtains
TURN credentials (from VK through a chain of web requests with captchas, or from WB), keeps a number of *streams*
(one TURN allocation each) connected, spreads the packets of the local WireGuard client over them, and
looks after its addresses, its DNS cache, its routes and its own updates; a desktop application starts
and stops it as a child. This directory holds TLA+
modules translated from the Go sources, TLC configurations that check them on small instances, and
TLAPS proofs, for every size of the instance, of nearly all the invariants those runs check.

Run a check with `tlc -config X.cfg M` and a proof with `tlapm MProofs.tla`, in this directory.
`PROJECT.json` lists the runs, the lines each definition models, the hazards, and a mutated definition
for every property, under which TLC finds the property violated.

## 1. Inventory

All paths are below `src/`; `core/` stands for `internal/core/`.

| Component | State it keeps | Operations | What makes it correct |
|---|---|---|---|
| Credential cache (`core/credentials.go`) | map of caches under an RWMutex; per cache a mutex, link, expiry; the global `fetchMu` | `getStreamCache`, `getCredsCached`, `serializeFetch`, `handleAuthError` (never called) | one fetch at a time, none that the cache makes needless, nothing served past its lifetime or for another link, no lock held for ever |
| TURN stream (`core/turn_client.go` `run`, `runDTLS`, `runNoDTLS`) | connection, relay, packet pipe, context and up to five goroutines per attempt | reconnect loop, handshake, session ID, pumps, watchdog, cleanup | old attempts do not disturb the new one; a session that lost a part ends; a stop releases everything |
| Packet hub (`core/turn_client.go`, `packetPool`) | pooled buffers, a queue per stream, round-robin index, return addresses | hub loop, TX goroutines | a buffer has one owner, is never lost and not reused while queued; replies follow a client that moved |
| Proxy lifecycle (`core/turn_client.go`, `core/webui.go`) | current cancel function under `turnMutex`, the globals wrap key and credential function, status | `StartProxy`, `startProxyImpl`, `StopProxy`, HTTP handlers | a proxy that is alive can be stopped; a cancelled one goes away; the status is true |
| VK authentication (`core/vk_auth.go`, captcha solvers) | loop counter, form of the next request, `fetchMu` | token chain, ladder of captcha solvers, stream pauses | a success token goes with its challenge; the fetch ends; a stop ends everyone |
| WB credentials (`core/wb.go`) | rounds of the read loop, bytes of a message | guest, room, join, token, websocket, protobuf reader | what is read is what was sent, cut or overflowing lengths included; the fetch ends |
| Manual captcha (`core/captcha_server.go`, `core/browser.go`) | local HTTP server, token channel of one place, reads of standard input left behind | solver, proxy and callback handlers, timeout, shutdown, fallback to the terminal | first token wins, the solver returns |
| VK addresses (`core/vk_hosts.go`) | dynamic and baseline addresses, metrics, `dnsOK`, RWMutex | `Resolve`, `selectBestIP`, `RecordSuccess/Failure`, collector | a bad address is not preferred; nobody blocks for ever |
| DNS resolver (`core/resolver.go`) | index of the last good server, two caches | `Resolve`, `ResolveAll` over UDP, DoH, DoT | every server is tried before an error; answers are kept |
| Persistent DNS cache (`core/dns_cache_persist.go`) | dirty flag, saver goroutine, file and temporary file | `MarkDirty`, `save`, `Load`, `Stop` | the file is whole; what was learned gets saved |
| Updater (`core/updater.go`) | ETag file, executable, `.new`, `.old` | the checker's goroutine, `-check-update`, the web UI's check; download, two renames, rollback | no kill, failure or second updater loses the program |
| Process, VPN, routes (`cmd/turnguard/main.go`, `core/vpn.go`, `core/routes.go`) | options, signal goroutine, device, routes | `main`, `StartVPN`, `SetupVPNRouting`, `CleanupVPNRouting` | the device and routes go when the process goes |
| Desktop application (`gui/turnguard-gui`) | child handle, `running`, `active_tunnel`, a watching thread per child, the window's state | `start_tunnel`, `stop_tunnel`, `quit_app`, exit monitor, events | one child at a time, no child or exit is missed, the window is right |
| Packet wrap, captcha computations, configuration and logs, unused package copies | see section 7 | | not modelled |

**How they interact.** `main` or a web UI handler calls `StartProxy`, which cancels the previous
generation, opens the local socket and starts the hub and the streams. Each stream calls
`getCredsCached`, whose miss runs the VK chain or the WB exchange under `fetchMu`; VK's dials through `VkHosts`,
and the last rung of its captcha ladder waits for a browser or a line at the terminal; `VkHosts`
asks the DNS resolver; both mark the persistent cache dirty. Streams report the first session
through a channel that lets `StartProxy` return. Cancelling is by context, everywhere; sockets and
relays are closed by `context.AfterFunc` callbacks. The updater runs beside all of this, in this process and
in others. The desktop application spawns the process and ends it with a kill.

**What is hard in this code.** Generations of the proxy overlap; goroutines of an old attempt run while
the next one connects; a mutex is held across network calls; contexts are cancelled at any moment, and
some calls do not listen to them; deadlines on one connection are set from two goroutines; buffers
change hands between goroutines through a pool; a shared handle outlives the thread that watches it; files are replaced while the process may be killed;
answers of DNS, of the captcha page and of timers race. `PROJECT.json` lists 40 such hazards, each at
its line with the properties that cover it or the reason why none does.

## 2. Modules and how they correspond to the code

Goroutines are processes with a program counter (`pc`, `stage`, `spc`...), a mutex is a variable with
its holder, a critical section that waits for nothing inside is one step. Time is counted in ticks that
*remain*, so no clock grows. Definitions whose comment starts with "Mutation" are deliberately wrong
variants that only the mutants of `PROJECT.json` use.

* **CredService** is the abstract credential service: one slot per cache ID with a link and remaining
  time, the fetch in flight, and the callers filling a slot. No locks.
* **CredCache** is `credentials.go`: `LookupCache`/`CreateCache` are the two halves of
  `getStreamCache`, `LockCache`, `CacheHit`, `CtxDone`, `CacheMiss`, `LockFetch`, `FetchReturns`,
  `FetchError`, `Store` the steps of `getCredsCached` with its deferred unlock. `srv` is what is left of
  the lifetime the server granted (a ghost beside the code's `ExpiresAt`, here `ttl`). `MaxStoreDelay`
  bounds how long an issued credential waits to be stored: the chain sleeps 5 s after the answer, and
  the safety margin is 60 s. **MCCredCache** gives it four callers.
* **CredCacheProofs**, **TurnStreamProofs**, **HubProofs**, **ProxyLifecycleProofs**, **CredFetchProofs**,
  **UpdaterProofs** and **DesktopProofs** hold the theorems about the module they are named after, and
  **DnsProofs** those about DnsPersist, DnsResolver and VkHosts (section 5).
* **TurnStream** is one stream across its reconnects. What a session owns is kept per attempt, so the
  goroutines of a failed attempt go on beside the next one. `Unblocked(a, g)` says what makes the
  blocking call of goroutine `g` return for certain; `PumpFails` lets it fail by itself.
* **Hub** is the hub goroutine, the queues, the TX goroutines and `packetPool` as a bag of buffers with
  contents, and each stream's return address; `streak` remembers how many datagrams in a row came from one
  address with every stream ready (history). **MCHub** adds the symmetry of buffers and packets.
* **ProxyLifecycle** is `handleStart`, `StartProxy`, `startProxyImpl`, `StopProxy` and `handleStop`,
  step by step around `turnMutex`, with the two globals a start sets outside it: the wrap key (once in
  `handleStart`, before the status, and again in `startProxyImpl`), and the
  function that fetches credentials (VK or WB). `overlapped` remembers whether two calls were ever under way
  at a time (history). **MCProxyLifecycle** gives each start a key and a mode.
* **FetchQueue** is what every fetch shares: the streams at `fetchMu` and the pauses of `stream.run`.
* **VkAuth** is `getTokenChain` with its ladder of solvers (`SolveMode` is `captchaSolveModeForAttempt`).
  Captcha `k` of a fetch is challenge `k`, and a form remembers whose `captcha_sid` and whose
  `success_token` it sends. Solver computations are abstracted to whether they yield a token; requests,
  checks, the slider's guesses and their failures are steps.
* **WbProto** is the schema-less protobuf reader of `wb.go` on sequences of bytes, with varints and offsets at
  the width of a machine word, and beside it the encoder of the messages it is meant for. `wbPbICE` and the
  others are functions of bytes; `Credentials`, `ChosenField` say what a message holds.
* **WbAuth** is the chain of requests and the read loop of the websocket, which receives whole, cut off and
  overflowing frames and looks for credentials with WbProto.
* **CaptchaServer** is `SolveCaptchaWithProxy` with its handlers, one solve after another, and
  `SolveCaptchaBrowserStdin`, whose abandoned `Scanln` goroutines still take lines; `net/http` is external.
* **CredFetch** composes FetchQueue, VkAuth, WbAuth and CaptchaServer: the browser rung of the ladder is a
  solve of CaptchaServer, entered with `fetchMu` locked. **MCCredFetch** gives the frames LiveKit may send.
* **VkHosts** is `vk_hosts.go` for one domain. `Score` is `HostMetric.Score` as an exact fraction, `Best`
  the loop of `selectBestIP`. The RWMutex keeps new readers out while a writer waits, as Go's does.
  **MCVkHosts** gives one baseline address and one that only DNS knows.
* **DnsResolver** is `resolver.go` for one domain; a response is the sequence of its records.
  **MCDnsResolver** gives three servers, one per transport. **Addresses** is what these two and
  DnsPersist share: the addresses, the flag `dnsOK`, and the loops that append to a list what the map `seen`
  does not hold yet.
* **DnsPersist** is the path of an address from an answer through `hostCache` and `vkHosts.dynamic` to
  the disk and back after a restart; `save` is one step per lock, write and rename.
* **Updater** is `updater.go` with three callers: the checker's goroutine, the process `-check-update` and the
  web UI's check. The disk has inodes, since two of them may write one `.new` file and one may rename what
  the other still writes. `mishaps` remembers what went wrong (history): a kill, a failed rollback, two
  downloads at a time, a download begun with no program at the path (a *retry* after one of the others); the
  properties say which of them they exclude.
* **MainProcess** is `main` and its signal goroutine for every combination of flags and machine, with
  `StartProxy` as three steps, the device and the routing commands.
* **GuiTunnel** is the tunnel switch of the desktop application (`lib.rs`): the three commands in the order
  in which they take and release the locks of the shared state, one watching thread per child that polls the
  *shared* handle, and what `App.tsx` shows. `MonitorFails` is the error of `try_wait`: the handle goes although
  the child may run, which `lost` remembers (history).
* **Desktop** composes GuiTunnel with MainProcess: a spawn begins a process, a kill ends it where it stands,
  and its own exit is what the threads wait for. Of a lost child that runs beside the next one only its exit
  (`LostExits`) and its routes (`LostSetup`) are modelled. With `gui = FALSE` it is the process at a terminal.

The modules meet where one's environment is another's result. CredFetch and Desktop are compositions that
are checked as such; beyond them, CredFetch's `FetchEnds` says under which conditions the fetch returns that
CredCache waits for; when the streams of a cancelled proxy end is TurnStream's `StopReleasesAll` (with DTLS;
without it they may not, see section 4), and ProxyLifecycle's `EndStreams` may happen and need not; ProxyLifecycle's `StoreMode` is the `mode` of CredFetch, and what it takes there is the value at the
start; DnsPersist shows the hang that MainProcess has in `Finish`.

## 3. Runs

All finish within minutes. Deadlock is checked in `cred_cache`, `hub`, `fetch` and `dns_persist`. Elsewhere
the configuration says `CHECK_DEADLOCK FALSE` because the system ends: a stream returns, a loop is done, a
process exits, or a bound on attempts is used up. `vk_hosts` and `dns_persist_stop` also contain a real
deadlock of the code, which is a subject of section 4. The type invariants that are not in a configuration
(`TypeOK`, `VkTypeOK`, ...) document the variables; most of them are proved (section 5).

| Run | Module | Checks | Bounds and why they are enough |
|---|---|---|---|
| `cred_cache` | MCCredCache | `TypeOK`, `NoRedundantFetch`, `CachedStillValid`, `AnswerForOwnLink`, `NoStall`, refinement `ImplementsService` | two streams on one cache, one on another, and a stream of the next generation with another link on the first: sharing, independence and the restart are all there. Lifetime 2, margin 1, delay 1 make every expiry and its edge happen. Proved in general in section 5 |
| `turn_stream` | TurnStream | `TypeOK`, `OneConsumer`, `OldAttemptsCondemned`, `LostSessionEnds`, `StopReleasesAll` | two dialled attempts, so that one is old while the other is new, for the two DTLS protocols and the plain one; what an attempt leaves behind depends on no earlier one |
| `hub` | MCHub | `PacketsIntact`, `BufferOwnedOnce`, `AddressesCatchUp` | two streams, queues of one place, five buffers: one in the hub, one in each queue and each TX goroutine, so allocation is never what stops the hub and both full queues and an exhausted pool occur. Two client addresses, so that a stream can hold the old one. Buffers and packets are symmetric: the module treats them only by equality |
| `proxy_lifecycle` | MCProxyLifecycle | `LiveIsCurrent`, `SequentialStatus`, `CancelledGoes` | two starts, one per mode, and any number of stops: the races are between two starts and a stop. The liveness property has no symmetry |
| `fetch` | MCCredFetch | `OneLateSolve`, `TokenMatchesSid`, `FirstTokenWins`, `ParserAgrees`, `FetchEnds`, `StoppedStreamsReturn` | two streams: one fetches, one queues or pauses. The ladder has its real length of five; a short pause of 1 tick and a long one of 2 keep the order of 1 s and 20 s; a page and two callbacks, so that one token finds the channel full. A word has 15 bits, which leaves the last of a varint's groups one bit, as 64 does, and lets a length overflow; two rounds of reading (15 in the code) have a first and a last. The frames cover each kind of field, both fields the reader looks at, each place of a cut in two blocks, and a length that overflows |
| `vk_hosts` | MCVkHosts | `UsableFirst`, `StallsOnlyNested` | a dialer and the collector, two addresses, two recorded attempts each. `FailLimit` is 0 instead of 5, so that the exclusion is reached within the attempts |
| `dns_resolver` | MCDnsResolver | `EveryServerTried`, `AnswersKept`, `ResolutionEnds` | one caller of each kind, three servers of which `ResolveAll` asks two (the code: many and three), and answers with one, two or no address, or one address twice |
| `dns_persist` | DnsPersist | `FileNeverTorn`, `CleanMeansSaved`, `LearnedGetsSaved` | two resolvers and the saver, two addresses, one kill or failed write anywhere. A second fault starts from a state the first one already reaches: a fresh process with any file, or a clean flag after a failure |
| `dns_persist_stop` | DnsPersist | `StopSaves`, **violated** | one address, no faults: the hang needs none |
| `updater` | Updater | `NeverTorn`, `AlwaysRecoverable`, `MissingOnlyWhileReplacing` | all three callers, one newer release, kills and failures at any step and in any number: an update starts from the same files whatever was installed before |
| `updater_race` | Updater | `ProgramKept`, **violated** | the checker and the command, without kills |
| `desktop` | Desktop | `RoutesRemoved`, `OneTunnel`, `SignalBringsDown`, `LateSignalEnds`, `ExitNoticed` | at a terminal two relays and every combination of flags, system and routes that exist before; under the application two tunnels and two children, so that the thread of the first may poll, and give up, the handle of the second, and a lost first child runs beside the second. The theorems of section 5 are for any number |

What each property says is in the comment above it. What they show, beside the types:

* *Credentials.* Streams that share a cache cost one fetch per expiry, whatever the interleaving; the
  margin covers the delay between issue and storing; the locks do not stall.
* *Streams.* No TX goroutine of an old attempt takes packets of the new session, nothing of an old attempt
  is left in a call that nothing will end, and with DTLS losing any goroutine but the deadline updater
  ends the session.
* *Hub.* Every allocated buffer is in exactly one place, and a packet that leaves is the one that came.
* *Return addresses.* A client that moves is answered on every stream after one round of the robin, also when
  datagrams were dropped.
* *Lifecycle.* A proxy that is not cancelled is the one `StopProxy` will cancel. A cancel that falls
  before the socket is opened still closes it, because `AfterFunc` on a done context runs at once: a
  cancelled start whose lookup of the peer returns comes to its end and keeps no socket. Without
  overlapping calls the status that is reported is true.
* *Fetches.* A retried request never mixes two challenges; after a stop at most one more captcha is begun;
  `fetchMu` is given back whichever way a fetch of either kind ends, the browser's included, and a stop gets
  the streams out of fetch, queue and pause. Both are stated under the two conditions the code does
  not bound: lookups of names return (`LookupsReturn`), and VK answers what the local proxy forwards
  (`UpstreamAnswers`). Several posted tokens yield the first or none.
* *WB.* The reader finds every credential of the field it chooses, with its own block's user and password,
  and takes nothing out of a message that is cut off; a length that overflows neither moves it backwards nor
  out of the message.
* *Addresses and names.* An excluded address is not given out while another is known, although list and
  scores are read under different locks; no resolution hangs but for the nested read lock; no server is
  skipped.
* *Persistence and updates.* The rename keeps the cache file whole; clearing the dirty flag *before* the
  snapshot is what keeps updates from being lost, and after a failed write the next change saves all. With
  one updater at a time the rollback and the `.old` file keep a program, until a download begins while the
  program is at `.old` only.
* *Process and desktop.* `os.Exit` skips deferred calls, but only where no route was added yet. The
  application never runs two children, whatever the threads of earlier ones do to the shared handle, but for
  those whose handle it dropped because `try_wait` failed.

**Fairness** is assumed only of goroutines that can run, of timers, and of calls with a timeout:

* TurnStream: weak fairness of `run` (dial and allocation have bounded waits), of the handshake's clock, of
  the expiry of credentials, of every `AfterFunc` and of a goroutine *whose blocking call must return*.
  No traffic, no failure, no answer to a handshake and no stop is assumed. Strong fairness of `Return`: in
  the `select` of a wait, where the timer may win although the context is done, Go picks at random.
* ProxyLifecycle: the start's goroutine but for its lookup of the peer's name, and the `AfterFunc`s. Nothing
  of the end of cancelled streams, which without DTLS may not come.
* CredFetch: weak fairness of each stream's steps in a fetch and between fetches (every HTTP client there has
  a timeout, and the solvers terminate) and of the pauses' clock; strong fairness of taking `fetchMu`: Go's
  mutex hands over to a waiter that is starved for more than a millisecond. No message of the websocket is
  assumed: a read has a deadline of 5 s. Of the manual solver its own steps, its timers and a callback's
  handler. Not assumed: that a step which looks a name up (`Lookups`) is done, since `vkHosts` and the
  caches take locks that may never be free (section 4), that VK answers a proxied request, since the proxy's
  transport has no timeout, and that a session ends; where a property needs the first two, it says so.
  The browser and the user need do nothing.
* VkHosts: weak fairness of the collector's steps and strong fairness of a dialer's, which `RWMutex.Unlock`
  lets in. Dials are not assumed to end.
* DnsResolver: a resolution that has begun goes on; each query has a timeout.
* DnsPersist: the saver with its ticker, and resolutions that have begun.
* Desktop: `main`, the signal goroutine, the command on the application's main thread, and the watching
  threads while the application runs. A stream that reports, a start or a `try_wait` that fails, the end of a
  lost child, a signal and a click are not assumed.

CredCache, Hub and Updater check safety only and assume none.

## 4. Where the code and its comments disagree

Two are kept as runs.

`dns_persist_stop`: *"Persistent DNS cache — stores resolved IPs between restarts"*
(`core/dns_cache_persist.go:12`), but `Persist.Stop` (line 297) waits for the saver holding `p.mu`, and
the saver's last save locks `p.mu`: `Stop` never returns, the last changes are not saved and `main` does
not exit.

`updater_race`: *"Auto-update — checks GitHub Releases every 6h, downloads and replaces self"* (`README.md:14`),
but nothing keeps the checker of a running process and `turnguard -check-update` apart. When both replace at a
time, one's `os.Remove(backupPath)` (`core/updater.go:209`) deletes the only complete copy that the other has
just renamed away: no program is left at the path or beside it, without any kill.

The modules also state the following as named properties that TLC refutes. They are not in the
configurations of the passing runs; to see a counterexample, copy the module's configuration and put this one
property in it (a state predicate under `INVARIANT`), with the change in the last column.

| Property | The text | What the code does | Change |
|---|---|---|---|
| TurnStream `StopReleasesPlain` | "StopProxy stops the TURN proxy" (`core/turn_client.go:592`) | in `runNoDTLS` the RX goroutine reads the relay without a deadline and nothing closes it on a cancel (only `runDTLS` registers a cleanup): the stream stays until a packet comes | `PeerTypes = {"direct"}` |
| TurnStream `HandshakeEnds` | "Set explicit deadline for handshake" (`core/turn_client.go:355`) | the deadline updater started at line 339 renews the deadline of the same connection every 5 s to 30 s ahead, so the 10 s never pass | `PeerTypes = {"proxy_v1"}` |
| TurnStream `RejectedCredsDropped` | "Invalidate cache only after N errors within the time window" (`core/credentials.go:116`) | `handleAuthError` is never called: refused credentials are tried until they expire | `SPECIFICATION Spec`, `PeerTypes = {"proxy_v1"}`, `MaxAttempts = 4`, `MaxCacheErrors = 3` |
| ProxyLifecycle `StatusIsCurrent` | "handleStatus returns current proxy status as JSON." (`core/webui.go:116`) | a cancelled start reports "error" after the newer one reported "running"; a start may report "running" after a stop | `SPECIFICATION Spec` |
| ProxyLifecycle `OwnWrapKey`, `OwnMode` | "StartProxy starts the TURN proxy with the given parameters." (`core/turn_client.go:579`) | the wrap key (line 464) and the credential function (lines 477-487) are globals that overlapping starts read and write outside `turnMutex` | `SPECIFICATION Spec` |
| VkAuth `SharedBackoff` | "rapid 1s retries hammer the VK captcha API ... so back off explicitly" (`core/turn_client.go:105-108`) | the 20 s pause is the failed stream's own; the next one queued at `fetchMu` starts on a captcha at once | as CredFetch |
| CredFetch `FetchAlwaysEnds` | "Wait for token with timeout" (`core/captcha_server.go:313`) | `Shutdown(context.Background())` waits for every handler, also for a proxied request that is never answered (the transport of lines 111-116 has no timeout), with `fetchMu` held | as CredFetch |
| CaptchaServer `TypedLineCounts` | "After solving, paste the success_token here and press Enter" (`core/browser.go:48`) | the `Scanln` of a solve that timed out still waits and takes the line meant for the next one | as CredFetch |
| WbAuth `TurnHandedOut` | "extracts TURN credentials" (`core/wb.go:253`) | the first credential is handed out, and the reader accepts blocks with any URL: it may be a STUN server | as CredFetch |
| VkHosts `ResolveReturns` | "Resolve выбирает лучший IP для домена" (`core/vk_hosts.go:125`: chooses the best IP) | `collectMetrics` holds `RLock` (338) and calls `allIPs`, which takes it again (100): with a writer waiting in between, both wait for ever, and every later reader | none |
| VkHosts `CheckedFirst` | "Нет метрики — даём базовый score (приоритет ниже, чем у проверенных)" (`core/vk_hosts.go:183`: lower priority than checked ones) | the base score beats an address that always answered, in more than about 400 ms | `RTTs = {9, 499}` |
| VkHosts `RejectedFallBack` | "Все IP забракованы метриками — берём первый из baseline" (`core/vk_hosts.go:200`: all rejected, take the first of the baseline) | the search starts from -1 and an excluded address scores 0, so the fallback is never reached | none |
| DnsResolver `DownMeansDown` | "работает ли DNS сейчас" (`core/vk_hosts.go:83`: whether DNS works now) | `VkHosts.Resolve` takes the error of a cancelled resolution for failed DNS | `Callers = {all1}` |
| DnsPersist `ResolvedOneSaved` | header of `core/dns_cache_persist.go`, as above | `DnsCache.Resolve` marks the cache dirty, but `save` does not collect single addresses | `SPECIFICATION Spec`, `MaxFaults = 0` |
| DnsPersist `DynamicSaved` | the same | `UpdateDynamic` (`core/vk_hosts.go:236`) does not call `MarkDirty` | `SPECIFICATION Spec`, `MaxFaults = 0` |
| Updater `DoneMeansInstalled` | "On failure (no internet, rate limited, etc.): silent retry every 60 seconds" and "If new version available: download + install, then exit the loop" (`core/updater.go:230,234`) | the ETag is saved before the download (118); after a failed one the retry is answered 304, which ends the loop | `Updaters = {"checker"}` |
| Updater `RetryKeepsProgram` | "On failure ...: silent retry every 60 seconds" (`core/updater.go:230`) | when the second rename and its rollback (line 216, whose error is ignored) fail, the program is at `.old` only; the retry, unless it is answered 304, begins its replacement by deleting `.old` (209), cannot rename the missing executable (210) and removes the new file (211): one updater loses the program without a kill | `Updaters = {"checker"}` |
| MainProcess `SignalEnds` | "Received signal %v, shutting down..." (`cmd/turnguard/main.go:182`) | a signal handled before `StartProxy` installs its context stops nothing, and `StartProxy` waits for a stream | as Desktop |
| MainProcess `OnlyAddedRemoved` | "CleanupVPNRouting removes routes added by SetupVPNRouting." (`core/routes.go:51`) | the routes of all relays are deleted, also those that were there before | as Desktop |
| MainProcess `FullTunnelRouted` | "we need to: 1. Add a route for the TURN server IP ... 3. Add default route through the TUN device" (`core/routes.go:6-10`) | the peer is passed as host:port, which is no destination, and no command adds the default route | as Desktop |
| Desktop `StopRemovesRoutes` | the same line, and "stop_tunnel" (`lib.rs:361`) | the application stops its child with a kill, which runs neither the signal goroutine nor deferred calls: the routes stay | none |
| GuiTunnel `StopsExisting` | "Stop any existing tunnel first" (`lib.rs:239`) | when `try_wait` fails (332) the watching thread drops the handle of a child that may still run; `stop_tunnel_internal` then finds none, and the next child is spawned beside it | as Desktop |
| GuiTunnel `WindowAgrees` | the window's "Running" or "Stopped" (`App.tsx:216`) and "Monitor child exit" (`lib.rs:311`) | the thread of an old child finds the handle of the new one, or clears `running` and emits "stopped" after the new start set it | as Desktop |

"As" a module means: in a copy of that module's configuration, which composes the property's own.

## 5. Proofs

The runs check small instances; the theorems hold for every value of the constants, that is for any number of
streams, buffers, starts, attempts, children, callers, addresses, kills and failures. Each module `XProofs`
extends `X` (DnsProofs extends DnsPersist, DnsResolver and VkHosts, which remain separate machines: their
specifications are `Spec`, `ResolverSpec` and `HostsSpec`) and follows one pattern: an inductive invariant, a lemma that `Init` has it, lemmas that each
action keeps it, and theorems that combine them with PTL. Every inductive invariant was checked by TLC on
the run's instance before it was proved.

| Module | Theorem | States |
|---|---|---|
| CredCacheProofs | `CredInvariant` | `CredInv` always holds |
| | `TypeCorrect` | `TypeOK` |
| | `FetchesSerialized`, `ObjectsShared` | at most one fetch runs; callers of one cache ID use one object |
| | `FetchesNeeded` | `NoRedundantFetch` |
| | `CachedIsValid` | `CachedStillValid` |
| | `AnswersForOwnLink` | `AnswerForOwnLink` |
| | `LocksNeverStall` | `NoStall` |
| | `CacheImplementsService` | `Spec => Service!Spec`, the refinement |
| TurnStreamProofs | `StreamInvariant`, `StreamTypeOK` | `StreamInv`, `TypeOK` |
| | `OneConsumerAlways`, `OldAttemptsCondemnedAlways` | `OneConsumer`, `OldAttemptsCondemned` |
| HubProofs | `HubInvariantAlways`, `HubTypeOK` | `HubInvariant`, `TypeOK` |
| | `PacketsIntactAlways`, `BufferOwnedOnceAlways`, `AddressesCatchUpAlways` | the three invariants of the run |
| ProxyLifecycleProofs | `LifecycleInvariant` | `LifecycleInv` |
| | `LiveIsCurrentAlways`, `SequentialStatusAlways` | `LiveIsCurrent`, `SequentialStatus` |
| CredFetchProofs | `FetchInvariant`, `ServerInvariant` | `FetchInv` of the queue and the ladder, `ServerInv` of the captcha server |
| | `OneLateSolveAlways`, `TokenMatchesSidAlways`, `FirstTokenWinsAlways` | `OneLateSolve`, `TokenMatchesSid`, `FirstTokenWins` |
| | `ReaderEnds` | the protobuf reader of WB ends on any bytes, after at most one round per byte, never reading a field outside the message |
| DnsProofs | `PersistInvariant`, `ShutdownInvariant` | `PersistInv`, without and with a graceful shutdown |
| | `FileNeverTornAlways`, `CleanMeansSavedAlways`, `PersistTypeOK` | `FileNeverTorn`, `CleanMeansSaved`, `TypeOK`, for both specifications |
| | `CascadeInvariant`, `EveryServerTriedAlways`, `AnswersKeptAlways` | `CascadeInv` of the resolver, its invariant and its action property |
| | `HostsInvariant`, `UsableFirstAlways` | `HostsInv` of the address manager, its action property |
| UpdaterProofs | `UpdaterInvariant`, `UpdaterTypeOK` | `UpdaterInv`, `TypeOK` |
| | `NeverTornAlways`, `AlwaysRecoverableAlways`, `MissingOnlyWhileReplacingAlways` | the three invariants of the run |
| DesktopProofs | `DesktopInvariant`, `DesktopTypeOK` | `DesktopInv`, `GuiTypeOK` and `ProcTypeOK` |
| | `OneTunnelAlways`, `RoutesRemovedAlways` | `OneTunnel`, `RoutesRemoved` |

**Assumptions.** The proofs use the `ASSUME`s of the modules and nothing else. They say that parameters are of
their kind, that "none" values differ from the values they stand beside, and that sizes by which the code
divides or which it indexes are positive. `WbProtoAssumption` says that `2^Word` is a positive number: it is,
for every `Word`, but the provers know nothing of powers. Two say more. `CredAssumption` has
`MaxStoreDelay <= CacheSafetyMargin <= CredentialLifetime`: the margin must cover the time between the issue
of a credential and its storing, which is what the code rests on. `PersistAssumption` says that a torn file
is not a set of addresses, so a partial write is never mistaken for a snapshot; in the code the file is JSON,
and a prefix of it does not parse.

### The credential cache

None of the properties is inductive alone. `CredInv` is `TypeOK` and nine parts:

* `FetchLockInv`: a caller is fetching exactly if it holds `fetchMu`. Gives serialisation.
* `ObjectInv`: past the lookup a caller's object is the one in the map. This is where the double check of
  the slow path is used: the map's entry is never replaced.
* `CacheLockInv`: from check to return the caller holds its object's mutex; with `ObjectInv`, two callers
  of one cache cannot both be there (lemma `HoldersDiffer`).
* `HolderInv`: the converse; a mutex that is taken belongs to a caller that is between check and return
  with that object. Without it a mutex could be held by nobody who will release it, and `NoStall` fails.
* `MapInv`, `FreshInv`: an object is in the map under its creator's ID only, and one that is not in the map
  is as allocated. They make the creation of an object a stutter of the service.
* `MissInv`: a caller that decided to fetch *still* finds nothing to serve: nobody else can have stored
  since (`HoldersDiffer`) and time only removes. This is `NoRedundantFetch` at the object.
* `LifetimeInv`: the expiry lies within the lifetime the server granted, for what is stored and for what
  waits to be stored.
* `LinkInv`: answers, waiting or returned, are for the caller's link.

Each part has a lemma (`TypeStep`, `FetchLockStep`, ...) with one step per action, and `CredInvariant`
combines them. For `LocksNeverStall`: a caller that waits for a cache's mutex waits for a holder (`HolderInv`)
that is past its check; either that one can go on, or it waits for `fetchMu`, whose holder is fetching
and waits for nothing.

**The refinement** maps a slot to the contents of the object in the map (empty if there is none), the
fetch in flight to `fetchMu`, and the fillers to the callers in `fetching` or `store`. One lemma per kind of
step shows what the service sees: `ServiceUnseen` and `ServiceCreate` (stutter), `ServiceStart`,
`ServiceEnd`, `ServiceAbandon`, `ServicePublish`, `ServiceExpire`. `ServiceStart` needs most of the
invariant: no other filler of the slot (`HoldersDiffer`), and a slot that cannot serve (`MissInv`).

### The stream

What makes `OldAttemptsCondemned` hold is not visible in it: `runDTLS` returns without waiting for its
goroutines when the handshake fails, so what will end them must be in place *before* the loop moves on.
`StreamInv` is `TypeOK` and: `FreshInv`, an attempt to come or being set up has no goroutine, pipe, or
cancelled context; `InsideInv`, inside an attempt its connection is open; `HookInv`, in a DTLS session the
`AfterFunc` that closes the relay is registered as long as the relay is open; `LeftInv`, what the loop has
left behind is condemned; `ConsumerInv`, TX runs in the attempt that `run` waits for only, since it is started
after the last step that can leave early. `HookInv` is what carries a relay from `InsideInv` to `LeftInv`.

### The hub

`BufferOwnedOnce` counts places. `OwnInv` says the same without counting: in the pool at most once and then
nowhere else (`PoolInv`), in the hub alone (`HubInv`), at most one entry of all queues (`QueueInv`), out of the
queues and at one TX goroutine (`TxInv`), and somewhere (`NoneLost`); the sum of the counts follows with the
cardinality theorems of the library. `PacketsIntact` is inductive beside it: the hub writes only into a buffer
it has alone. For `AddressesCatchUp`, `StreakInv` follows the round robin backwards: `Age(s)` is how many picks
ago stream `s` was used, and every stream of age below `streak.n` has the streak's address. Lemma
`RoundRobin` is the arithmetic of `(lastUsed+i) % nStreams` for any number of streams.

### Starting and stopping

`LiveIsCurrent` is inductive with `ContextInv` (what is installed now was not cancelled), because the section
under `turnMutex` cancels one context and installs the next in one step. `SequentialStatus` needs to know
which failures can be met while nobody cancels the start under way: `OneCallInv` says that without overlap
there is one call under way, that its context is the installed one from `Install` on, and that how it ended says
whether its streams run; `NoStreamsYet` excludes streams of a start that has not come that far.

### Fetching

`form` and `attempt` are shared by all fetches in turn, so everything rests on `QueueInv`: `fetchMu` is held by
exactly the stream inside a fetch. `LadderInv` then has token and sid of the form equal and older than the
attempt under way. For `OneLateSolve`, `LateInv` says that once a solve was begun after the cancel no challenge
is waiting, and none can come, since a request on a cancelled context is not answered. `ServerInv` does not depend on the
queue: while the server waits the channel holds the first posted token, and what was taken from it is that.

### The persistent cache

`SavedInv` says for every stage of a save what stands for an address that is in memory and not in the file: the
dirty flag, a goroutine that is about to set it, or the snapshot. It is where the order of `save` matters (the
flag is cleared before the snapshot). `RenameInv`, the temporary file is the snapshot when it is about to be
renamed, gives `FileNeverTorn`. The number of kills and failed writes is any `MaxFaults`.

### The resolver

`EveryServerTried` says where a loop ends, and the index it began at is one that other calls move while it
runs. `RoundAt` therefore counts from the call's own copy: in round `i` the servers `(k + start) % N` for every
`k` below `i` have been asked; lemma `FullTurn` is the arithmetic, that `N` rounds from any start come by every
server. `StepIsOwn` says that a step of one call leaves the others' variables alone, so that each lemma
looks at one call. For `AnswersKept`, `FoundAt` says where a call has nothing yet, so that the steps that set
the list anew (a cached answer, the fallback, its answer) lose nothing; the step that merges keeps what
it had by `DistinctKeeps`.

That lemma is about `Distinct` of Addresses, the loops with a `seen` map, which is a recursive function. The
library's induction theorems cannot be instantiated here, but a set of numbers that is not empty has a least
one (`LeastNumber`, from the library's theorem on well-founded relations), and an induction can be written as
the absence of a least counterexample: so `DistinctExists` shows that the recursion defines a function,
and `DistinctKeeps` that it returns a list of the elements wanted and loses none.

### The address manager

`Best` is a `CHOOSE`: that selecting returns an address at all needs a list that is not empty (`AddressAt`) and
a first maximum of the scores in it, `BestExists`, by the same induction over the length of the list.
It rests on `FractionOrder`, that comparing fractions by cross-multiplication is transitive, and on
`ScoreType`: denominators are positive, and only an excluded address has the score 0. `MetricsOK` is needed for
the types; it also says that no address has more successes and failures in a row than attempts.

### The reader of WB's messages

`wbPbAll` and `wbPbICE` step through bytes of a server by lengths that the bytes claim. `VarintEnds` says that a
varint read inside the message ends after its first byte or later and not past the end, `ReaderAdvances` that
every round goes on by at least one byte, in the case of a length because of the guard `e < o` that catches
an overflow of the sum; `ReaderEnds` is that the loop gives a list of at most as many fields as there are bytes.
The value of a varint and the loop are recursive functions, shown well founded with `LeastNumber`.

### The updater

`UpdaterInv` is `TypeOK`, `OpenInv` (a caller has the `.new` file open exactly while it copies) and, until two
downloads overlap, `DiskInv`: one caller inside the replacement (`SoloInv`); three names of three files, the
executable and the backup whole (`NamesInv`), and one of them there until a download begins with no program at
the path (`Present`); the `.new` file truncated by nobody but the
one who copies into it, and whole after that (`NewInv`); a missing executable explained by a caller between the
renames or by a mishap there (`MissingInv`). The lemmas `DiskFile` and `FreeIsFree` are about the model's disk:
a named file keeps its contents, and five inodes are always enough, so that a new file is never one that is in
use. The proof showed that a rollback rename that fails does not lose the program either, as `.old` stays where
it is; `AlwaysRecoverable` says so now.

### The process and the application

The handle the commands and the watching threads share is empty or that of the *last* launch, and no earlier
launch is alive unless it was lost (`HandleInv`); `CommandInv` says at each step of a command whether the
running child has its handle stored. A thread gives up a handle if that child has exited, or else counts the child
as lost, so it does no harm to `CommandInv`, whichever launch it was started for. `ChildInv` connects the
two halves: a last child that is not alive has not begun or has ended, so a process begins when no other but a
lost one uses the routes, and `RouteInv` says that beside killed and lost ones only a process between
`SetupVPNRouting` and `CleanupVPNRouting` has routes of its own, all of which the latter removes.

### Only model-checked

* Every liveness property, because fairness and `ENABLED` are out of the prover's reach: `LostSessionEnds`,
  `StopReleasesAll`, `CancelledGoes`, `FetchEnds`, `StoppedStreamsReturn`, `StallsOnlyNested`,
  `ResolutionEnds`, `LearnedGetsSaved`, `SignalBringsDown`, `LateSignalEnds`, `ExitNoticed`.
* `ParserAgrees` of WbAuth: that the reader and an encoder agree for every message needs an induction over nested
  messages and over the bits of varints (powers of two, of which the provers know nothing). What is proved of
  the reader is that it ends, and reads inside the message.
* The two violations of section 4, which are counterexamples.

## 6. Plan

In order of importance; the first group is what this directory contains.

1. Done: the credential path (CredService, CredCache and its proofs), fetching from VK and WB with the captchas
   and the browser (FetchQueue, VkAuth, WbProto, WbAuth, CaptchaServer, composed in CredFetch), the packet path
   (TurnStream, Hub), starting and stopping (ProxyLifecycle), the process and the application that runs it
   (MainProcess, GuiTunnel, composed in Desktop), addresses (VkHosts, DnsResolver, DnsPersist), Updater.
2. Done: proofs of every invariant and action property of the runs except `ParserAgrees`, of the refinement
   `ImplementsService`, and that the reader of WB's messages ends.
3. A composition of streams with the credential cache (two TurnStreams over CredCache) and an abstract
   specification of a stream (down, connecting, up, stopped) that TurnStream implements.

## 7. What is not modelled, and why

* *Packet wrap* (`core/wrap.go`): encoding and authenticated encryption. Its only state is the counters of one
  `wrapConn`, which one goroutine of one session writes through; its only effect on control, that a packet
  that cannot be unwrapped is a failed read and ends the session, is TurnStream's `PumpFails`.
* *The rest of the desktop application*: saving, importing and listing tunnels, parsing WireGuard files, the
  log view: handling of files and text on one thread. Its update button is a caller of Updater.
* *Captcha computations* (image comparison, JavaScript lexer, proof of work, browser profiles): pure
  computations on data without shared state; VkAuth has their outcome.
* *Configuration, logging, certificates*: reading a file, writing a log, embedded data.
* *Copies of the resolver and of the wrap in packages that nothing imports.*
* Inside modelled parts: contents of requests and pages, the HTML of the web UI and the JSON of its other
  handlers, headers and addresses of the WB requests, DNS packet encoding, `ClearCache` and `InitSystemDns`
  (they replace the resolver's tables), the metrics' contribution to a saved snapshot (it can only add
  addresses), the sub-commands of `main` that end at once.
* Simplified: `Persist.MarkDirty`, which `ResolveAll` calls, and `VkHosts.Resolve` under `vh.mu`, is left out of
  DnsResolver and VkHosts; it blocks only while `Persist.Stop` hangs, which DnsPersist has. `streamsPerCred`, a global that each start sets,
  is one number for all starts. In TurnStream the credential cache belongs to the stream; CredCache has the
  sharing. A `kill` or `wait` of a child whose handle is held is taken to succeed. Of a lost child that
  still runs beside the next one, only its exit and the routes it adds are modelled.
* External, modelled from their use: the TURN client and relay, DTLS, WireGuard's device, `net/http`,
  the operating system's routing commands and files, `sync` and `context` of Go.
