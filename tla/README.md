# Remoto: TLA+ models, checks and proofs

Remoto gives the participants of a workshop a remote desktop each. A control
server (Go) discovers the desktops ("sandboxes") and the Guacamole daemons in
DNS, hands sandboxes to browser sessions and carries two kinds of tunnels:
Guacamole's (screen, keyboard) and a serial one between a microcontroller at
the participant's USB port and an agent on the sandbox. A browser client
(TypeScript) logs in, shows the desktop, forwards the serial port, keeps the
clipboards equal, and has a console for the admin. This directory models server
and client in TLA+, checks the models with TLC and proves the main invariants
with TLAPS.

## Inventory

| part | state | operations | hard because | must hold |
|---|---|---|---|---|
| sandbox store `internal/sandbox` | slice of `{IP, Reserved}`, a mutex | `ReserveFree`, `Reserve`, `Release`, `Add`, `Delete`, `List` | callers keep pointers into the slice while it is appended to and shrunk; `Release` takes no lock | a sandbox has one owner; a reservation is neither lost nor leaked |
| service discovery `internal/discovery` | `ipMap`, `domainMap`, `svcLock`, two callbacks | `Add`, `Refresh`, `Get` | lookups fail; the lock is held through lookups and callbacks; it drives the store by differences | the store follows DNS, through failures and restarts |
| session store `internal/session` | a map of `*Session`, no lock | `Get`, `Create`, `Delete`, `List` | concurrent map access is fatal in Go | sessions stay until they are deleted |
| HTTP handlers `internal/application/routes.go` | none of their own | session middleware, create and delete session, assign sandbox, summary, current session, files | each is several steps on two stores, in its own goroutine; errors come after the first step | no sharing, no leak, no panic; every request is answered |
| Guacamole connect `internal/application/service.go` | none | `onGuacConnect` | reads a sandbox's address, then waits for `svcLock` | no nil sandbox is dereferenced; the request is answered |
| server lifecycle `Serve`, `cmd`, `main` | discovery and HTTP goroutines, `errC`, signals | start, shutdown | a panic in a goroutine without `recover` ends the process | crash and restart rebuild the store |
| serial broker `internal/serialbroker` | per tunnel: two connections, `done`, unbuffered `errC`, close handler | `HandleWebsocket`, `readPipe`, `writePipe` | three goroutines, two channels, `close` twice panics | order is kept; the end of one side ends the tunnel and nothing else |
| serial forwarder `client/.../serial-forwarder.ts` | WebSocket, serial port, reader, writer, `readLoopAlive` | connect, callbacks, read loop | state tested before an `await` and used after it; timers that nothing cancels; connect called again in the same page | sockets and loops stay as few as failures explain; the tunnel recovers from the network |
| viewer `viewer.tsx`, `remote-desktop.ts`, `display.tsx`, `connect-btn.tsx` | button, control mode, client, display | click, keys, connect, client events | an attempt fails in several places; the mode is read when the client is rendered | one client; an attempt that fails brings the button back; a view-only click stays view-only |
| clipboard `clipboard.ts` | a cache | relay both ways | asynchronous reads and writes, refused without the focus | the clipboards end up equal |
| session state and routes `store/session.ts`, `app.tsx`, `login.tsx` | `session`, the cookie, the path | poll, log in, redirect | answers arrive out of order; a late answer deletes a new cookie | the page catches up with the server and settles at one path |
| admin console `store/admin.ts`, `pages/admin` | summary, selections | poll, select, destroy, assign | works on an old summary; answers out of order | the summary catches up with the server |
| group names `internal/names` | none | `Generate` | - | - |
| reconnecting WebSocket `websocket.ts`, `serial-forwarder_backup.ts` | - | - | - | never run (see *Not modelled*) |
| sandbox images, terraform, test page, type declarations | - | - | - | configuration, a demonstration, declarations |

The parts interact as follows. The discovery goroutine calls `Refresh` every
five seconds; `Refresh` calls `onServiceDiscovered`/`onServiceLost`, which call
the store's `Add`/`Delete`. Requests run in goroutines of their own: they share
the sandbox store (locked one call at a time), the session map (not locked),
and, when they open a Guacamole tunnel, discovery's lock. A serial tunnel only
reads the session once, when it starts. In the browser, polls, logins and the
console's operations share the cookie and the page's session; the viewer starts
the forwarder and the Guacamole client, and the display the clipboard.

## Modules

| module | models |
|---|---|
| `SandboxPool` | `internal/sandbox/service.go`: the slice, the arrays behind it and pointers into them |
| `Discovery` (extends it) | `internal/discovery`, `startServiceDiscovery`, `onServiceDiscovered`, `onServiceLost`; DNS, crash and restart as environment |
| `ControlServer` (extends it) | the handlers of `routes.go`, `session.go`, `onGuacConnect` |
| `SandboxAllocation` | the abstract promise: a session gets one free sandbox, keeps it, gives it back. `ControlServer` instantiates it with a refinement mapping |
| `SerialBroker` | `internal/serialbroker/broker.go`, one tunnel |
| `SerialTunnel` | the abstract promise of a tunnel: two lines, each of which delivers the next message or none, until it is cut. `SerialBroker` instantiates it |
| `SerialForwarder` | `serial-forwarder.ts`, one page |
| `Clipboard` | `clipboard.ts` |
| `Viewer` (extends it) | `viewer.tsx`, `connect-btn.tsx`, `remote-desktop.ts`, `display.tsx`: one viewer page with its clipboard |
| `BrowserSession` | the cookie, `store/session.ts`, `app.tsx`, `login.tsx`, and the server's side of their requests |
| `AdminConsole` (extends it) | `store/admin.ts`, `pages/admin`, and the server's side of their requests |
| `MCControlServer` | instances of `ControlServer` for TLC; the other configurations instantiate their module directly |
| `DiscoveryProofs`, `ControlServerProofs`, `ExclusivityProofs`, `AllocationProofs` | theorems and proofs about the server, one module on top of the other |
| `SerialBrokerProofs`, `SerialForwarderProofs`, `ViewerProofs`, `AdminConsoleProofs` | theorems and proofs about these components |

How state and actions of the server's modules correspond to the code:

* **Pointers.** `ReserveFree` returns `&s.store[ix]`, and the session keeps it.
  `append` to a full slice copies it to a larger array, and the kept pointer
  then points to a slot that is no longer the store's. `heap` has the slots of
  every array the store has had, a pointer is `<<capacity, index>>` (capacities
  only grow in the life of a process, so a capacity names an array), and `cap`
  and `len` are the slice's. `Grown` is Go's doubling of small slices.
* **`Delete`** ranges over the length at entry; `DeletePanics` is the case where
  the loop indexes past the slice it has shortened. It is a panic in the
  discovery goroutine, so `LossPanic` (and `DiscoveryPanic`) end the process.
* **`Refresh`** is one step for the lock, one for each lookup (`LookupOK`,
  `LookupError`), one for each callback (`OnDiscover`, `OnLost`) and one for the
  unlock: between them requests run. Go's map order and the resolver's order of
  addresses are arbitrary, so lists of addresses are sets.
* **Requests.** `req[r].pc` says which access to shared state comes next.
  `Accept*` start a request, `Middleware` is `sessionMiddleware`'s lookup,
  then `LoginReserve`, `Create`, `LoginAttach` are `httpCreateSession`;
  `AdminGet`, `AdminRelease`, then `DeleteSession` or `AssignReserve`,
  `AssignAttach` are `httpDeleteSession` and `httpAssignSandbox`; `GuacConfig`
  and `GuacDial` are `onGuacConnect`. A panic in a handler is recovered by
  `net/http` and only ends the request (`Respond`).
* **The data race on the session map** is a choice: either Go detects the
  concurrent access and the process ends (`MapRace`), or the accesses happen one
  after the other, which the ordinary steps are.
* **Session objects** stay in `sess` when the map entry is deleted: a handler that
  got one before goes on using it.
* **The refinement.** A session `holds` what its pointer points to once it has
  both, from `LoginAttach` to the moment an admin's operation has released it
  (`Settled`); before that a login's three steps are invisible. `fresh` are the
  sessions that may still get a sandbox, among them those that are created and
  not attached. A reservation is not part of the abstract state: that the
  sandbox a login attaches is nobody's follows from it.
* **The tunnel's `select`** is `Report`/`SelectDone` when something is ready and
  `Park` when nothing is; a parked handler is woken by the first event, so
  `OnClose` (which closes `done`) moves it itself.
* **The tunnel's refinement.** `sent` and `received` are the broker's own; a line is
  cut (`CutLines`) when its receiver is gone or the handler has ended, which is for
  good: a direction that has failed does not come back, though its pipe goes on
  consuming.

And those of the browser's:

* **A JavaScript task is a step.** Callbacks, timers and the code after an
  `await` run to the next `await` without interleaving, so an action is one such
  piece, whichever function it began in: `PollAnswered` is the part of
  `validateSession` between the answer and its body, `PollBody` the rest.
* **`SerialForwarder`.** The callbacks use `this.ws`, `this.serialRead` and
  `readLoopAlive` as they find them, so sockets and ports have names, and `ws`
  and `serial` say which one the fields refer to. A timer is only counted. A
  failing WebSocket fires `error` and `close`, and both have the same handler:
  `OnClose` schedules one or two reconnections. `Connect` may be called again in the
  same page (each further call counts as a fault): the forwarder outlives the viewer,
  and one that is mounted again, or has its button back, calls it beside what the
  calls before have left. `unplugged` is a history variable, read by no action: it
  counts how often the device in use was unplugged, which is what loops are compared
  with. `Poll` is `pipeSerialToWS` up to
  the read; `ReadChunk` is what follows, which sends on `this.ws` as it is then.
* **`Viewer`.** `asking` and `opening` are the attempts inside the forwarder's
  `connect`, `waiting` a client whose tunnel is not open yet. `control` follows
  the keys as long as the effect that listens to them is installed; `clicked` is
  what it was when the button was clicked, and `shown` what the display did when
  it rendered the client. A page whose port was refused reloads itself
  (`reloading`), and the user may reload at any time.
* **`Clipboard`.** Calls of `readText` and `writeText` wait in queues; each is
  refused if the page is not focused when its turn comes. A stream's end is the
  step in which the other side gets its text.
* **`BrowserSession`, `AdminConsole`.** The calls under way are a bag. A call is
  `sent`, then `answered` by the server in one step, then the browser applies the
  cookie the answer sets and hands it to the page, which may have to wait for
  the `body`; any of these may overtake those of another call, or be lost.
  The server is abstract here (which sessions live, what sandbox they have), since
  `ControlServer` has its details. A reload forgets the page's state and calls and
  keeps the cookie.

Operators introduced by a comment "Mistake:" are deliberately wrong versions of
the definition they precede. None is part of a specification. With the right
version replaced by the wrong one, TLC finds the property named in
`PROJECT.json` violated, under the configuration it otherwise passes: this is
how we know that each property can fail.

## Runs

| run | instance | what it shows |
|---|---|---|
| `server_full` | 2 requests of every kind, 1 session ID, 2 sandboxes, scale-down, overlapping admin operations, crashes | what holds when nothing is ruled out: types, store = DNS, no address twice, an array no larger than the sandboxes need, only lost ones forgotten, no nil sandbox in `onGuacConnect`, no reservation lost in a refresh |
| `server_workshop` | 2 requests (login, delete, guacamole), 3 session IDs, 3 sandboxes that are only added | the server implements `SandboxAllocation`; no two sessions share a sandbox, what they have is reserved in the live array, a login leaves nothing behind |
| `server_fair` | 1 request, 2 sandboxes, guacd, scale-down, crashes, fairness | requests are answered, sandboxes are discovered and forgotten |
| `serial_broker` | one tunnel, 2 messages each way | the broker implements `SerialTunnel`; what is sent arrives unless an end goes, nobody waits for an end that has gone by, any end ends the tunnel, and what it takes to crash |
| `serial_forwarder` | one page, 2 faults (failures, unplugged devices, further calls of `connect`), 2 chunks, 3 names | a socket is there or to come, and a loop as long as nothing is lost; only unplugging the device adds loops; both directions recover from the network |
| `viewer` | one page, 2 texts and a picture, 2 copies, 2 reads | one client; nothing but the end of the client's tunnel leaves a page with nothing to click, to await or to look at; clipboards that agree in the end |
| `web_console` | one browser, 3 sessions, 2 calls, 1 fault, 2 sandboxes | what takes a live cookie; the page's session, path and summary catch up |
| `server_assign_fails` | expected violation of `Exclusive` | `httpAssignSandbox` leaves a session on a sandbox it has released |
| `server_delete_leaks` | expected violation of `NoSandboxLeaks` | a deletion through a stale pointer leaks the sandbox |
| `server_scale_down` | expected violation of `SessionsKept` | losing a sandbox ends the process |
| `serial_broker_crash` | expected violation of `ServerSurvives` | `close(done)` twice ends the process |
| `viewer_mode` | expected violation of `ViewOnlyStaysViewOnly` | a key released between the click and the connection gives a view-only connection control |

The last five show where the code disagrees with what its comments or labels
say; `PROJECT.json` quotes them. They also explain the parameters of the passing
runs: `Exclusive` passes only where no session is moved (`"assign" \notin Kinds`),
nothing is lost (`~ScaleDown`) and one admin operation runs at a time
(`~OverlappingAdmins`); it is false without any of the three.

Some liveness properties state, in their hypothesis, what the code does not
recover from, each with the reason beside it: `OutboundRecovers` excludes a chunk
that arrives while there is no socket (`intact`: the loop throws and is gone),
`InboundRecovers` a page that has no port. `ReadLoopGoesOn` and
`SocketToCome` are what these two rest on, as invariants: they are proved, and the
liveness properties add what fairness makes of them.

`IsTunnel` is `SerialTunnel`'s safety; that a line delivers is the broker's property
`SentArrives`, because fairness of the abstract `Deliver` would need `ENABLED` under
the refinement mapping, which TLC does not evaluate.

### Bounds

* `MaxCap` bounds the array: 4 for three sandboxes is the capacities 1, 2, 4, so
  two reallocations and, in between, appends in place. Two sandboxes have one
  reallocation after the first login. The bound cuts nothing off: `StoreBounded`
  says that n sandboxes need an array of at most 2 (n - 1) slots (or one), which
  these are, and it is proved. `server_full` has a larger `MaxCap` than its two
  sandboxes need, so that `StoreBounded` could fail there.
* `MaxSessions` of `ControlServer` bounds the session IDs, which in the code are
  random and never reused. Three IDs let a sandbox pass from one session to
  another while a third logs in; `server_full` has one because it is about
  interference inside a session, and a login, an admin login or a failed login
  already compete for it.
* Two `Reqs` are enough for every pair of handlers to interleave; that the
  exclusion does not depend on the number is proved (`Exclusivity`).
* `MaxMsgs` bounds the messages of a tunnel; two show reordering.
* `MaxFaults` of the forwarder: two faults make three sockets or two loops on one
  port, and a fault during the recovery from another. Every fault adds at most one
  socket, port or loop, so `MaxFaults + 1` names suffice (`ForwarderTypeOK` would
  fail otherwise). `MaxChunks`: two are a chunk that is
  read and one that comes after it, or after its loss.
* `Texts` with two members tell equal clipboards from unequal ones; two copies are
  one on each side, or two in a row on one; `MaxReads` allows a read while another
  one, or the stream it led to, is still under way.
* In `web_console` two calls under way (`MaxCalls`) make every pair of answers
  overtake each other; three sessions are an old one, one of the browser and one
  of another login; one fault is a lost answer, a reload, a navigation or the end
  of sessions. With two sandboxes an assignment moves a session, so that a summary
  may be out of date by a session that is there, one that is gone, or the sandbox of
  one. A wrong code is not told from a workshop code that is refused for want of a
  sandbox: the browser sees the same answer.
* `SYMMETRY` permutes sandboxes and requests, only where no liveness is checked.

Deadlock is checked, except for the serial broker: a tunnel really ends.

### Fairness

* The discovery goroutine loops for ever and its ticker ticks, so its steps are
  weakly fair (`RefreshFairness`). `LookupOK` is strongly fair: that a lookup which
  is repeated for ever eventually succeeds is an assumption on the resolver, the
  repetition is the code's.
* `DiscoveryRestart` is weakly fair: the deployment restarts the server's task.
* Handlers are goroutines and weakly fair. `GuacDial` is strongly fair because
  `sync.Mutex` hands the lock to a waiter that has starved for a millisecond;
  `Refresh` takes the lock again and again, so that weak fairness would not do.
* In the broker the handler and the two pipes are weakly fair. This assumes that
  a peer that stays connected keeps reading: hijacking a connection clears the
  server's deadlines, so a write to a stalled peer would block a pipe.
* In the forwarder timers run out and a page that is to be reloaded is; sockets
  open and messages of the server arrive, as long as the network does not fail.
  `ReadChunk` is strongly fair: several loops may take turns on one port, and a
  read that is repeated gets the chunk that is there. Users, devices and faults
  are never fair.
* In the viewer effects run and what is under way arrives. `ReadText` is strongly
  fair because a read only succeeds while the page is focused; that people keep
  switching is a hypothesis of `ClipboardsAgree`, not fairness.
* In the console each kind of call is served and answered, and effects run. The
  two timers, `Poll` and `SummaryTimer`, are strongly fair only because the bound
  `MaxCalls` disables them while other calls are under way; the code has no such
  bound and the timers never stop.

## Proofs

All theorems are proved for any value of the constants that satisfies the named
assumptions (`PoolAssumption`, `DiscoveryAssumption`, `ServerAssumption`, and
those of the other components), which say what the parameters are and nothing
about the code.

* `DiscoveryProofs` begins with the lemmas about the store: which addresses it has
  after `Add`, `Delete` and a change of a mark, in terms of slots.
  `StoreMatchesDiscovery` says nothing during a refresh, so it is
  not inductive. `FollowsDNS` is: at every moment the store is what has been
  *announced* so far (the last answer without the discoveries to come and with
  the losses to come), pending discoveries are in the last answer and pending
  losses are not, and no address is in two slots. Theorems: `DiscoveryTypes`, `StoreFollowsDNS`,
  `NoDuplicates` and, from the same invariant and a case for each step,
  `Forgetting`. The runs have no IPv6 address (`V6 = {}`); the theorems hold for
  any, so that the loop's filter is covered there.
  `StoreStaysBounded` counts: the slots hold different addresses (`StoreCounted`, by
  a bijection), all of them the deployment's, and `append` doubles the array only
  when each of its slots holds one and the new address is yet another.
* `ControlServerProofs` carries that invariant over to the whole server (a request
  changes marks only, so the addresses of the live slots stay) and adds the types:
  `ServerTypes`, `ServerFollowsDNS`. The strengthening `SidsOK` says that a handler
  that needs a session ID has one. `ServerNoDuplicates`, `ServerForgetting` and
  `ServerStoreBounded` are discovery's results for the whole server: a request
  leaves the addresses, the array and `ipMap` as they are (`HandlerStore`).
  `ReservationsKept` is an action property from the same invariant: it needs that
  every handler's step changes its request (`HandlerMoves`), so that what is left
  are the steps of discovery, and that no address is in two slots, so that a
  deletion removes one mark only.
  `NoNilSandbox` needs `EquippedFirst`: a cookie that is out, and a request that has
  passed the middleware, belong to a session that has its sandbox or its admin
  mark, and these a session never loses. It holds without any restriction on the
  deployment, assignments and overlapping deletions included.
* `ExclusivityProofs` proves `Exclusive` (`Exclusivity`) and `AttachedIsReserved`
  (`Reservation`) under `OnlyGrows`: sandboxes are only added, nobody assigns, one
  admin operation at a time. The difficulty is that ownership is a pointer into
  some array, old or new, and the mark is in the live one. `Owned(p)` says that the
  live slot at p's index has the same address and is marked; it survives `Add`
  because the copy keeps index, address and mark, and because nothing is deleted
  an index stays with its sandbox. `Owners` then says that the settled sessions and
  the logins in progress own slots at pairwise different indices. A deletion's
  session is not settled from its release on, and nobody else owns its index;
  that is where `OneAdmin` comes in.
* `AllocationProofs`, under `OnlyGrows` as well, has two results on top.
  `Refinement`: every step of the server is one of `SandboxAllocation` or changes
  nothing of it. `ExclusiveInv` says that nobody else has the sandbox a login
  attaches; `Once` adds that the session it goes to has none yet and that a session
  whose deletion has begun had one.
  `LoginsLeakNothing` (`OnlyDeletionsLeak`): pointers stay inside the arrays the store
  has had, so refreshes do not overwrite their slots; a login marks a slot it has
  the pointer to and passes that pointer to a session that had none.
* `SerialBrokerProofs`. The messages of a direction that are received, in the pipe's
  hands and on their way are at every moment consecutive numbers up to the last
  one sent (`InOrder`): `Delivery` follows. For `CrashNeedsBothEnds` the invariant
  records why `done` is closed (`WhyDone`): by the handler, which was told of the
  end of a connection, or by the close handler.
  `NobodyWaitsUnwatched` (`WaitingIsWatched`) needs to know where a close frame is
  (`CloseSeen`: in the queue or in `readPipe`'s hands until it is reported) and who
  can have closed `done` (`BrowserGone`); with `BothClosed` and `AtWork` they make
  `EndInv`.
  `BrokerIsTunnel` is the refinement: a write step delivers the message after the
  last one received, because what is received and in hand is consecutive, and no
  step takes back what cut a line.
* `SerialForwarderProofs`. `ForwarderTypeOK` says that sockets, ports, timers and loops
  stay within `MaxFaults + 1`, which no step shows by itself. `ForwarderInv` counts:
  the sockets there are and the timers that will make one are at most one more than
  the faults so far (`SocketsCounted`), and so are ports and their timers
  (`PortsCounted`); the loops that wait in a port or may come to are at most one more than
  the times the device in use was unplugged (`LoopsCounted`); the device is held by
  one port at a time (`OneDevice`), so that unplugging it breaks the loops of one and
  a port starts a loop only when no other has the device. `ForwarderTypes`,
  `FaultsPayForAll` and `LoopsStayPaidFor` (`LoopsPaidFor`) follow, and with them
  `SocketAlwaysToCome` and `LoopGoesOnWhileIntact`, whose names for a new socket or
  port are free because of the counts.
* `ViewerProofs`: `ClientsOfAPage` and `NeverStrandedByAttempt` (`OnlyTunnelStrands`, a case
  for each step), from an invariant (`Attempt`) that relates the page's state to the
  one attempt under way. `ViewerInv` adds the
  clipboard's queues, which are empty before `install`, and that only a connected
  client that was shown with control has handlers: hence `ViewerTypes`, and
  `HandlersMountedOnce`, an action property, since nothing removes a handler.
* `AdminConsoleProofs`: `ConsoleTypes` and `CookiesKept` (`OnlyDeadCookiesHurt`). The
  invariant `ConsoleInv` is about the bag of calls (`CallsFit`): an answer that
  deletes the cookie belongs to a call that was sent with a cookie whose session is
  over, and stays so because IDs are not issued twice (`SessionsGoOn`); an answer
  that sets one is a login's; and everything a call says is about sessions that
  have been issued. How many calls are under way is not in `ConsoleTypeOK`: it is
  the guard `Room` of the model, not the code's.

Each inductive invariant was checked by TLC before it was proved. The bounds of
the runs are constants of the theorems: what is proved holds for every value of
`MaxCap`, `MaxSessions`, `MaxMsgs`, `MaxFaults`, `MaxCalls` and the others.

Model-checked only: the properties that need fairness (the prover has neither
`ENABLED` nor the fairness rules): `RequestsAnswered`, `DiscoveredEventually`,
`LostEventually`, `EndOfEitherEndsTunnel`, `SentArrives`, `InboundRecovers`, `OutboundRecovers`,
`ClipboardsAgree`, `StoreCatchesUp`, `RouteSettles`, `SummaryCatchesUp`. Every
invariant, action property and refinement that a passing run checks is also a
theorem. Induction over data and `RECURSIVE` operators are beyond the prover too;
no module has any.

## Not modelled

* `AutoWebSocket` (`websocket.ts`) and `serial-forwarder_backup.ts`: dead code. Only
  the backup forwarder creates an `AutoWebSocket`, and nothing imports the backup
  forwarder; the field `aws` of the forwarder in use is never set. Their retry
  logic has no behaviour to check.
* `reset` in the viewer and the `disconnect` methods of the forwarder and of the
  remote desktop: they hang on events nobody emits, so that no execution reaches
  them. Mouse, scaling and the focus of the display are layout and input. A second
  viewer of one page, after a logout and a login without a reload, is modelled only
  for the forwarder, which may be connected again; in `Viewer` it is not: the
  handlers of the first, which nothing removes, would be beside those of the second.
* The order in which chunks sent on two sockets reach the server: that is the
  network's, and nothing in the code restores it.
* In the server, whose sandbox a Guacamole tunnel dials when its session is moved or
  deleted while the handler waits for `svcLock`: the handler cannot notice, and
  without either the address is the session's own by `Exclusive`.
* `LastActive`, which is only displayed, group names (`generateName` retries until a
  name is free, which matters with hundreds of thousands of sessions), health and
  file delivery, answer bodies beyond the session and the summary.
* `Serve`'s shutdown: SIGINT or an error of a goroutine ends the process, which to
  everything modelled here is a crash.
* The Guacamole protocol, the `guac` library's tunnels and its session map.
* The content of serial messages, and that the broker sends TCP bytes as text
  frames. The forwarder and the broker are modelled apart: the network between them
  is the forwarder's `OnMessage` and `OnClose` and the broker's ends.
* Memory reuse by Go's collector: an old array stays as long as a session points
  into it, as in the code.
* The test page, type declarations, shell scripts, images, terraform.

## Plan

Done: the server (`SandboxPool`, `Discovery`, `ControlServer`), its abstract
specification (`SandboxAllocation`), the serial tunnel (`SerialBroker`,
`SerialForwarder`) and its (`SerialTunnel`), the browser (`Clipboard`, `Viewer`, `BrowserSession`, `AdminConsole`)
and the theorems above.

What is left, in this order:

1. Proofs: the safety core of `ClipboardsAgree` (a text that differs on the two
   sides has a read, a write or a stream on its way, or waits for the focus).
2. The broker and the forwarder composed, with the sockets the forwarder leaves
   behind each having a tunnel of its own at the server: several tunnels then
   write to one agent.
3. `ServerLifecycle`: `Serve`'s two goroutines, SIGINT, `errC` and the stop functions.
