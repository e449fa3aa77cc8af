# Minecraft Server Hibernation in TLA+

`msh` is a Go program that stands in front of a minecraft server. It starts the
java process when a player joins, and when the server has been empty for a while it
stops the process or suspends it with SIGSTOP. This directory holds TLA+
models of the parts of msh where order matters, the TLC runs that check them and
the TLAPS proofs about them. `PROJECT.json` is the index: components, runs, the map
from definitions to source lines, hazards, findings and theorems.

## 1. Inventory

msh has no locks around its control state. Every goroutine reads and writes the
package variables `servstats.Stats`, `servctrl.ServTerm` and the operating system's
view of the java process; "who runs between two of my statements" is the whole
difficulty. The parts, with their state, operations and what makes them right:

| part | state | operations | talks to | hard behaviour | correct when |
|---|---|---|---|---|---|
| `lib/servstats` | `Status`, `Suspended`, `MajorError`, `ConnCount`, `FreezeTimer`, byte counters | none: read and written everywhere | everybody | unsynchronised | status follows the process; flag follows the signals |
| `lib/servctrl/servctrl.go` | none of its own | `WarmMS`, `FreezeMS(force)`, `FreezeMSSchedule`, `resumeStopMS`, `killMSifOnlineAfterTimeout` | `ServTerm`, `opsys`, timers | called from clients, console, manager, timers, printers at once; polling loops; kill timeout | an empty server hibernates, a wanted server starts, a stop ends in a stop or a kill |
| `lib/servctrl/servctrl-cmd.go` | `ServTerm` (`IsActive`, `Wg`, `cmd`, pipes), `lastOut` | `termStart`, `termLoad`, `printerOutErr` (2 goroutines), `waitForExit`, `suspendRefresher`, `Execute`, `TellRaw` | java process, `Stats` | start tested by one goroutine and recorded by another; log lines parsed with the status of *now* | one server at a time; OFFLINE only of a dead process |
| `lib/servctrl/servctrl-utils.go` | none | `countPlayerSafe` with two sources and a fallback | java process | stale answers | never negative, zero only when nobody plays |
| `lib/opsys` | none (posix); suspend counts of the kernel (windows) | suspend, resume, kill a process tree | kernel | a reaped process refuses signals; `cmd.Process` may be nil; on windows a tree worked out from parent ids and gone through one by one | result stored in `Suspended` is true; what is suspended can be resumed |
| `lib/conn/conn.go`, `conn-prot.go` | one goroutine per client, two per proxy | `HandlerClientConn`, `openProxy`, `forwardTCP`, `getReqType`, `getPing`, `buildMessage` | `WarmMS`, `FreezeMSSchedule`, `Stats` | status read several times while it changes; early returns | whitelist guards the start; every connection is closed; `ConnCount` counts |
| `lib/conn/conn-query.go` | `clib`, the list of challenges with one timer each | `HandlerQuery`, `gen`, `inLibrary` | `CheckMSWarm`, the server's query port | removal while iterating; expiry | a challenge is good for one hour, and no other is |
| `lib/progmgr/progmgr.go`, `main` | `sigExit` (capacity 1), `mgrActive`, `ReqSent` | `MshMgr`, `AutoTerminate`, start-up, accept loop | `FreezeMS(true)`, signals | signals before the manager runs, during a freeze, after the freeze | msh ends when told to, and not before the server |
| `lib/progmgr/sgmmgr.go`, `utils.go` | `sgm` (counters, tickers, end timer), `pTracker` | `sgmMgr`, `reset`, `prolong`, `buildApi2Req`, `sendApi2Req` | HTTP, `Stats`, `AutoTerminate` | counters read without the mutex at exit | no counted second is lost, reporting goes on, players are told |
| `lib/input` | none | `msh start`, `msh freeze`, `msh exit`, `mine ...` | `WarmMS`, `FreezeMS(true)`, `AutoTerminate`, `Execute` | concurrent with all of the above | as the functions it calls |
| `lib/config` | `ConfigDefault`, `ConfigRuntime`, `msh.instance` file | load, save, whitelist, instance id | files | crash between truncate and write | ids are unique and kept, the file is loadable and holds what the user wrote |
| `lib/errco`, `lib/model`, `lib/utility` | log level | logging, data types, string helpers | - | none | - |

The hazards list of `PROJECT.json` names, at its line, everything of this that a test
would hardly reach.

## 2. Plan

Done:

1. `MinecraftServer`, `ServCtrl`, `Lifecycle`, `ServCtrlProofs`: the core, that is
   `lib/servctrl`, `lib/servstats`, the posix half of `lib/opsys` and the JOIN path of
   `lib/conn`. Abstract specification: `Lifecycle`. Theorems: types, inductive
   invariant, one server, implementation of `Lifecycle`, never forgotten, a stop is
   pursued, killers are short; each names the races it excludes.
2. `MshExit`, `MshExitProofs`: `main`, `MshMgr`, `AutoTerminate`, the console, operating
   system signals; the server by its `Lifecycle`. Theorems: types, clean exit, told for good.
3. `Query`, `QueryProofs`: the query handler and its challenge library. Theorems: types (the
   loop stays inside the list it shrinks), challenges are kept and checked, requests are short.
4. `MsgHeader`, `ClientConn`, `ClientConnProofs`: one connection from `Accept` to its end, with
   two clients and the `Lifecycle` of the server. Theorems: types, which replies are readable, who may
   start the server, both connections of a proxy end together, a client takes few statements.
5. `Config`, `ConfigProofs`: `msh-config.json` and `msh.instance`, with crashes and users.
   Theorems: types, unique ids, kept ids, kept settings, files that agree.
6. `Segment`, `SegmentProofs`: the segment manager. Theorems: types, reports that fit, no
   second lost, the timer is set.
7. `ProcTree`, `ProcTreeProofs`: the windows half of `lib/opsys`. Theorems: types, the tree is
   whole, suspended processes are found, the flag is true, calls are short.
8. `Terminal`, `TerminalProofs`: `Execute`, `lastOut`, the printer and the player count. Theorems:
   types, callers are short.

Open: the safety of `FreezeCommandStops` and `PlayersAreNotified`, in the way of `StopIsPursued`; the process
tracker of `progmgr/utils.go` (averages of floating point measurements, out of TLC's reach).

## 3. Modules and what they stand for

**`MinecraftServer`** is the java process as msh can see it: alive or not, frozen by
SIGSTOP or not, booting / up / shutting down / hung, a stdout pipe with the four log lines
msh reacts to, a "stop" waiting on stdin, who is connected and who plays. It is external
code; each action is something `lib/servctrl` relies on. `Faults` switches crashes, stops
msh did not order, hangs and failing `cmd.Start`.

**`ServCtrl`** is every goroutine that touches the server.

| TLA+ | code |
|---|---|
| `status`, `suspended`, `majorError`, `connCount`, `freezeTimer` | the fields of `servstats.Stats` |
| `pending` | `time.AfterFunc` timers in the runtime's heap; a timer that fires becomes a goroutine in `FreezeMS` |
| `isActive`, `cur` | `ServTerm.IsActive`, `ServTerm.cmd` (0: nil; otherwise the instance loaded last) |
| `printer[i]`, `waiter[i]` | program counters of `printerOutErr` and `waitForExit` of instance `i` |
| `op[g]`, `at[g]`, `num[g]` | function, statement and integer local of goroutine `g` |
| `msh` | "panicked" after a nil dereference of `cmd.Process` |
| `flaws` | history, read by no action: the races lost so far (below) |
| `WarmMS`, `TermStart`, `TermLoad`, `CmdStart` | `WarmMS` and `termStart`, one action for each shared access |
| `FreezeMS`, `CountPlayerSafe`, `Await`, `OfflineCase` | the cases of `FreezeMS`, its polling loops and fallthroughs |
| `Resume`, `ResumeFlag`, `Suspend`, `SuspendFlag` | the system call, and the later assignment to `Stats.Suspended` |
| `Disarm`, `Arm`, `Fire` | `FreezeMSSchedule`'s `Stop`, its `AfterFunc`, the timer firing |
| `ExecuteStop`, `KillPoll`, `KillSend` | `resumeStopMS`, `killMSifOnlineAfterTimeout` |
| `PrinterX`, `WaiterX`, `RefresherTick` | `printerOutErr`, `waitForExit`, `suspendRefresher` |
| `Join`, `Operate`, `Dial`, `StoreConnCount`, `HangUp` | who calls: JOIN requests and their proxy, console and manager |

Goroutines are elements of five sets: `Clients` (one per JOIN), `Operators` (console,
manager, `main`: they call `WarmMS` or `FreezeMS(true)`), `Timers` (the goroutine of an
`AfterFunc`), `Killers` and the refreshers, one per instance.

**`Lifecycle`** is the promise: at most one java process, launched only when the published
status is offline, and the status goes offline, starting, online, stopping, offline, with
OFFLINE published only when no process lives. `ServCtrl` implements it with
`state <- status`, `live <- {i : Alive(i)}` (`LifecycleSpec`), up to a start that loses a race.

### Races

The code keeps none of its promises in every interleaving. `ServCtrl` restricts no
interleaving; instead `History` records in `flaws` that a statement was overtaken at the place where
it does harm, and a property names the entries it makes an exception for. No action reads
`flaws`, and no step waits.

| race | the step that loses it | code |
|---|---|---|
| `twice` | a caller reads `IsActive` = false while another start has not set it yet | `servctrl-cmd.go:150`, `335` |
| `unwaited` | `Wg.Wait` returns before the printer has called `Wg.Add` | `servctrl-cmd.go:210`, `350` |
| `missed` | "Done" is scanned while STARTING is not published yet | `servctrl-cmd.go:244`, `339` |
| `early` | a soft freeze reads OFFLINE of a process that was just started, and returns | `servctrl.go:67`, `165` |
| `refused` | a stop is refused because somebody suspended the server since the resume for it | `servctrl.go:215-223` |
| `stray` | a resume of `FreezeMS(true)` or of a killer, decided before, wakes a server that nobody stops any more | `servctrl.go:151`, `273` |
| `misread` | a soft freeze takes a number from another command's output for players of an empty server | `servctrl-cmd.go:229`, `servctrl-utils.go:59-79` |

`Ordered` says that neither `twice` nor `unwaited` has happened. The last four are healed by the next freeze
timer that is armed (`MadeUp`): they are exceptions only as long as they have an effect.

**`MCServCtrl`** adds the symmetry of timers and killers for the runs without liveness.

**`MshExit`** is how the program itself starts and ends. It has four goroutines
(`main`, `MshMgr`, `sgmMgr`, `GetInput`), each a statement `at[g]` and a return address
`then[g]` for the calls of `FreezeMS(true)` and `AutoTerminate`.

| TLA+ | code |
|---|---|
| `state`, `live` and the `Life!` actions | the server, as `Lifecycle` allows; `fresh`: launched, but `waitForExit` has not stored STARTING; `told`: "stop" is on its stdin |
| `sigExit`, `mgrActive`, `reqSent` | `msh.sigExit` (capacity 1), `msh.mgrActive`, `ReqSent` |
| `LoadConfig` ... `AcceptNil` | `main`, in order; `AcceptNil` is `Accept` on a listener that could not be opened |
| `Notify`, `Activate`, `Receive`, `Second`, `Switch`, `Wait`, `Exit`, `LastRequest` | `MshMgr`, in order |
| `Terminate`, `Send` | `AutoTerminate`: exit with 1 before the manager runs, a blocking send after |
| `Freeze`, `Poll`, `Stop` | `FreezeMS(true)`: its switch, its polling loops, the write of "stop" |
| `Request`, `EndOfSegment` | the request of a segment, with the answers 200, 403, another status, or an error |
| `Type`, `TypeStart`, `Quit` | the console |
| `excuse` | history: which of the things msh does not handle while it ends has happened |

It composes with the core through `Lifecycle`: `ServCtrl` implements it, `MshExit` builds on
it. What `Lifecycle` does not say, that a stop which is written is obeyed, is `told`.

`CleanExit` (msh leaves no java process behind) is not true of the code as it is. `excuse`
names exactly when it fails, besides a panic of `main`, and `CleanExit` says that there is no other way:

- `Started`: a JOIN or "msh start" launches a server while msh is being ended;
- `Careless`: the first update check is answered (403) before `MshMgr` is in its loop, so that
  `AutoTerminate` calls `os.Exit(1)`; the manager freezes a server whose STARTING is not
  published yet; its stop is refused (`CheckMSWarm`); or the server does not log within the
  second of `progmgr.go:66` that it stops. In the last three the switch of `progmgr.go:78` falls to its
  `default`, which only logs.

**`Query`** is the one goroutine of `HandlerQuery`, the list `clib.list` with the ticks left
to each timer, and the fields of `Stats` that `CheckMSWarm` reads, written by others at any
moment. Datagrams are read when the handler asks for one: any request may be next. `Clean` is
one round of `inLibrary`'s loop, so that timers fire within the loop. `valid` and `was` are
history: how long the last challenge given out with a value is good, now and when the
request was read.

**`MsgHeader`** is the arithmetic of `buildMessage`: the two base-128 digits of `addSubHeader`,
the second cut to a byte, and what a client reads from them as a VarInt.

**`ClientConn`** is a client from `Accept` to the end of its connection.

| TLA+ | code |
|---|---|
| `at[c]`, `req[c]`, `seen[c]` | the `HandlerClientConn` goroutine of `c`: its statement, the request type, the status its JOIN was decided by |
| `here`, `conn[c]`, `reach`, `sock[c]` | the client's and msh's end of the client connection, the server's and msh's end of the server connection |
| `ReqType`, `Ping`, `ReadFails` | `getClientPacket` under its deadline, `getReqType`, `getPing`: any packet may come, in one Read or two |
| `Decide`, `Whitelist`, `Warm`, `Rewarm` | the cases of `HandlerClientConn` with each of its returns, those that close and those that do not |
| `Dial`, `Forward`, `HangUp`, `Ends` | `openProxy` and its two `forwardTCP` goroutines (`fwd[c][d]`) |
| `LoadConnCount`, `StoreConnCount` | `ConnCount++` and `ConnCount--` without a lock |
| `reply[c]` | the kind of the last message msh wrote itself |
| `Collect` | the finalizer of a `net.Conn` nobody refers to: the only thing that closes what the handler left open |

**`Config`** is every installation of msh (a folder): its two files, where it is (host and
file id), and an msh that runs in it or not.

| TLA+ | code |
|---|---|
| `cfg[f]`, `inst[f]` | `msh-config.json`, `msh.instance`; "junk" is any content that is not accepted |
| `def[f]`, `run[f]`, `dirty[f]` | `ConfigDefault`, the version in `ConfigRuntime`, `configDefaultSave` |
| `LoadDefault`, `SetId`, `Runtime`, `Save`, `Flush` | `LoadConfig`: load, correct the id, flags, save; truncation and write are two steps |
| `MshID`, `Healthy`, `Create`, `NewInstance`, `WriteInstance` | `MshID`, `okV0`, `newMshInstance` with its file emptied before it is written |
| `ServInfo` | `getServInfo` saves the version the server tells |
| `End` | end or crash of msh, at any statement |
| `EditConfig`, `Copy`, `Move`, `Touch` | users: they edit the configuration, copy an installation over another, move it to another disk or host, delete or edit the instance |
| `used`, `last`, `wrote` | history: ids given out, the id msh last ran with, what the user last wrote |

**`Segment`** is the goroutine `sgmMgr` and the update server. `at` is the select or the
request it waits for; `tick`, `end`, `push`, `pushed` are its ticker, its one-shot timer and the ticker of
notifications; `Second` is a second of all clocks. A request may be accepted by the server and
its answer still be lost (`accepted`). `Fails`, `Reset`, `Forbidden`, `Prolong` are the four ways it ends.

**`ProcTree`** is a signal on windows.

| TLA+ | code |
|---|---|
| `alive`, `parent`, `count` | the processes of windows: who named whom as parent, and the suspend count of each |
| `Snapshot`, `Grow`, `NextLayer`, `NotFound` | `getTreePids`: snapshot, one round of its outer loop, root not in the snapshot |
| `gen`, `layer` | `treePids` in its order, `parentLayer` |
| `Signal`, `Refused`, `Kill`, `Done` | `procTreeSuspend`, `procTreeResume`, `procTreeKill`, one process at a time; an error ends the first two and is only logged in the third |
| `suspended`, `armed`, `woke` | `Stats.Suspended`, the freeze timer, the refresher between its `WarmMS` and its `FreezeMS` |
| `Fork`, `End` | processes come and go while a call runs |

**`Terminal`** is the terminal of an online server: the two pipes with their limits, the
stdout printer (`Scan`, then `Drop` or `Receive`), and callers of `Execute` and
`countPlayerSafe` (`ServInfo`, `Check`, `Write`, the rounds of the loop as `Receive` and
`Again`, `Timeout`). A line is the first number in it, which is all that `searchListCom` looks for.

How they compose: `MshExit` and `ClientConn` see the server through `Lifecycle`, which
`ServCtrl` is shown to implement; `ClientConn` uses `MsgHeader`. `Terminal` and `ProcTree` have the detail of
two calls that are single steps in `ServCtrl` (the stop or `list` command, a signal).

### Grain

One action is one access to shared state or one system call. Some neighbouring accesses
are taken together, where no other goroutine can tell the difference or where the
difference is not one the properties see:

- `CheckMSWarm`'s four reads and the write to stdin that follows them in `Execute`.
- `waitForExit`'s stores of status, suspended and connCount = 0 at its start
  (`WaiterStarting`), and suspended and connCount at its end (`WaiterClear`). The
  store of OFFLINE is apart (`WaiterOffline`), as is `IsActive` on both sides.
- The two `printerOutErr` of an instance are one: both run the same loop on separate pipes
  and only stdout carries the lines msh reacts to.
- Printers and waiters are bound to their instance, where the code reads
  `ServTerm.outPipe` and `ServTerm.cmd` again. As long as no start is lost to `twice` this is exact: those
  variables change only in `termLoad`, when no printer or waiter of the last instance is left.
  After `twice` it is not: the printers of both may read the pipe of the second. Nothing but that two
  servers live is said of that state.
- `termLoad` is one step: the command that cannot be built leaves `ServTerm.cmd` alone, a pipe that fails has
  replaced it.
- `countPlayerSafe` is one step; its number is that of the server, `ConnCount`, or, when a command can be
  written at all, one from another command's output (0 or 1 stand for it).
- The polling loops sample at any moment; their period of a second is not modelled, and
  neither is the wait of ten seconds before the kill, except that anything can happen in it.
- `ClientConn`: the write of a reply and the return that follows; `CheckMSWarm` and `WarmMS` are one step.
  In `ClientConn` and `MshExit` a `WarmMS` that finds a process launched and not yet published
  joins that start; that it may launch a second one is `twice`, in `ServCtrl`.
- `Config`: a file is read in one step. `Segment`: the request is one wait whose answer is any.
- `ProcTree`: one call at a time, and the server is online. Ids are not used again within a call.
- `Terminal`: a caller that waits may receive any line the printer offers, as with any channel.

## 4. Runs

| run | question | result |
|---|---|---|
| `stop_mode` | SuspendAllow off, two servers, crash and failing starts: types, lifecycle, never forgotten, an abandoned server stops | holds |
| `suspend_mode` | SuspendAllow on, an operator, two servers, hang: never forgotten, a stop is final, `msh freeze` stops a server | holds |
| `suspend_live` | SuspendAllow and SuspendRefresh on, a client, a server that stops by itself: never forgotten; an abandoned server sleeps | holds |
| `exit` | start-up and end of msh, everything that may go wrong switched on: types, clean exit, it ends when told, unless the server hangs, `main` starts | holds |
| `query` | types, challenges are kept and checked, the handler comes back | holds |
| `client` | two clients, one on no whitelist: types, which replies are readable, who may start the server, handlers and proxies end | holds |
| `config` | two installations, two hosts, crashes, users: types, unique ids, kept ids, kept settings, files that agree | holds |
| `segment` | reports lost, refused, late, forbidden: types, reports that fit, no second lost, reporting goes on, players are told | holds |
| `proctree` | a tree of three on windows that changes while it is signalled: types, whole tree, suspended processes are found, the flag is true, calls end | holds |
| `terminal` | two callers, short pipes, lines too long for the scanner: types, stdout drains, callers return | holds |
| `bug_two_starters` | two callers start the server at the same time | two servers live |
| `bug_kill_next` | the countdown of one stop | kills the next server |

### Bounds

`ServCtrl`: `MaxStarts` = 2 lets everything left over from one server (timers, killers,
proxies, printers) meet the next one; one more would add nothing new because every
variable that names an instance only distinguishes "the current one" and "an old one".
`suspend_live` has `MaxStarts` = 1: its question is the refresher of a life, and `suspend_mode` has the second life with
suspension, an operator and left-over goroutines. The runs that check liveness have one timer, which is
enough for a timer to be stopped, fire, and be armed again by any of its callers; `bug_kill_next` has two, the number for which
`Stop` can miss (the newest timer is known to `Stats.FreezeTimer`, the other is not). One killer, one client and one
operator are enough for their races with timers and refreshers; two clients are in `ClientConn`, and the theorems hold for any
number of each. `MaxPipe` = 2 lets a line wait behind another. `AllowKill` = 1 is a countdown that reaches zero with one step
before it. `MaxConn` bounds how far `ConnCount` strays.

The three passing runs of `ServCtrl` have `CONSTRAINT Ordered`: TLC does not go on from a
state in which `twice` or `unwaited` has happened. That loses nothing, because neither is ever taken back and every
property of these runs holds of a behaviour in which one has happened (`NeverForgotten`, `StopIsFinal` and `FreezeCommandStops`
contain `Ordered`, `LifecycleSpec` asks it of each step, `EmptyServerHibernates` excuses any flaw). What follows such a
state is the subject of `bug_two_starters`, which has no constraint.

Of `MshExit` nothing is bounded except the java processes, which the program tells
apart only as "one" and "none": one is enough for `Lifecycle`. The same holds of `ClientConn`,
where two clients are one on the whitelist and one on none, and two proxies that count; each may come
again and again. The lengths of replies are those at the borders of the two digits, on both sides of the
longest that is readable, and some that a large icon or setting makes.

`Query` has two values so that a challenge can be told from another, a library of three so
that a removal has a neighbour on either side, and two ticks to the hour so that timers
started apart fire apart; a handshake that finds the library full is lost (`MaxList`).

`Config` has two folders (an original and its copy), two hosts, two file ids (one each on a
host, so that a copy on the same host has another inode), two ids, two settings of which UnicodeEscape
fails on one, and a version that is known or not. `Ids` bounds the instances that can be made.

`Segment` counts up to 3 seconds (`MaxDur`), with segments of 0, 1, 2 and 3: below, at and above
the period of notifications, the timeout and the prolongation.

`ProcTree` has three processes: root, child and grandchild, or two children, or strangers and
circles; a suspend count of two is one too many already. `Terminal` has two callers, so that one takes the other's
lines, pipes of two, a watchdog of one tick; a line holds a number or none (`MaxPlayers` = 0),
because no property compares numbers.

### Symmetry and deadlock

Symmetry is used where no liveness is checked: timers and killers (`MCServCtrl`), ids, file ids and
versions (`MCConfig`). `MCClientConn` holds the lengths of replies.

Deadlock is checked in `segment` and `terminal`, which never rest. The others may rest,
and that is right: when the server is offline, or suspended without a refresher, and nobody comes,
nothing happens; and they rest when a bound (`MaxStarts`, `Ids`) is used up, after msh has
ended or panicked, and when every process of windows has gone.

### Fairness

`ServCtrl` assumes weak fairness of every goroutine (the Go scheduler; `WF_code`, a step is one that changes more than the history), of armed timers, of
the error a proxy reads once its server is dead, and of a healthy, unfrozen server: it
boots, obeys a stop it has read, exits and notices that a client left. Nobody is assumed to
join, to hang up, to operate msh or to fail. `EmptyServerHibernates`
therefore begins with "if clients and operators are eventually idle for good", which speaks of
people, not of code.

`MshExit` assumes weak fairness of the goroutines of msh, `waitForExit` included (an HTTP request ends within its timeout of
four seconds, `utils.go:116`). The server need not boot, log or exit, and nobody has to type or
send a signal. `ExitsWhenTold` has two exceptions. `Started`: somebody who joins again and again can
restart the server at every stop. `Stuck`: a java process that stays in STARTING or STOPPING for ever keeps whoever
called `FreezeMS(true)` in a loop that has no limit (`servctrl.go:88`, `159`), and a manager that has got past it in
`Wg.Wait` (`progmgr.go:72`); msh then does not end. `MainStarts` needs neither. `Query` assumes fairness of the handler, whose
reads from the server have a deadline (`conn-query.go:143`).

`ClientConn` assumes it of the goroutines of msh, of a Read that fails within its second
(`conn-prot.go:217`), and of a proxy direction whose ends are closed or gone, which fails within
ten seconds (`conn.go`, `forwardTCP`). `ProcTree` assumes it of the goroutine that calls. `Terminal`
assumes it of the printer and the callers, of time, and of a server that reads its stdin when it can log;
`CallersReturn` speaks of a server that logs nothing of its own any more, because a chatty one
keeps the caller.

`Segment` is the only one with strong fairness: `select` picks at random among the channels that are
ready, so that a tick that is ready again and again is taken.

### What is at the heart

`NeverForgotten`: whenever all goroutines rest and an empty, healthy server is awake, some
freeze timer is running. It takes the cooperation of five callers of `FreezeMSSchedule`;
each of them forgetting it breaks it. Its exceptions are six races (all but `missed`) and, with several clients, a `ConnCount` that
is too high. `UnlistedNeverStart`, `CleanExit`, `ExitsWhenTold`, `SuspendedAreFound`,
`FlagIsTrue`, `FileAgrees` and `PipeDrains` name their exceptions too. That each exception is real was checked by dropping it, upon which TLC
finds a counterexample.

### What the models say of the rest

Behaviours TLC shows that deserve knowing. No run is spent on them: no document denies them, or
the place of the denial is given.

The server:

- Two WarmMS at the same time (two JOINs, or a JOIN and "msh start") both read OFFLINE and
  launch java: the status and `IsActive` are set by a goroutine that `termStart` launches at its
  end (`servctrl-cmd.go:150`, `167`, `335`). This is `bug_two_starters`.
- Each race above can be lost: `early` and `missed` need a goroutine of the start to be
  slower than a timer of whole seconds or than java; the others need only two callers at a time. After `missed` the
  status stays STARTING, and `FreezeMS(true)` polls it until the server ends by itself.
- Two `FreezeMSSchedule` can interleave and leave two timers running; an extra soft freeze
  is then done early. `servctrl.go:183` promises one.
- `Stats.Suspended` is stored after the signal; a suspend and a resume that overlap leave it
  opposite to the process, until the next `WarmMS` or `FreezeMS` resumes.
- A resume refused by a reaped process (ESRCH) stores `Suspended = true` on an offline
  server; `FreezeMS`'s offline case repairs it.
- With SuspendAllow on, `FreezeMS(true)` on an online server may not stop it: a soft
  freeze can suspend the process between the resume and the `Execute`, and `CheckMSWarm`
  refuses the command: the race `refused`, an exception of `FreezeCommandStops`.
- With SuspendAllow, a resume that was decided for a server that has ended, or for a stop that
  was refused, may wake a suspended server with nothing scheduled afterwards: `stray`.
- A server that hangs while a player is still counted never logs his departure, and with
  `MajorError` set nothing is scheduled again: it runs for ever. `EmptyServerHibernates` is
  checked without hangs. Neither is it killed: `resumeStopMS` returns when the stop is refused, before it
  launches the kill (`README.md:81` of msh: "Kill the minecraft server if it is unresponsive").
- A soft freeze counts the players and then suspends: a client that joins in between is
  suspended while playing. `README.md:115` of msh says the process is suspended "when there are no
  players online".
- A JOIN while the server is STOPPING is answered as if it started the server (`conn.go:142`).
- A first signal between `termLoad` and `cmd.Start`, or after a failed start, dereferences a
  nil `cmd.Process` (`Panics`).
- Windows: suspensions are counted and msh keeps a boolean (`servstats.go:27`). `suspendRefresher` warms the server, which
  arms the freeze timer, and suspends it a second later; the timer then suspends it again. The next
  `WarmMS` resumes once and stores `Suspended` = FALSE over a process that is still suspended, for a
  client that waits to join (`"twice"` in `FlagIsTrue`).
- Windows: a resume that stops half way, because a process ended meanwhile, can leave a
  grandchild suspended that no later call finds (`"half resume"` in `SuspendedAreFound`). Parent ids are those of processes that may
  have ended; an id that is used again brings strangers into the tree.

The terminal: an answer that comes after the watchdog is read by whoever calls `Execute` next, and two callers
share the lines, so that `countPlayerSafe` may take a number from another command. Every line starts the
watchdog anew, so that a server that logs more often than every 200 ms keeps `Execute`, and the
`FreezeMS` that called it, against `servctrl-cmd.go:62` ("watchdog used in case there are no more lines to read or output
takes too long"). `ConnCount` is compared with the better count and not reset, against `servctrl-utils.go:24`. A line of more
than 64 KiB ends the printer; stdout then fills and the server blocks.

Connections:

- `ConnCount` is zeroed by `waitForExit` while a proxy still has its decrement to do: it
  becomes -1. `ConnCount++` and `ConnCount--` of two proxies lose updates. Either matters only when neither
  server info nor the list command answers.
- Three returns of `HandlerClientConn` close nothing, against `conn-prot.go:212`: an
  unreadable first packet, a failed `WarmMS` of an online server, a failed dial. Only the finalizer of the
  connection closes it. `openProxy` answers an INFO with the text of a JOIN when the dial fails.
- The absolute deadline set before a Read stays in force for the writes that follow.
- The status with a large icon exceeds what the header can say: beyond 16380 bytes its second
  digit is cut to a byte or runs on into the next sub-header, and the client reads a wrong length (`RepliesReadable`). A 64x64 icon may take 21 KB in
  base 64, and nothing limits it (`config-utils.go:97-160`), against the range 0 - 16379 of `conn-prot.go:22`.
- `statsRespBase` and `statsRespFull` say "server can't be online if this function was called"
  (`conn-query.go:214`, `247`). It can: `CheckMSWarm` also refuses after a
  `MajorError`, and the status is read again after it. The answer then has no text.

Ending: when the listener cannot be opened, `AutoTerminate` may return to `main`, which panics on
a nil listener and leaves a pre-warmed java process (`AcceptNil`).

Configuration: a setting that holds `\u` where no escape follows (a path of windows) makes
UnicodeEscape fail; `Save` logs that and writes an empty file (`config.go:99`), against `config.go:89`. A crash between truncation and write leaves an empty file, which msh does not start
with. What a user writes while msh runs is overwritten by the next save. A `-version` flag is overwritten by what
`loadRuntime` reads from the jar (`config.go:349`), and a server that reports another version than its
jar makes msh write the file at every start.

Segments: `x-ratelimit-reset` of zero or less makes requests follow each other at once. Segments
shorter than 20 minutes never notify, because `reset` starts the ticker anew. A report whose
answer was lost is reported again, cumulatively. The last report of `MshMgr` is built without
the mutex. After a 403 no timer is set: reporting has ended, and `AutoTerminate` follows.

## 5. Proofs

`ServCtrlProofs` proves, for any sets of clients, operators, timers and killers, any number
of starts and any setting of the configuration constants, with no assumption on the scheduling:

- `TypeCorrect`: `Spec => []TypeOK`.
- `InvCorrect`: `Spec => [](Ordered => IInv)`.
- `OneServer`: `Spec => [](Ordered => SingleServer)`: `twice` and `unwaited` are the only ways to the
  counterexample of `bug_two_starters`.
- `ImplementsLifecycle`: `Spec => LifecycleSpec`.
- `NeverForgottenCorrect`: one client implies `Spec => []NeverForgotten`.
- `NeverForgottenUnlessCounted`: `Spec => [](connCount > 0 \/ NeverForgotten)`, for any number of clients.
- `StopIsPursued`: `AllowKill # 0` implies `Spec => [](Ordered => Pursued)`: a server with a stop to read is
  alive, not OFFLINE, and has a killer.
- `KillersAreShort`: each statement of a killer, unless msh panics, lowers a number of at most `AllowKill` + 4 that nobody else
  raises.

`SingleServer` is not inductive: whether a second process can be launched depends on which
goroutine has read OFFLINE and what the goroutines of the last start still have to do. The
invariant has a part that always holds, `Placed` (each function is at a statement of its own), and as long as no start has lost its
race `IInv`, of four parts:

- `Order`: instances are used in order, and all but the last are finished: dead or failed,
  their waiter gone.
- `Watched`: where printer and waiter of an instance stand tells the state of its process
  (a waiter past `Wg.Wait` means printers gone and process dead, and so on).
- `Published`: the status is OFFLINE exactly when the last waiter has not published STARTING
  yet or has published OFFLINE already; `IsActive` covers the waiter's life.
- `Launch`: at most one goroutine is between the test of `IsActive` and `cmd.Start`, and what it
  read is still true. This is the part that `twice` breaks; `unwaited` breaks `Watched`.

The proof has one lemma per action or group of actions that touch the same part: a frame
lemma disposes of goroutine steps that stay out of `Launching` and leave processes, printers
and waiters alone; the others are done one by one. TLC checked `IInv` as an invariant
before it was proved, and so were the ones below. The refinement follows step by step from `IInv`: only `CmdStart`
maps to `Launch`, only `Dies` to `Die`, the printer's and waiter's stores to `Publish` and
`Offline`, all else to stuttering.

`NeverForgotten` speaks of a state in which all goroutines rest. The invariant behind it, `Watch`, says who
carries the duty to freeze while they do not. It has one part for a process that is just launched (`FreshInv`), one for a server that boots
(`BootInv`) and one for a server that is awake (`AwakeInv`): a timer is running or about to
be armed (`Scheduled`), or a goroutine is inside `FreezeMS(false)` that has yet to count, suspend or stop
(`Told`), or somebody is ending the server (`Stopping`), or somebody is on it whose departure is yet to be read (`Occupied`); a server
that boots has the first or a soft freeze before its switch, which will arm again. A suspended server needs nobody; whoever
resumes it, a JOIN, an operator, the refresher or `FreezeMS` itself, has yet to arm or to stop. The duty is handed on: Fire turns a timer
into a soft freeze, the freeze into a stop, into a suspension, into a new timer, or into `Occupied` when it counts somebody, and
the line "lost connection" turns that into the `disarm` of a printer. Resting goroutines leave only the running timer. The lemmas go
by who moves: goroutines, printers, waiters, the server, clients.

The six exceptions are where a duty is dropped, and dropping any of them makes TLC find a counterexample; `Timely` says that none of the four
that heal is in effect. That a counted client is there needs one client: two lose an update of `ConnCount`,
which then counts somebody who is not there, and the soft freeze that reads it neither stops nor arms. With one client `CountInv`
holds: the resets of `waitForExit` make the count smaller, never greater.

`StopIsPursued` and `KillersAreShort` are what safety can say of `StopIsFinal`: there is always a killer, it does not take the server
for OFFLINE, and it is through after `AllowKill` + 4 statements. What is left to TLC is that goroutines run.

`MshExitProofs` proves, for any set of java processes, commands, answers and faults, with no further assumption:

- `TypeCorrect`: `Spec => []TypeOK`.
- `CleanExitCorrect`: `Spec => []CleanExit`.

`CleanExit` speaks of the moment msh ends; what makes it true happened before. As long as no
excuse occurred, its inductive invariant adds `Startup` (no server before `main` accepts connections or
pre-warms it, and by then the manager receives signals, so that nothing kills msh outright), `Ended` (OFFLINE means no
process) and `Shutdown` (what is already known at each statement of the manager: past the freeze
the server is dead, stopping, or online with a stop to obey; past the second it is dead or stopping;
at `os.Exit` it is dead). One lemma for each group of actions.

`ToldForGood` is the safety of `ExitsWhenTold`, excuse or not: once a signal, the console, a failed start-up or the update server
has asked msh to end, it remains asked at every step until it has ended; and each statement of the
manager lowers a number of at most 12 that nobody raises. Its invariant `Once` says that each goroutine is launched once.
What is left to TLC is that `FreezeMS(true)` gets out of its polling loops, if the server does not stay where it is.

`QueryProofs` proves `TypeCorrect`, `KeepsChallengesCorrect` and `ChecksChallengesCorrect` for any
values, any length of the list and any hour. `TypeOK` is an invariant of the loop: the index of
`inLibrary` stays inside a list that shrinks under it. `IInv` adds `Kept` (every good challenge is
in the list) and `Sound` (a challenge in the list never outlives the last one issued with its value, and what
the loop has been past was good when the request was read). The lemmas `Removed`, `Ticked` and `Elements`
say what the removal and the timers do to the sequence. `RequestsAreShort`: a request costs five statements and
one for each challenge kept, the safety of `AlwaysServes`.

`ClientConnProofs` proves `HeaderReadable`, that a client reads back a length if and only if it is at most 16380, and, for any
clients, servers and whitelists, `TypeCorrect`, `RepliesReadableCorrect`
(from `HeaderReadable`, for any lengths of replies) and `UnlistedCorrect`; the invariant of the last,
`Admitted`, says at which statements a handler has passed a whitelist or has seen the server online.
`LeftIsTorn` (the two connections of a proxy are open together or closed together, in whatever order its directions
notice) and `ClientsAreShort` (each statement of a client's goroutines lowers a number of at most 11 that only `Accept` raises)
are the safety of `ProxiesEnd` and `HandlersEnd`; both rest on `ProxyInv`, which ties the statement of the handler and of the
two directions to the state of both connections.

`ConfigProofs` proves, for any number of folders, hosts, ids and files:

- `TypeCorrect`, `UniqueIdsCorrect`, `IdKeptCorrect`, `KeepsSettingsCorrect`, `FileAgreesCorrect`.

`UniqueIds` is not inductive: a copied or moved instance is harmless because it names the place it was
made for. `IdInv` says so: instances with one id name one place, no two folders are in one place, and
from the moment msh knows its id its own instance is healthy and holds it.

`SegmentProofs` proves `TypeCorrect`, `ReportsFitCorrect` and `NoSecondLostCorrect` for all
durations, timeouts and bounds. `ReportInv` is the invariant: the hibernation lies within the duration, and while a
request is under way the counters are those of its report. `TimerIsSet` is the safety of `KeepsReporting`: however a
request ends, a timer is set, except after a 403.

`ProcTreeProofs` proves, for any number of processes and any parent ids:

- `TypeCorrect`, and `TreeIsWholeCorrect`. `TreeInv` is the loop invariant of `getTreePids`: what is collected are
  descendants of the root, and the children of everything but the last layer are collected.
- `SuspendedAreFoundCorrect`. That a suspended process is found again is not inductive: processes end and their
  children stay behind. `ChainInv` is why it works: along the parents of a suspended process every one
  is suspended, and at least as often (`Led`, `Rooted`), so that none can have ended. A suspend keeps this because `IsNext` takes parents
  before their children (`Ranked`); a resume breaks it half way and restores it at its end, which is why
  the invariant speaks of `Left`, the counts that will be left, and why `"half resume"` is the exception.
- `FlagIsTrueCorrect`, from `FlagInv`: after the root has been signalled and before the flag is stored, the call tells what
  the flag will say.
- `CallsAreShort`: a call takes at most 2 * N + 2 statements for N processes, circles included: the safety of `CallsEnd`.

`TerminalProofs` proves `TypeCorrect`, that the pipes stay within their limits, whoever writes; and `CallersAreShort`, the safety of
`CallersReturn`: a caller that hears nothing returns after `Quiet` + 4 statements and ticks, only a line it receives sets it
back, and that line is no longer under way; only the server's own lines and written commands make more of them.

Only model-checked: everything temporal under fairness (`EmptyServerHibernates`,
`FreezeCommandStops`, `StopIsFinal`, `ExitsWhenTold`, `MainStarts`, `AlwaysServes`, `HandlersEnd`,
`ProxiesEnd`, `KeepsReporting`, `PlayersAreNotified`, `CallsEnd`, `PipeDrains`, `CallersReturn`), which is
out of the prover's reach: it has neither liveness under fairness nor ENABLED. For nine of these the step
that makes progress is bounded or kept possible by a theorem (above). The findings are counterexamples of TLC.

Every theorem's assumptions on the constants are the named ASSUMEs of the models, which TLC evaluates
in the runs: sets of goroutines are disjoint, bounds and lengths are numbers.

## 6. Not modelled

- `lib/errco`, `lib/model`, most of `lib/utility` and `vendor` have no control state. (`UnicodeEscape` is
  modelled where `Save` uses it.)
- Formatting of messages, version and favicon, `LoadProgress`, uptimes and byte counters are
  displayed only. How the bytes of a packet tell its type is a choice in `ClientConn`.
- The checks of `loadRuntime` that only log or set `MajorError` (eula, java, ports, icon).
- The process tracker, cpu and memory averages and play seconds of the segment manager:
  measurements in floating point.
- Windows: console colours and the attributes of the process group. `FileId` of either system is
  the file id of `Config`.

`PROJECT.json` lists each hazard with the properties about it, or why there is none.
