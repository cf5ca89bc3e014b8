# Verification of ctfbox

ctfbox runs an Attack/Defense CTF: teams defend vulnerable services on boxes of
their own, attack those of the others, and submit the flags they steal. A game
server plays rounds, has checkers exercise every service of every team, keeps
the score, and opens and closes the game network.

This directory holds TLA+ models of that platform, the TLC configurations that
model-check them, and theorems about them that TLAPS proves. `PROJECT.json`
indexes all of it: which lines of code each definition stands for (`map`), the
runs, a mutation of the code for every property (`mutants`), the hazards the
properties are aimed at, and the theorems.

- [1. The system](#1-the-system)
- [2. What is hard about it](#2-what-is-hard-about-it)
- [3. The modules](#3-the-modules)
- [4. The runs](#4-the-runs)
- [5. Fairness](#5-fairness)
- [6. The proofs](#6-the-proofs)
- [7. What the code does not guarantee](#7-what-the-code-does-not-guarantee)
- [8. What is not modelled](#8-what-is-not-modelled)
- [9. Plan](#9-plan)

How to run it, inside this directory:

    tlc -workers 2 -config rounds_crash.cfg MCRounds      # a run
    tlapm DispatcherProofs.tla                            # the proofs of a module

## 1. The system

The **control node** runs one Go process, the game server
(`gameserver/src`), next to PostgreSQL. **Routers** carry the game network
(WireGuard, iptables) and run an agent (`router/agent.py`). **Checker workers**
are the same Go binary in another role, one embedded in the game server and any
number on other hosts. A **vm node** runs the teams' boxes under incus.

| Component | State | Operations | Interacts with | Correct if |
|---|---|---|---|---|
| Checker job queue (`jobs.go`, `worker.go`, `worker_api.go`) | heap of pending jobs, leases, worker registry, reports of the workers | Submit, Claim (long poll), Complete, Reap every few seconds, hello, flush and retry of reports | round loop submits and waits on a channel per job; workers pull over HTTP | a job is in one place, is retried only when its lease ended, and gets exactly one answer whatever happens to workers and messages |
| Game clock and round loop (`checkers.go`) | start, end and freeze time, exposed round, flags, status rows, SLA counters | one goroutine per (team, service) and round; pause, clock shift, scheduled freeze, end of game; boot in the middle of a game | database, job queue, network control, caches | exposed rounds are complete and final; rounds start on time; every round closes |
| Flag submission (`submission.go`, `submission_api.go`) | service scores, submissions, a lock per team, the scoreMutex, rate limits | PUT /flags | flags of the round loop, bans and pauses of the organizers | scores are those of serial book-keeping; every request is answered |
| Game state and configuration (`state.go`, `config.go`, `admin_api.go`, `vpn_profiles.go`) | three copies: database, memory, `config.json` | setters, PATCH of settings and teams, ReloadState, suspension of VPN profiles, restart | everything reads the memory copy; the deployment tool reads the file | memory and file follow the database |
| Public API caches (`scoreboard.go`) | one rendered answer per round and endpoint, a generation number | begin, isValid, serve, update, invalidate | invalidated by the round loop and the organizers | no answer is older than a change that was over when the request came in |
| Flag-id service (`flag_ids.go`) | external flag ids, a complete cache and one per filter | POST by checkers, GET by teams, invalidation by post and round | flags of the round loop | no id before its round is exposed, none after it expired, none forgotten |
| Network control (`ctfroute.go`, `nodes.go`, `ctfroute.sh`) and router agent (`agent.py`) | wanted network state and bans; iptables rules of each router | broadcast of commands, node-sync, reconcile loop, boot | round loop and organizers ask for states | routers end up in the published state, and never in one nobody asked for |
| Submission log, traffic accounting, packet capture | bounded queue and batches; counters; files | record, flush; push, ingest; select, merge | the panel reads them | nothing counted twice or negative; bounded loss |
| Team boxes (`vmreset.go`, `incus/*`) | incus containers, a ready marker, the agent's table of resets | first build, start, reset from the panel or the terminal | the panel, `run.py` | a reset leaves a box that is new, complete and running; the node comes up |
| Deployment tool, router configuration (`run.py`, `confgen.py`) | `config.json`, compose files | read the configuration, assign teams to nodes, build images | operators, the editor's files | every team on a node that exists, unique addresses |
| Configuration editor (`editor/`) | the configuration in each tab, a draft in the browser's local storage, the text of each number field | edit, import, export, reset, preview of the topology | writes the file `run.py` reads | the preview is what is deployed; nothing typed is lost; the control role has one place |
| Public pages (`frontend/src`: `MainLayout`, `query.tsx`, `ScoreboardPage`, `ScoreboardTeamDetail`, `ServiceScoreData`, `RoundCounter`, `GameBanners`) | queries with data and a request under way, the round shown last | polls, invalidation when the round changes, countdown | the public API | the ranking keeps up with the round above it; what players are told is so; a service cell agrees with its SLA |
| Control room (`frontend/src`: `AdminPage`, `admin.ts`, `components/admin`) | queries, the call under way | polls, calls, invalidation after a call | the admin API | a click does what its label says; its effect is shown and lasts |

`PROJECT.json` lists all components with their status, those not modelled
included.

One process means shared memory: the round loop, one goroutine per check, the
reaper, the admin handlers and the players' requests run concurrently and meet
in GameState (one RWMutex, but every accessor locks on its own), in the
database (some transactions, many single statements) and in the job queue (one
mutex). Across processes there are HTTP requests only: claims and reports of
workers, commands to routers, node-sync from them.

## 2. What is hard about it

`hazards` in `PROJECT.json` has each one at its line. In groups:

- **Leases.** A worker may be slow, dead, or alive with its response lost. A
  report may come after its job was given to someone else, twice, or after the
  control process was restarted and numbers its jobs from 1 again.
- **Crashes.** The round loop writes flags, rows and settings one by one; the
  process may die between any two, and what it finds on the next boot decides
  what players see.
- **Pauses.** A pause may begin and end anywhere in a round, and on resume three
  times are shifted with three writes.
- **Check-then-act.** A flag is judged, then the scores are read, then written,
  while the round loop deletes flags and organizers ban teams.
- **Copies.** Settings exist in the database, in memory and in a file; answers
  are cached. Each copy is written by several callers, in several steps.
- **Convergence.** Routers miss commands, reboot and come up frozen; scripts of
  several iptables calls interleave on one router.
- **Browsers.** A page shows answers of several queries that arrive in any
  order, and sends what was true when it was drawn; two organizers do so at once.
- **Two languages.** The rules of the topology are written in TypeScript for the
  preview and in Python for the deployment.
- **Scripts.** A box is cloned by a dozen incus commands, of which any may fail;
  the container may be stopped between two, and resets of one box overlap.
- **Liveness.** A round must close even if no worker is alive; no request may be
  left behind a lock; routers must come to agree with the control node.

## 3. The modules

Each component module has its state as VARIABLES named as in the code, one
action per handler, goroutine step or lock section, then its properties. Where
the code makes several database writes or takes a lock twice, each is an action
of its own, so that everything else can happen in between. Variables marked
*history* are written by the model only, to state properties. `MC<module>`
instantiates a module for TLC; `<module>Proofs` has its theorems
(`SpectatorProofs` those of `ApiCache` too, `RoundsProofs` those of the modules
on `Rounds`, `GameStateProofs` those of `ControlRoom`, `NodeProofs` those of
`TeamBoxes` and `NetworkControl`).

**CheckJobs** is what the round loop expects of the job queue: a job that is
asked for is answered once, with the status of a run of that very job or with
KILLED, and always in the end; a restart forgets who is waiting, and weakens
"that very job" to "some job" from then on.

**Dispatcher** (`jobs.go`, `worker.go`, `worker_api.go`) implements it.
`pending`, `inflight` and `expires` are the queue and the leases, `reaped` the
jobs `Reap` has taken out under the mutex and not failed yet, `result` the
channel of a job (capacity 1), `running`, `results`, `posting`, `wire` the life
of a report: in the making, waiting for a flush, in a flush whose answer is
outstanding, on its way to `Complete`. `Claim`/`ClaimLost` differ in whether the
response arrives, `FlushOk`/`FlushError` likewise. `ControlRestart` forgets the
queue and restarts the numbering while remote workers carry on. `Hands` are the
slots that run a job, those included that have lost their lease.
`Contract == INSTANCE CheckJobs` is the refinement.

**RoundHistory** is what a player may rely on: an append-only table of complete
rounds.

**Rounds** (`checkers.go`) implements it. `pc` is where `checkerRoutine` is;
`task[t]` is the goroutine of a target in `runServiceRound`; `db` and `gs` are
the game's times in the database and in memory. `Crash` may happen anywhere and
`Boot` decides, like `main` and `checkerRoutine`, between a game that is ended,
running or still to come, and throws away what is beyond the exposed round: the
flags first, the rows by a statement of their own (`ClearRows`), and the process
may die in between.
`Leftover`, `Shifted`, `GetStatus`, `Checked`, `Up` are the code's helpers. The
checkers are the environment: `Replies` are all statuses a job may end with,
KILLED included, in any order. Two assumptions: the steps of the process take no
time compared to a tick (the clock moves only while all goroutines wait), and
the database accepts every write. The set of targets is fixed.

**StatusPage** (`RoundCounter.tsx`, `GameBanners.tsx`) stands on `Rounds`: the
fields of `/api/status` (`status`), and what the round counter and the banners
make of them and of the clock, as functions (`nextRoundAt`, `Bar`, `InfoText`,
`Banners`). It has no state of its own: the page asks every three seconds and
counts every second, which is fresh compared to a tick.

**ServiceCells** (`ServiceScoreData.tsx`, `DiffArrow.tsx`, the tables of
`ScoreboardPage.tsx` and `ScoreboardTeamDetail.tsx`) stands on it: the live half
of what `scoreboard.go` serves of a status row (`makeServiceStatus`), and the
lamp, the colours and the arrow of the SLA that a cell shows of it. The frozen
half and the scores are left out.

**ScoreLedger** is what a capture is: one entry in the books, once per flag and
team, paid by another team, never overdrawn, computed from the scores of that
moment.

**Submission** (`submission.go`) implements it. `Arrive` is what is checked at
the door, and what the request knows from then on; `lockMap`, `recent` and
`scoreMutex` are the locks and the rate limit; `Accept` and `Deny` the judgement
of a flag; `ReadScores`, `Commit`, `Rollback` the transaction. Next to it the
part of the round loop that touches flags runs (make, plant, PUT_FLAG answered,
delete), with the organizers' bans and pauses, and restarts. The points formula,
`scale / (1 + exp(norm * (sqrt(own) - sqrt(victim))))`, is abstracted to three
levels: more for a thief behind its victim, fewer for one ahead; it is always
positive.

**GameState** (`state.go`, `admin_api.go`, `config.go`, `vpn_profiles.go`) has
the three copies. A call is a sequence of steps, each on one copy; ReloadState
reads key by key and then replaces all of memory. A write of the file may fail:
the server logs that and goes on (`PatchFile`, `WriteTeams`). `tick` represents the settings
that PATCH /settings handles, `paused` those with a setter of their own, a team
is the number of its last edit.

**ApiCache** (`scoreboard.go`) is the cache of `/api/scoreboard`, which that of
`/api/team` is like. An answer has the rows of the round its request read when it
came in - rows of an exposed round are final - and parts of memory that are read
later, one by one; a part is the number of its changes. A request that comes
before the first round gets the empty answer, past the cache. `announced`
(history) is what was in memory at the last invalidation; `overtaken` (history)
marks a request that found the cache valid and is about to send what another
request has stored since for another round. The caches of `/api/chart` (empty in
a game without teams) and `/api/status` (cached before the first round, too)
differ in that.

**Spectator** (`query.tsx`, `MainLayout.tsx`, `ScoreboardPage.tsx`,
`ScoreboardTeamDetail.tsx`) stands on `ApiCache`: a page with the query of the
status (`shown`) and that of a ranking (`board`: what is shown and the request
under way), over requests that may be answered late, repeated or lost.
`InvalidateQueries`, `Fetch` and the retries are react-query's.

**ControlRoom** (`AdminPage.tsx`, `admin.ts`, `components/admin`) stands on
`GameState`: the polls of the overview (`panel`; those of teams and services have
no interval, `admin.ts:291`), the call of a button (`click`), and
other organizers next to it. A click is a call of `GameState` whose arguments
are what the page shows. `meant` (history) is what the calls of this organizer
have set and nobody has set since. Overlapping calls are left to
`state_pause_lost`: here one is made at a time, by anyone.

**Topology** (`editor/lib/topology.ts`, `run.py`): the two implementations of
implicit nodes, roles and the assignment of teams, as operators. Names are
numbers, pinned teams sets, weights whole numbers (section 7).

**ConfigEditor** (`editor/app/page.tsx`, `components`, `lib/config.ts`) stands
on it: the configuration of each tab, the draft the tabs share, a number field,
the file being picked and the file exported last. `parseConfig`,
`serializeConfig` and `from_dict` go field by field, with null, blank and
missing told apart, white space and blank too. A file may name what the editor
cannot hold: `local`, `wireguard_port`, the control role at another node. Every
control of every section is an action.

**FlagIds** (`flag_ids.go`): posts, the complete cache rebuilt under a write
lock, the caches of filters, and the round loop that exposes rounds and
invalidates. A flag id is the number of its last post.

**NetworkControl** (`ctfroute.go`, `nodes.go`, `ctfroute.sh`, `agent.py`): the
wanted state and bans, the calls that store, remember and broadcast them, and on
each router the number of iptables rules of each kind and the scripts running,
one iptables call per step. A ban is stored, broadcast and only then remembered
(`OrderBan`); at boot, and when an organizer reloads the state, every ban is
broadcast again (`Reapply`, `OrderReload`), and nothing else is served until the
one at boot is done (`Booting`). The agent looks, asks and repairs; its commands and
those of the control node interleave. `asked` (history) are the states anyone
asked for. Its specification is called `NetworkSpec`, so that a module can extend
it together with another one. Status is read at once, and scripts neither fail nor time out.

**TeamBoxes** (`customize-vm.py`, `start.sh`, `incus/agent.py`, `vmreset.go`,
`run.py` resetvm): `node` is where `start.sh` is, `ready` its marker, `pool` and
`box` what incus has, `clone` what each script does next to the box of a team:
one script per team in the first build, at most one reset of a team through the
panel (the agent refuses a second one), and any number from terminals, which
`run.py` starts without asking the agent. `Accepts` and `Effect` are incus: what
a command needs and does; a command that is refused or fails (`Refuse`,
`CommandFails`) ends the script or, like in `destroy_box`, does not. `start`
belongs to the latter: its `exit 1` only leaves a subshell. `Stop` kills
everything that runs. `old`, `overlapped` and `damaged` are history. A reset from
a terminal may come whenever the container runs, the first build included, since
`run.py:1967` does not look at the node; the panel's wait for a node that is up.
The state `exit` becomes `off`, and `Launch` may follow: docker or an operator
starts the container again. At a start a box may fail to come up and is left
behind (`StartAll`). A box that is up is not stopped or broken by its team.

How they relate. `Dispatcher` and `Rounds` meet in `CheckJobs`: `Rounds` uses of
the queue exactly what that contract promises (one answer per job, KILLED in the
worst case), and its fairness (`Answer` after `Deadline + Slack`) is the
orchestrator's own timeout. `Submission` takes from `Rounds` the life of a flag.
`FlagIds` and `ApiCache` take from it the exposed round. `NetworkControl` takes
the orders of `Rounds` (its `net`) and of the organizers as arbitrary ones. The
pause of `GameState` is what `Rounds` and `Submission` see as a free choice of
the organizers. The pages are composed with what they talk to: `StatusPage` and
`ServiceCells` with `Rounds`, `Spectator` with `ApiCache`, `ControlRoom` with `GameState`, the
editor with the deployment tool.

## 4. The runs

`IInv` in `submission_race` is the inductive invariant of the module's proofs.
Every property of a passing run has a mutant: a plausible bug in the code it is
about, under which TLC must find it violated with the same configuration.
States and times are with two workers.

| Run | Size | Question | Bounds, and why they are enough |
|---|---|---|---|
| `dispatcher_retries` | 132 k states, 40 s | Does every job get one answer, without early retries, does a job that hangs occupy a bounded number of slots, and does the queue drain? | One job: jobs meet only in the heap's order and by number. Lease 1, a round of 3 ticks: room for all `MaxRequeues + 1` leases and for one cut off by the deadline. An embedded and a remote worker with two slots, so that a job runs twice at a time; one restart of the control process. |
| `rounds_crash` | 177 k states, 95 s | What is left of a crash: history append-only, flags final, rows true to the flags (GET_FLAG is "not checked" only for want of a flag), SLA counters reproducible, and the cells of the pages true to them? | Two targets, of which only the first fails (`OnlyAFails`: failures of both are independent, the history needs one row of a round without the other); rounds 0 to 3, flags valid for two rounds, so that GET_FLAG has up to two flags; one crash anywhere. |
| `rounds_pause` | 617 k states, 105 s | Does the clock survive pauses, does each round close and the game end, and do the pages tell the players so? | One target, two ticks a round with a tick of slack, so that a round closes late; start, end and freeze in the middle; two pauses and a crash. |
| `submission_race` | 876 k states, 60 s | Are the scores those of one clerk? | Two thieves of the same victim (three teams), or two requests of one; one flag per round that may be deleted at any time; a restart between judgement and commit. Score 2, gains 1 to 3: the victim can be emptied, and overdrawn if the code let it. |
| `submission_answers` | 148 k states, 70 s | Does every request end, whatever early return it takes? | NOP team, bans, pauses, rate limit, junk and empty lists; two requests contend for both locks. |
| `control_room` | 772 k states, 120 s | Does memory follow the database, does a click do and keep what its label said, and does the page show it, and what others do? | This organizer and another, a value of each kind, a patch that may be refused, a file that may not be written, one restart, answers lost at will. A second of anything would be handled like the first: clicks wait for each other. |
| `state_pause_lost` | violation | Is a pause obeyed when calls overlap? | Two callers suffice: one reload, one pause. |
| `cache_current` | 2.04 M states, 100 s | Can an answer be stale, and can the ranking of a page fall behind its round counter? | Two requests at the server at once (the page's and another, or a repeated one), the round loop and an organizer who overlap, one change of memory, rounds -1 to 1: a change before, in and after a render, a poll before and after a round, and a render of round 0 that is stored after round 1 was published. |
| `flagids_posts` | 786 k states, 40 s | Does the write lock keep rebuilds and posts apart, and is no id given early? | Two requests with and without a filter, a flag of each of two rounds, one writer at a time. |
| `network_states` | 439 k states, 105 s | Do routers converge, and can interleaved scripts leave a state nobody asked for? | One router (routers share nothing but what is published), one team, two orders or reloads by overlapping callers, a reboot, a restart with the bans sent again. |
| `boxes_resets` | 214 k states, 35 s | What is left of a box, and does the node come up, whatever fails, stops or overlaps? | Two teams, as the marker needs the result of all; a reset from the panel for each, and one from a terminal for one of them, the first build included; one failing command and one stop, anywhere. |
| `editor_edits` | 33 k states, 45 s | Is the preview what is deployed, and does nothing get lost in fields, drafts, files and tabs? | Two tabs, two teams (round robin or pinned), three nodes of unequal weight. Any two changes from any of three drafts or four foreign files (one from before most keys existed with the control node elsewhere, one with a role of `run.py`'s own, one by hand that the editor can hold, one with two routers on one machine that it cannot): each step reads the whole configuration, so that two changes reach every pair of fields that could disturb each other. |

The violation is a disagreement between the code and what it says of itself;
`findings` in `PROJECT.json` quotes both sides. ReloadState reads the settings
without a lock, then replaces all of memory (`state.go:424`). A pause that is
written in between is in the database and not obeyed, although "from then on the
database is the authority" (`config.go:53`).

CHECK_DEADLOCK is off but in `boxes_resets`: clocks stop at their bound, games end, and
idle servers with all bounds used up have nothing to do.

## 5. Fairness

Only runs with liveness properties use `FairSpec`; nothing is assumed that the
scheduling of the code does not give.

| Module | Fair | Because |
|---|---|---|
| ControlRoom | WF of `Poll`, SF of `Serve` and `Receive` | the interval of a query goes on ticking; not every request and answer gets lost. Clicks, calls of others and the restart are never fair. |
| Dispatcher | WF of `Tick`, `Reap`, `Fail`, `Receive` | time passes; the reaper is a ticker of the control process and fails the jobs it took in the same goroutine; a goroutine that can read its channel does. Nothing is assumed of workers or messages: `QueueDrains` and the liveness of `CheckJobs` hold with every worker dead. |
| Rounds | WF of `Tick`, `Loop`, `Ask`, `PublishRow`; of an answer only after `Deadline + Slack` | goroutines are scheduled and a killed process is started again; the orchestrator stops waiting 10 s after the deadline (`checkers.go:268`). Organizers resume the game only if they like. |
| Submission | SF of `Handle(r)` | a handler waits for mutexes others take again and again: weak fairness would not do, and a Go mutex hands itself to a waiter that has starved for 1 ms. Statements of the database return. |
| NetworkControl | WF of the calls, of each script and of the agent's loop; SF of `Sync` | goroutines and scripts run; the loop catches every exception; a router that asks every few seconds gets through at last. Bounded orders and reboots stand for "if the disturbances stop". |
| TeamBoxes | WF of `start.sh` and of each script's next command | commands return; `wait_ready` gives up after a timeout. `Launch` is not fair: docker starts a container again only where the compose file says `unless-stopped`, which `run.py:1568` leaves out for the first build next to the game server, and never after `docker stop`. `NodeComesUp` therefore supposes that somebody always starts the container, and that builds are not disturbed by resets for ever. Resets, failures and stops are bounded or optional, never fair. |

## 6. The proofs

What TLC checks on a small instance, these theorems state for every value of the
constants: any number of teams, workers, requests, rounds, crashes and changes.
Each rests on the component's named assumption (`DispatcherAssumption`, ...),
which says little more than that constants are numbers or sets, and which TLC
evaluates in the runs.

**DispatcherProofs.** `IInv` strengthens `OnePlace`, `NothingLost`,
`NoEarlyRetry` and `FirstBootAttribution` by what they depend on: leases end
within the round (`LeaseWithinRound`), a run belongs to a lease and carries its
end (`RunsHaveLeases`), reports tell of runs that took place (`HonestReports`),
and until the first restart numbers are unique (`FirstBootNumbers`) - without
the last one, `Complete` could credit the report of one job to another. From it
follow `NoAnswerLost`, `RetriesAreNotEarly`, `AnswersAreAttributed`.
`ResultsAreHonest` is a second, smaller invariant that outlasts restarts: what
workers hold and report are statuses of runs that took place.
`DispatcherImplementsCheckJobs` uses both: every step, crashes and restarts
included, maps to a step of `CheckJobs` or a stutter. `HungJobsAreBounded`:
the runs of a job that are still in hand belong to different tries
(`OneRunPerLease`), since a try is counted whenever a lease ends, also at the
instant of the deadline; hence they are `MaxRequeues + 1` at most, with or
without a lease, across a restart too.

**RoundsProofs.** `RoundsInvariant` is about `IInv`: keys of rows are unique,
the clock of the database never falls behind what was played (a shift takes it
back to where the pause was noticed), memory agrees with it but for a shift in
progress, rows beyond the exposed round belong to the round in progress, and a
goroutine that is done left its row. `ClockCovers` is why a restart never
computes a round that was exposed already. `HistoryIsAppendOnly` concludes that
`Rounds` refines `RoundHistory`: `CloseRound` is the one publishing step, all
others leave the exposed part alone. `CountdownIsHonest` is about the page
(`StatusPage`): memory never has a later start than the database
(`StartLoaded`), the round in progress is at most one ahead of the exposed one,
hence the counter stays within a round and no round is exposed while it is still
counting down to it. More rests on the invariant: only flags of the round
in progress come and go, and that round is not exposed (`ExposedFlagsFinal`); a
failed GET_FLAG stays (`FailuresStay`); a new row has the largest round of its
target, so that what the rows before it were computed from does not change, and
a clean-up takes the rows beyond the exposed round alone (`SlaIsReproducible`).
`RowsTellTheFlags` needs a strengthening of its own, `FlagsInv`: flags, like
rows, are no later than the clock; the round being played begins without any;
and a goroutine knows of its flags what is in the table (its own is there until
PUT_FLAG fails, those it still asks for are valid ones). Between the two deletes
at boot (`ClearRows`) rows beyond the exposed round have lost their flags: the
property is about exposed rounds always, and about others only while the loop
runs. A restart removes only
what is beyond every row that stays, and round 0 is exempt once the process was
restarted, since it may be played again over what is left of it.
`CellsAreHonest` concludes about the pages: the counters of two rows in a row
differ by what the later one adds (`NextCounts`), and with PUT_FLAG and
CHECK_SLA never left out (`ChecksRan`) the SLA cannot fall with a green lamp nor
rise with a red one (`ArrowOfRow`).

Three results are about time. `RoundsStartOnTime` needs to know how late the loop
can be wherever it is (`LoopOnTime`): at most `Slack` beyond the deadline while it
waits for answers, and during a pause it is the time the pause was noticed at
that counts, since the shift takes the clock back to it. `Slack` is any number: a
tick may be shorter than it, as the panel allows. `FrozenRoundIsShown`
rests on the freeze round being over (`FreezeInv`): it is not played again, so no
row of it comes, and if a crash took its rows away, none is left for it to have
been played by. `PlayersAreToldTheTruth` compares what the pages make of the
clock with the network (`ToldInv`): outside a shift memory agrees with the
database, the network is what the place of the loop says, and a round is begun
only before the end. It has a hypothesis, `EndsAfterStart`: no game is configured
to end before it starts. The
code does not check that.

**SubmissionProofs.** `SubmissionInvariant`: locks are held exactly by those who
work under them (`LocksHeld`); hence what a request has judged
(`JudgementHolds`) and the two scores it has read (`ScoresFresh`) stay true until
it commits, although flags are deleted and other teams submit meanwhile. `NoClash`
and `SubmissionImplementsLedger` follow: a commit is an entry of one clerk, and
nothing else moves a score. `TypeCorrect` includes that no score is negative,
which the square root of the points formula needs.

**GameStateProofs.** `TypeCorrect` holds however calls overlap. `CallsInOrder`
and `MemoryInStep` assume calls one at a time (`OneAtATime`: one caller); `IInv`
says for each step of a call what memory and database still differ in. That the
assumption is needed is what `state_pause_lost` shows.

Of the control room, calls are made one at a time, whoever makes them: a call
begins only when everybody is idle (`Quiet`), by construction of the module.
`RoomInOrder` is the invariant: the call under way is in progress at one
caller only, and what it has still to do is all memory and database differ in
(`OneByOne`); what was promised is so at every moment, and a call that sets
something else has withdrawn the promise with its first step (`Kept`); what a call
of this organizer has written by now is what its success will promise
(`Awaited`); and data that is older than such a call is being fetched again, by a
request that was sent after it (`Refetching`). Without the last two neither
property is inductive: the answer to a poll, or the end of a call, would be free
to show or promise anything. From them follow `PromisesAreKept`, `ClicksAreSeen`
and `RoomMemoryInStep`. `RoomImplementsGameState` says that the panel adds
nothing: every behaviour of the room is one of `GameState`. `ControlRoomAssumption`
keeps the values for "nothing known" and "nothing sent" apart from the settings.
What is promised of `config.json` is promised only while the last write of it
succeeded (`InFile`): the server does not tell when one fails.

**SpectatorProofs.** Of the caches (`ApiCache`) `CacheInvariant`: what is
announced is in memory; the parts of memory in the cache, and in every render that
may still fill it, are as new as the last invalidation, and the rows are those of
the round the cache is kept for (`CacheCurrent`). The generation number is the
argument for the parts: a render whose generation is still current has read them
after the last invalidation, since every invalidation increments it. It is none
for the rows, which are those of the round the request read before `begin`: a
late render may store an older round under the current generation. A request that
finds the cache valid for its round gets it, or is overtaken (`ServesItsRound`).
`NoStaleAnswer` follows for any number of requests and changers. Of the page (`Spectator`)
`ServerFollows`: whatever the page does is a behaviour of `ApiCache`, so that
its theorems hold under it (`PageAnswersCurrent`).
`RankingKeepsUp` (but for overtaken answers): a request the page has sent after its round counter changed
was, at the server, no older than the round before; and data that came from
such a request, or was asked for again, is never replaced by an older one. It
holds for any number of requests lost, repeated and overtaken.

**FlagIdsProofs.** `NoIdIsEarly` rests on what every cache and request holds
being public (`OnlyPublic`: exposed rounds only grow, and a rebuild selects by a
round that was exposed). `LockProtects`: who rebuilds holds the lock over an
empty cache (`LockHeld`), and posts are announced after they were cleared from
the caches, and cleared after they were stored (`PostsInOrder`); hence what is
rebuilt has every post a request may ask for (`EnoughForAll`), and
`NoPostForgotten`. Filtered answers are kept outside the lock: section 7.

**NodeProofs.** Of the boxes (`TeamBoxes`), for any number of teams, terminals,
failures and stops, and resets from terminals at any moment, the first build
included: a team whose reset met a build, a start or another reset is
`overlapped`, one whose reset the end of the container cut short `damaged`. The
first part of `IInv` follows a single script (`Achieved`, `Accepted`): what it
has done when it comes to a step, and that without an overlap nothing it asks is
refused; hence `Completeness`. Overlapping resets destroy each other's work at
any point, so nothing can be said of a single script there; `BoxesRecover` says
instead that of all scripts at work one is always about to make the box (with a
pool that lets it) or to start it. The last one to end therefore leaves a box
that runs: `Survival`. `Freshness` is an action property: a script that still
has the old box ahead of it has not cloned yet (`OldUntilCopied`).

Of the routers (`NetworkControl`), for any number of routers, teams, calls,
reboots and restarts: `OnlyAskedStates`. Scripts interleave, so nothing can be
said of the rules one of them leaves. The argument is about what is still to come:
every script that deletes a closing rule ends with a call that adds one, unless
someone asked to unlock (`ClosesAgain`). Therefore, as long as nobody did, either
a closing rule is there or a script that runs will add one as its last call
(`StaysClosed`), whatever other scripts delete before; and a router without scripts
is closed. That the rule for a lock is never added unasked is `LockAsked`, and
both rest on what is stored, published, sent and seen by the agents being
states that were asked for (`OnlyAsked`). The bans that are sent again at boot and
by a reload are scripts like others, which touch no closing rule.
`NetworkInvariant` is all of it.

**ConfigEditorProofs.** For any tabs, files, teams, nodes, weights and names.
`EditorAssumption` says which values the controls may produce and that drafts
and files are well-formed (`Conf`, `File`: the types of `config.ts`);
`MissingAssumption` keeps the values that stand for an absent key or null apart
from all others. `EditorInvariant` rests on one argument: whatever a control
hands to `update` is `Fit`, a configuration with the control role at the first
node, and `Become` moves draft and fields with it. From it follow
`ControlStaysFirst` and `FieldsFollow`, and, since parsing a draft gives it back
(`ReadBack`), `ReloadKeepsTheDraft`. `PreviewMatchesDeployment` is about the two
implementations of the topology: what the file leaves out of a node, both sides
fill in alike (`NodeWritten`), `WithRouter` adds a role that takes no teams
(`RouterAdded`), and so the assignment is one function of equal arguments
(`Places`), whatever that function computes. `ReexportIsTheSameGame` is about any
file, by whomever it was written, that the editor can hold (`EditorCanHold`): what
an import makes of each entry is written back to mean the same (`EntryImported`,
`EntriesWritten`), and so for the whole file (`FileImported`).
`QuietConfigurationsAreSound` is about what the round robin computes: with no
warning, distinct ids and no team pinned twice, every team has a place on exactly
one machine. `upTo` counts the slots of the machines before each one; it exists and
satisfies its equation (`SlotsCounted`), it grows (`SlotsGrow`), and hence each
slot of a turn belongs to exactly one machine (`SlotOwned`). These are inductions
over the list of machines. The rule of induction cannot be used with the
installed provers, but a set of numbers has a least member (`LeastNumber`, from
the well-foundedness of `<`), and the least machine for which the claim failed is
a contradiction. `EachGivenOnce` concludes for the round robin with pins, for
either role; the rest carries it through the export (`NoWarning`, `PreviewedOnce`).

Only model-checked is what is temporal beyond safety: `QueueDrains` and the
liveness of `CheckJobs` (its safety is `DispatcherImplementsCheckJobs`),
`RoundCloses`, `EndIsNoticed`, `RequestsEnd`, `PanelCatchesUp`, `RoutersConverge`,
`NodeComesUp`. Liveness under fairness needs ENABLED, which is out of the
prover's reach. Every invariant and every action property of a passing run is
stated by a theorem.

## 7. What the code does not guarantee

Some things the code or its documentation says of itself do not hold (Go files are
those of `gameserver/src`, `README.md` is that of the repository). One has a
run (section 4). The following are stated in the modules as properties of their
own; adding one to the configuration named reproduces it (`X <- Y` replaces the
line of `X` there).

| Property | What happens | Says otherwise | How to see it |
|---|---|---|---|
| `Attribution` (Dispatcher) | After a restart of the control process numbers start at 1 again (`jobs.go:99`), and `Complete` goes by the number alone (`jobs.go:163`): the report of a run from before is credited to another job. | `jobs.go:172` "Result for unknown/expired job" | INVARIANT in `dispatcher_retries.cfg` with `Jobs = {j1, j2}` |
| `PublishedWhenOver` (Rounds) | The row is written as soon as the answers are in: `waitForRound(currentRound)` is over at once. | `checkers.go:301` "only publish the status when the round is over" | PROPERTY in `rounds_pause.cfg` |
| `NothingHalfWritten` (Rounds) | A restart in round 0 keeps what is half written: the clean-up is made only if the current round is not 0 (`checkers.go:374`). | `checkers.go:375` | PROPERTY in `rounds_pause.cfg` |
| `NoRoundLost` (Rounds) | If the server is restarted while the game is paused, the time until then is not given back: the rounds are skipped (`checkers.go:129`). | `README.md:218` | PROPERTY in `rounds_pause.cfg` with `InitialStarts <- AtZero`, `InitialEnds <- Unplanned`, `Horizon = 10` |
| `FrozenScoresFixed` (Rounds) | The freeze round may be one that a restart skipped; the scoreboard falls back to live rows (`scoreboard.go:291`). | `README.md:259` | PROPERTY in `rounds_pause.cfg` with `InitialStarts <- AtZero`, `InitialEnds <- Unplanned` |
| `SubmittedFlagsExist` (Submission) | PUT_FLAG may succeed and its report be lost: the flag is in the service, can be stolen and submitted, and is deleted then (`checkers.go:280`). The points stay. | "The flag never made it into the service: forget about it." (`checkers.go:279`) | INVARIANT in `submission_answers.cfg` |
| `BannedGetNothing` (Submission) | The ban is read at the door (`submission.go:220`), not after the wait for the team lock. | `db/models.go:98` | PROPERTY in `submission_answers.cfg` with `Bannable <- JustA` |
| `SuspensionsAreStored` (GameState) | Two suspensions at a time: the older list may be written last (`state.go:608`). | `README.md:342` | INVARIANT in `state_pause_lost.cfg` with `Profiles = {p1, p2}` |
| `TeamsStayInFile` (GameState) | The list of teams is taken before the lock of the file (`admin_api.go:379`): the older one may be written last, and an edit that was in the file is gone from it. | `config.go:112` | PROPERTY in `state_pause_lost.cfg` with `Teams = {a, b}` |
| `AnswersRendered` (ApiCache) | An invalidation between `isValid` and `serve` makes an empty answer (`scoreboard.go:92`). | `scoreboard.go:23` | INVARIANT in `cache_current.cfg` |
| `AnswersOfTheRound` (ApiCache) | A request that read the round before the next one was published, and begins to render after the invalidation (`scoreboard.go:304`), stores the rows of the old round; another that found the cache valid for the new round may send them (`scoreboard.go:92`). | "one rendered JSON response per round" (`scoreboard.go:23`) | INVARIANT in `cache_current.cfg` |
| `FilteredHavePosts` (FlagIds) | A request that took the complete cache before a post stores its filtered answer after the invalidation (`flag_ids.go:399`). | `flag_ids.go:116` | INVARIANT in `flagids_posts.cfg` |
| `OnlyValidFlags` (FlagIds) | A request reads the round when it comes in (`flag_ids.go:286`), and may rebuild the cache for that round (`flag_ids.go:146`) after the next one was exposed and the cache invalidated: until the next post everybody gets ids of flags that have expired, and not those of the new round. | "They are only given for flags that are still valid." (`frontend/src/pages/RulesContent.tsx:548`) | INVARIANT in `flagids_posts.cfg` with `Filters <- Unfiltered` |
| `BoxNotLost` (TeamBoxes) | A node that is stopped between the deletion of a box and the end of its rebuild starts without that box, or with one that is not configured (`customize-vm.py:297` starts what there is); so does a reset whose rebuild fails; and so does a node whose first build ends while a terminal resets one of its finished boxes, since the container exits then and kills the reset (`run.py:1967` does not look at the node). Of two resets that overlap one may report success for a box the other left unconfigured. A box that does not come up at a start stays down without a word (`customize-vm.py:301`). Only another reset repairs it. | `README.md:348` "gets it back" | INVARIANT in `boxes_resets.cfg` |
| `ClosedUntilUnlocked` (NetworkControl) | A script deletes the old rules before it adds the new one (`ctfroute.sh:9`): between the two calls the network is open. | `README.md:67` | INVARIANT in `network_states.cfg` |

The pages keep some promises only in part; the properties of section 4 leave
these cases out, as their comments say:

- **Editor.** `pcap` and `pcap_max_size` are read and edited but never exported
  (`lib/config.ts:295`), although a test is called "round trips through JSON"
  (`test/logic.test.ts:27`). A node with the role `router`, which only a file
  written elsewhere brings in, is given tunnels in the preview alone
  (`hasRole`), and the router the control node always runs is not shown;
  `topology.ts:4` says "exactly". A vm or vpn node without ssh gets no warning,
  and is never deployed. A file that says more than the editor can hold is changed
  silently by an import and an export: `local` and `wireguard_port`
  (`lib/config.ts:200`), `checkers_dir`, a control role at another node than the
  first. `ReexportDeploysSame` is about the other files (`EditorCanHold`). The
  weight field takes 1.5, which the preview rounds up to two slots
  (`lib/topology.ts:57`) and `run.py:670` multiplies a list by: the deployment
  ends with a TypeError. Weights are whole numbers in the model. A blank
  exposed port is exported, and becomes null only when the page is loaded again.
  Two teams may be typed the same id without a warning, and pins keep the ids
  of teams that were removed.
- **Round counter.** "The game network is locked" (`RoundCounter.tsx:85`) is
  early by the rest of the round in which the game ended (`LastRoundLasts`).
  After a restart that skips rounds the counter stays at zero until the round
  that is shown has caught up. "soon..." (`RoundCounter.tsx:91`) is never
  written, since a duration of zero is "0 s" (`scripts/time.ts:38`).
- **Ranking.** A page whose first ranking request is under way when the round
  changes shows the ranking of the round before until the next one
  (`BoardKeepsUp` is about requests sent since). Only a change of the round
  makes an open page ask again: what is unfrozen after the end of the game is
  seen on a reload.
- **Game server.** Between the two deletes at boot (`checkers.go:377` and 380), or
  after a crash there, rows beyond the exposed round say that PUT_FLAG was OK for
  flags that are gone (`StatusMatchesFlags` is about exposed rounds then). An error
  in writing `config.json` is logged, and the organizer told that the change was
  saved (`admin_api.go:258`): `PromisesHold` does not promise the file then.
- **Boxes.** The first build of the control node, or of a single machine, is not
  started again by docker when it fails (`run.py:1568`), nor is any container
  after `docker stop`: `NodeComesUp` supposes that someone does it.
- **Control room.** The teams and services have no interval (`admin.ts:291`):
  what others change there is seen after a call of one's own or when the window
  gets the focus; `PanelCatchesUp` is about the overview. Saving the settings sends every field as of the moment the
  panel was opened, and leaving the ban reason of a team sends the one that was
  drawn: what another organizer changed meanwhile is set back. An emptied field
  is sent as 0, ignored by the server, and reported as saved. An overview that
  fails three times takes the panels away, with what was typed in them.

## 8. What is not modelled

- Text, rendering, logging, HTTP details and authentication; the rules page,
  charts and listings of the frontends, the credentials server and its pages
  (they keep no state but a token), the example services, the simulation.
- Of the editor: names, logos and tokens of teams, base64 and compression of a
  configuration, the conversion of times.
- The registry of workers and nodes beyond what the models need (capacity
  figures, last contact), the `check_jobs` table, announcements, the audit log,
  `/flagData` (one row written and read by key).
- A truncated `config.json` (`config.go:143` writes in place): the file is one
  value here, written at once or not at all.
- Failing database statements, but for the transaction of a capture, renders
  and refused patches; failing or timed-out router scripts.
- VPN peers on the routers, the submission log, traffic accounting, packet
  capture, the rest of `run.py` and `confgen.py`: see the plan.

## 9. Plan

The order of modelling has been: job queue and round loop (the game itself),
submission (the score), game state, caches and flag ids (what players see),
network control, the boxes of the teams, and the pages: editor, ranking, round
counter, control room. What is left, in this order:

1. **NetworkControl**: the VPN peers of suspended profiles in the same reconcile
   loop.
2. **Deployment** (`run.py` buildvms, deploy info): when the boxes are built
   anew. A failed first build exits with 0 (the EXIT trap of `start.sh`) and is
   recorded as built; the volume cannot be removed while an exited container
   refers to it; an interruption between the build and its record.
3. **SubmissionLog**: bounded queue, batches, a crash with a batch in memory.
   Property: an attempt is logged at most once and lost only when the queue is
   full, an insert fails or the process dies; proof of the same.
4. **TrafficAccounting**: counters that reset, differences, pushes that fail.
   Property: what is stored never exceeds what flowed, which from reading the code
   does not hold: a reading that fails leaves `previous` empty (`read_counters`,
   `wireguard_peers`), and the next one reports the whole counters again.
5. The addresses of `confgen.py`, and the selection and merging of packet
   captures, as operators.
6. **Game**: `Rounds`, `NetworkControl` and `GameState` composed over one
   database, for what crosses them: a pause that is lost on a reload, the
   network state at boot.
7. Proofs: that the shares of the round robin are those of the weights; that bans,
   like states, are only those somebody asked for; and `Rounds` as a user of
   `CheckJobs`, by a module that has both.

Runs are kept few: a new module gets one, and questions of the same instance
share it.
