# TLA+ models of lithos

lithos is a process supervisor for containers. This directory holds:
- TLA+ models of its supervision loop, its startup reconciliation, the argv contract it uses to recover its children, its variable substitution, its configuration checker (with the image-path and port checks it applies to a child) and the text output of lithos_ps;
- the TLC configurations that check them;
- `PROJECT.json`. It maps each definition to the source lines it models and lists the runs, mutants, findings and hazards.

## The system and how its parts interact

- **Monitor** (`src/src/monitor.rs`) is the single-threaded supervision loop shared by `lithos_tree` and `lithos_cmd`. Its state:
  - `processes`: name → Process, holding the executor, `current_pid` and `start_time`.
  - `start_queue`: a priority queue of names, keyed by the negated restart time in whole seconds.
  - `pids`: pid → name.
  - `allow_reboot`.

  `run()` works as follows:
  - It starts every due entry (`_start_processes`).
  - It then waits for a signal until the next deadline.
  - On `Child` it requeues the name `restart_timeout` after its last start.
  - On `Terminate` it forwards SIGTERM to every `current_pid` and enters a shut-down loop. That loop waits until every pid in `left` has been reaped, then returns `Killed`.
  - On `Reboot` it returns `Reboot`, if that is allowed.
- **lithos_tree** (`src/src/bin/lithos_tree.rs`) is pid 1 of the supervision tree. Each time it starts, and again after an in-place re-exec, it runs a reconciliation pass:
  - It reads `<group>.yaml` from the config dir into the children map.
  - It scans `/proc` for its own children (`_is_child`). It recovers each child's identity from its argv (`_read_args`, `_get_name`). That argv was written by `Child::command` when the child was spawned.
  - It adopts live children:
    - A child of a known group becomes a `Child`. It is sent SIGTERM if its serialized config differs from the current one.
    - A child of an unknown group becomes an `UnidentifiedChild` and is sent SIGTERM.
  - It sends SIGTERM to processes it cannot identify, such as zombies.
  - It removes the state dirs of names the Monitor does not know yet (dangling dirs).
  - It schedules every wanted instance that `mon.has()` does not know.
  - It allows reboot and runs the Monitor:
    - On `Reboot` it re-execs itself, keeping the same pid and the same children.
    - On `Killed` it runs `global_cleanup`, which removes the state dir.
- **lithos_cmd** (`src/src/bin/lithos_cmd.rs`) runs one command under a Monitor. The command is added as `<name>.cmd` with `restart_timeout` 0.
- **Variable substitution.** `replace_vars` (`src/src/container_config.rs`) expands `@{name}` in container config strings. It calls a replacer closure:
  - `ContainerConfig::instantiate` passes one that looks the name up;
  - `lithos_check`'s `validate_substitutions` passes one that reports undeclared names.
- **lithos_check** (`src/src/bin/lithos_check.rs`) walks the master config, every sandbox, its children file and every child and instance. Failed checks are reported with `err!`, which sets the exit status, or with `warn!`, which does not.
- **lithos_ps** (`src/src/bin/lithos_ps/ascii.rs`) prints the process tree with `TreeNode::print`, a recursion that draws `├─`/`└─` connectors under `│   ` or blank indents, and tables with `render_table`, which pops one cell per column per line from reversed columns.
- **Environment.** The `signal` and `container` modules are not in this repository. The models treat them as the environment:
  - children exit at any time;
  - an exited child stays a zombie until it is reaped and reported;
  - pids are reused;
  - a spawn may fail.

## Modules

| module | models | state | actions |
|---|---|---|---|
| `Supervision` | the abstract contract of a supervisor | `inst` (name → up/down), `mode` (run, stop, done, reboot) | `Start`, `Exit`, `Stop`, `Finish`, `Reboot` |
| `Monitor` | `Monitor` of `monitor.rs` and its environment | `procs` (processes), `queue` (start_queue, a bag), `pids`, `left`, `phase` (the point of `run()`); environment `os` (per-pid status, name, config, SIGTERM received), `tick`, `nterm` | `Timeout`, `SpawnOk`, `SpawnFail`, `StartDone`, `Terminate`, `ChildEvent`, `RebootReq`, `ShutdownTerminate`, `ShutdownChild`; environment `ChildExit`, `Tick`. `Refinement` maps it onto `Supervision` |
| `LithosTree` | reconciliation, state dirs and re-exec of `lithos_tree.rs` (EXTENDS Monitor) | `desired` (the children map), `reboots`, `dirs` (state dirs on disk) | `Reconcile` (scan, adopt, remove dangling dirs, schedule), `Reexec`, `MakeStateDir` (`Child::_prepare`), `GlobalCleanup`, Monitor's `RebootReq` bounded by `MaxReboots`, plus Monitor's other actions |
| `LithosCmd` | `lithos_cmd.rs` (EXTENDS Monitor) | Monitor's state | `CmdInit` (the single `add(name.cmd, 0 ms)`), then Monitor's actions |
| `Identity` | the argv round trip: instance naming, `Child::command`, the `/proc` cmdline split, `_read_args`, `_get_name` | `argv`, `spawned`, `recovered`, `pc` | `Spawn` (old image), `Foreign` (a child `Child::command` did not build), `Recover` (new image) |
| `ReplaceVars` | `replace_vars` with both replacer closures | `input`, `s` (rest to scan), `result`, `calls`, `errs`, `pc` | `Substitute`, `Unclosed`, `NoMoreVars`: one iteration of the while loop each |
| `LithosCheck` | `check()` and `main()` of `lithos_check.rs` | the files on disk (chosen in `Init`), `alter` (alter_config), `todo`, `cur`, `child`, `inst`, `status` (EXIT_STATUS), `pc` | `CheckMaster`, `SandboxUnparsed`, `SandboxParsed`, `SkipChild`, `CheckChild`, `InstantiateFail`, `CheckInstance`, `InstancesDone`, `Finish` |
| `LithosPs` | `TreeNode::print`, `_print_children` and `render_table` of `ascii.rs` | `tree` (node depths in pre-order), `stack` (the recursion's frames: node, next child, indent), `out` (lines written), `cols`, `ncols`, `nrows`, `cell`, `line`, `pc` | `PrintHead`, `WriteMiddle` (the loop over all children but the last), `WriteLast`, `ChildrenDone` (return), `WriteFails` (a `try!` that returns the error); `BuildCols`, `PrintCell`, `EndLine`, `TableReturn` |
| `SandboxConfig` | `Range::deserialize` and `check_path` of `sandbox_config.rs`, with the library conversions they call (`from_str` for unsigned integers, `Path::components`) and where `image_dir.join(image)` leads | operators only | |
| `ContainerPorts` | the `tcp_ports` part of `ContainerConfig::instantiate` (u16 parse, collection into a `HashMap<u16, _>` in any iteration order) and lithos_check's port loop | operators only | |
| `ChildValues` | the values of one child in `check()` of lithos_check: image check and join, container instantiate, port check, and the instantiate that starts the container | `image`, `levels`, `opened`, `ports`, `bridged`, `allow`, `icfg`, `running`, `status`, `pc` | `CheckImage`, `Instantiate`, `CheckPorts`, `StartChild` |
| `MC*` | TLC instantiations: name sets, alphabets, foreign argvs, symmetry sets | | |

### How the code is abstracted

- **Time.** Time is relative. `tick` is the sub-second part of now, in units of 1/TPS s.
  - A queue entry holds `deadline - now` in ticks, clamped at `Overdue` (-1, "already due").
  - A process's `age` is the time since its `start_time`, capped at `AgeCap`.
  - `Deadline(age, timeout)` computes `((start + timeout).sec) - now`. It keeps the truncation to whole seconds that `Timespec.sec` performs, and `tick` supplies the sub-second part of now.
  - `Tick` advances time by one tick. It cannot fire while `_start_processes` runs, because that loop compares against a single snapshot of the time.
- **One wait iteration per step.** Each iteration of the wait loop is one step, and each spawn inside `_start_processes` is one step. A spawn that keeps failing therefore shows up as a loop that never returns.
- **Reconciliation is one atomic step.** It happens before the Monitor's first wait, so no child is reaped while it runs. A child that exits during the scan is a zombie, which is unidentified. Within the step the code's order is kept: adoption, then dangling-dir removal against the names known at that point, then scheduling.
- **Data.** In Monitor and LithosTree:
  - names are model values, or `<<group, index>>` pairs in LithosTree;
  - a serialized config is a model value from `Configs`.

  Where a property is about the text, the text is a sequence of characters:
  - in `Identity`, an instance name is a sequence over `{w, -, ., +}`, and the index is a digit character;
  - in `ReplaceVars`, a template is a sequence over `{@, {, }, space, x}`.
- **argv.** `/proc/<pid>/cmdline` is the arguments, each followed by NUL. `SplitCmdline` does what `splitn(7, '\0')` does to it: at most 7 cuts, with the rest in the last piece. No field can contain NUL, because file names and JSON text cannot.
- **lithos_check.** What a child's container, ids, variables and ports hold is reduced to which of the checks of `check()` it fails, with at most one failing check per child. The control of `check()` is kept:
  - which check ends the child or the instance with `continue`;
  - which check applies only to a bridged sandbox;
  - the per-instance loop;
  - where `alter_config` is taken;
  - `err!` versus `warn!`.

## Runs

| run | cfg | expect | what it shows |
|---|---|---|---|
| monitor_restart | MCMonitorLive.cfg | pass | Covers crashes, failed spawns, pid reuse, reboots and up to 2 terminate signals. The queue never holds a name twice, no instance runs twice, and `Killed` means no child is left. No instance is restarted sooner than `restart_timeout` - 1 s after its previous start (`RestartNotBeforeTruncated`; the whole-second truncation of the deadline costs up to a second, never more). Under fair reaping, and with spawns that eventually succeed, an instance that exits is up again. Every step of the Monitor is a step of `Supervision` (`Refinement`). |
| tree_safety | MCLithosTree.cfg | pass | Across 2 re-execs with changing configs, no instance is duplicated (`AtMostOneLivePerName`), and an `UnidentifiedChild` is never queued, so its `unreachable!()` command is never called (`UnidentNeverQueued`). Drift signalling and the keeping of adopted children's dirs are single steps of `Reconcile`, so they are not stated as properties. The unsafe order of dir cleanup is shown by `MCLithosTreeDirs.cfg`. |
| replace_vars_expand | MCReplaceVars.cfg | pass | For every template of up to 6 characters, `replace_vars` does three things, checked against the RECURSIVE reference `RefExpand`. It keeps the literal text. It calls the replacer once per closed placeholder, in order. It leaves an unclosed `@{` as text. |
| check_accepts_valid | MCLithosCheck.cfg | pass | Every combination of master file, two sandboxes, their children files, `--sandbox` and `--alternate-config` is covered. `--sandbox` may name a sandbox that has no file. lithos_check exits 0 only if an `--alternate-config` came with the name of an existing sandbox, and every check that applies to a child in a parsed children file passes. Unparsed children files are exempt; `MCLithosCheckAlt.cfg` shows that case. |
| monitor_shutdown_hang | MCMonitorShutdown.cfg | violation | The shut-down loop waits forever for an already-reaped pid. |
| tree_out_of_range | MCLithosTreeRange.cfg | violation | After the instance count is lowered and the tree re-execs, a surplus child is adopted and supervised. |
| tree_adopted_not_restarted | MCLithosTreeRestart.cfg | violation | An adopted child that exits is never restarted, because its pid is not in `pids`. |
| cmd_spawn_spin | MCLithosCmdSpin.cfg | violation | With timeout 0, a failing spawn makes `_start_processes` spin forever. |
| identity_dotted_stems | MCIdentityDots.cfg | violation | A child of a group whose file stem has a character outside `[\w-]`, such as `web.v2.yaml`, is not recognised after a re-exec. It is sent SIGTERM and its instance is started again. |
| cmd_command_restarted | MCLithosCmdRestart.cfg | violation | `Target::finish` says "Do not restart", but the Monitor never calls it and re-queues the command when it exits, so lithos_cmd starts it again. |
| check_child_values | MCChildValues.cfg | pass | For every image path of up to 5 characters over `a`, `.` and `/`, at 1 or 2 levels, an image `check_path` accepts opens a directory exactly `image_dir_levels` below `image_dir` (`CheckPathConfined`): `..`, absolute images, `./` and doubled slashes are all handled. |
| ps_render | MCLithosPs.cfg | pass | For every tree of up to 6 nodes, `print` writes each node once in pre-order with the connectors of a reference drawing computed from the tree's shape (`TreeDrawn`); a write that fails leaves a proper prefix of it. `render_table` prints the titles and then item i of every column on line i + 1 (`TableTransposed`). |

Each violation is recorded as a finding in `PROJECT.json`. Each property of a passing run has a mutant there: a plausible bug in the mapped code that the run catches.

### Further configurations

These configurations are kept beside the runs. Their results were checked, but they are not listed as runs:

| cfg | module | result |
|---|---|---|
| `MCMonitor.cfg` | MCMonitor | The safety invariants of `monitor_restart` hold without fairness (`Spec`). |
| `MCMonitorLiveTmp.cfg` | MCMonitor | The configuration of `monitor_restart` plus `StartLoopTerminates`; it holds, but takes about 3.5 minutes. |
| `MCLithosCheckAlt.cfg` | MCLithosCheck | `AlternateUnparsedReported` is violated: an `--alternate-config` that does not parse only triggers `warn!` (lithos_check.rs:259), and lithos_check exits 0. |
| `MCReplaceVarsCheck.cfg` | MCReplaceVars | `DefinedVarsResolve` is violated: the replacer receives `@{x`, not `x` (container_config.rs:376). lithos_check therefore reports a declared variable as undefined, and `instantiate` fails in the same way. |
| `MCLithosCheckPorts.cfg` | MCChildValues | `PortCheckStable` is violated: the keys `80` (internal) and `080` (external) collapse into one entry of the `HashMap<u16, _>`, and which one survives depends on the per-process iteration order. On a bridged network with 80 not allowed, lithos_check can keep the internal one and pass, while the container is started with the external one. |
| `MCMonitorRefines.cfg` | MCMonitor | `Refinement` holds with reboots allowed (36k states). The run `monitor_restart` checks it under fairness, with reboots allowed there too. |
| `MCMonitorLoop.cfg` | MCMonitor | `StartLoopTerminates` holds with a 1 s timeout, even when every spawn fails. |
| `MCMonitorBackoff.cfg` | MCMonitor | `BackoffLowerBound` is violated: a restart comes 0.67 s after a start when the timeout is 1 s, because the deadline is truncated to whole seconds. `RestartNotBeforeTruncated` in `monitor_restart` is the bound that does hold. |
| `MCLithosTreeDirs.cfg` | MCLithosTree | `RegisteredDirsKept` is violated. The leftover state dir of an instance that is not running is deleted by the pass that schedules it, because cleanup runs before scheduling. Spec 4.4 step 6 orders it after registration. |
| `MCIdentity.cfg` | MCIdentity | `WordNamesRecovered` and `ForeignUnidentified` hold. A name whose stem is a `[\w-]` word survives the argv round trip. No argv that this lithos_tree did not build is identified, including a knot of another global config, an extra argument, and non-JSON config. |

### Bounds

- **Monitor runs:**
  - 2 names and 3 pids: a pid can be reused while a stale one is still recorded.
  - TPS = 3: a start can fall between whole seconds.
  - MaxTimeout = 1, RestartTimeout = 1.
  - MaxTerm = 2: a second SIGTERM can arrive during shutdown.
- **Tree runs:**
  - 1 group with up to 2 instances, and 2 configs: enough for drift and for a lowered instance count.
  - 3 pids.
  - TPS = 1: time granularity does not matter for reconciliation.
  - Up to 2 re-execs, so adoption is tested on top of an earlier adoption, and a state dir made before one re-exec meets the next pass.
- **Cmd runs:** 1 name, 2 pids, TPS = 3.
- **ReplaceVars:** every template of up to 6 characters over 5 symbols (19,531 templates). This allows two placeholders (`@{x}@{x}` needs 8, but `@{x}@{` and `@{@{x}` fit), an unclosed `@{`, spaces to trim, and `}` before `@{`.
- **Identity:** every stem of 1 to 3 characters over a word character, `-`, `.` and `+`; 2 instance indexes; 2 configs; 4 foreign argvs.
- **LithosCheck:**
  - 2 sandboxes, each parsed or not, with or without user/group ranges, bridged or not;
  - each children file unparsed, or one child with 0 or 1 instance and at most one failing check out of 13;
  - `--sandbox` absent, naming either sandbox, or naming no sandbox file;
  - `--alternate-config` absent or any children file.

  That is 5.0M initial states. One child per file is enough, because checks of different children do not interact: each one only sets EXIT_STATUS.
- **LithosPs:** every tree of 1 to 6 nodes (65 shapes): a node with three children, so a middle child between two others, and depth 5, so indents mix bars and blanks; a write may fail at every write. Tables of 1 or 2 columns of 0 to 2 items: the reversal and the column order both show.
- **ChildValues:** 364 image paths (up to 5 characters over `a`, `.`, `/`: `..`, `a/..`, `/a`, `./a`, `a//a`, `...` all fit), levels 1 and 2; tcp_ports over the keys `80`, `080` (the same port) and `80800` (past u16::MAX) with every external flag; bridged or not; allow_tcp_ports from the strings `80`, `81` and `80-81`. u32::MAX is beyond TLC's integers, so `U32Max` stands at 2^31 - 1; no string checked has more than 5 digits.
- **Symmetry.** Pids, configs and sandboxes are symmetric model values. Symmetry is used only in runs without liveness properties.

### Fairness

The Monitor loop is a single thread that always returns to its wait. This justifies weak fairness of:
- `Tick`;
- `Timeout`;
- the failing spawn;
- `StartDone`.

Together these are `LoopFairness`, which deliberately does not assume that a spawn ever succeeds.

`Fairness` adds the following:
- Strong fairness of each pid's `ChildEvent`. The kernel reports every SIGCHLD, but the event is enabled only while the loop waits.
- Weak fairness of `ShutdownChild`.
- Weak fairness of the exit of a child that has received SIGTERM. That is, children honour SIGTERM. This is an assumption about containers, and the spec names its absence as a robustness gap.
- Strong fairness of a successful spawn for each name.

`ReplaceVars`, `Identity`, `LithosCheck`, `ChildValues` and `LithosPs` are sequential programs that return. Their runs check invariants only and say `CHECK_DEADLOCK FALSE`, because the final state, where the function or the process has returned, has no successor.

### Refinement

`Supervision` states what a supervisor promises:
- an instance is down or up;
- a down instance may be started only while the supervisor runs;
- an up instance may exit at any time;
- after a terminate signal nothing is started;
- the supervisor ends `Killed` only when every instance is down;
- a reboot leaves the children alone.

`Monitor!Abs` instantiates it with two mappings:
- `inst[n]` is up when a live process carries name `n`;
- `mode` is derived from `phase`: running and starting map to run, shutdown to stop, killed to done, and reboot to reboot.

`Refinement == Abs!AbsSpec` is checked as a PROPERTY. Its mutant, a shut-down loop that returns after the first child exit, is caught.

## Not modelled

- `global_init`: mkdir and mount of the mount dir. It creates directories and mounts that no property is about. Its failure aborts before the loop starts.
- `prepare`/`finish` of the executors. `monitor.rs` in this revision never calls them. `Child::_prepare`'s mkdir is modelled as `MakeStateDir`, because it is what creates the state dirs that reconciliation removes.
- In `lithos_check`:
  - `check_master_config`'s hostname and IP lookups, `check_binaries` and the `--check-container` mode;
  - what the individual checks compute: uid/gid ranges, `check_path`, `Variable::validate`, the fd numbering of `validate_activation`. These are reduced to the checks a child fails.
- `Range::len` and `Range::shift` in `sandbox_config.rs`, and `utils::in_range`: the first two have no caller in this repository, the last is not part of it (`InRange` states the inclusive reading). A reversed range such as `5-3` is accepted by `Range::deserialize`; no run checks what it means.
- `Variable::validate`: its u16 parse is the one `ContainerPorts` models; its name and choice checks are single membership tests that no property of lithos tells apart.
- The configuration schemas (validators, serde): declarative data.
- In `lithos_ps`: the `Printer` colour helpers and the cell formatting (units, padding, number format) of `render_table`, which only format text; `render_table` with columns of unequal length or with none, which lithos_ps never passes.

## Further work

1. `validate_activation`'s fd numbering (3 + k for the k-th systemd-activated variable) against `tcp_ports` fds: two `tcp_ports` entries sharing an fd are not reported by the code.
2. Composition of `Identity` into `LithosTree`: names whose stem fails the regex, so that the duplicate instance after a re-exec appears in the tree's own state.
3. The 12 runs are each a distinct question; the configurations kept beside them (above) would be runs of their own given more slots.
