# Formal models of NeuronOS

This directory holds TLA+ models of the NeuronOS sources under `src/`. It also
holds the TLC configurations that check them on small instances and the TLAPS
proofs of their main invariants. `PROJECT.json` lists each component, run,
mutant, finding, hazard and theorem. It maps every modelling definition to the
source lines it translates.

## 1. The system

NeuronOS is a local agent runtime built on a ternary-weight (BitNet I2_S)
inference engine. The parts the repository contains, and how they interact:

| # | Part | Source | State and operations |
|---|------|--------|----------------------|
| C1 | Tool registry | `src/neuronos/src/agent/neuronos_tool_registry.c` | A fixed array of at most 64 descriptors. Operations: `register`, `register_defaults(caps)`, `execute(name, args)`, the four built-in executors (`shell`, `read_file`, `write_file`, `calculate`), `grammar_names` and `prompt_description` (text built into a heap buffer). |
| C2 | Hardware detection | `src/unnamed/part_001` 43-223 | Reads /proc or sysctl. Computes the model RAM budget, available - 500 MB with a floor of 256 MB. |
| C3 | Model scanner and auto-selection | `src/unnamed/part_001` 225-413 | A recursive `readdir` walk collects at most 128 `*.gguf` files. Each file is scored against the budget, the list is `qsort`ed by score, and `select_best` takes the first entry that fits. |
| C4 | Context stubs | `src/unnamed/part_001` 415-441 | `token_count` returns 0 and `capacity` returns 2048. They stand in for the agent's context accounting. |
| C5 | HAL scalar kernels | `src/unnamed/part_001` 442-693 | I2_S 2-bit packing, `quantize_i2`, `vec_dot_i2_i8`, `gemv` and `gemm`, plus the backend descriptor. |
| C6 | CLI | `src/unnamed/part_000` | `main` dispatches `hwinfo`, `scan`, `auto` (auto-select, then `generate` or `agent`) and the legacy commands on a model path (`generate`, `agent`, `info`). A command acquires the model scan, the engine, the model, a tool registry and an agent as it needs them, and releases them on every path. |
| C7 | Installer | `src/unnamed/part_002`, `src/scripts/install.sh` | Detects hardware, walks a catalogue to choose a model that fits (with an HTTP HEAD probe and a fallback), downloads it and installs the binary. |
| C8 | Packaging | `src/scripts/package-release.sh`, `src/scripts/neuronos-cli.rb` | Builds the release archives and the Homebrew formula. |
| -- | Agent loop, compaction, memory, engine | not under `src/` | Described by the spec only. The CLI reaches them through their API. |

How the parts interact:

- The CLI calls C2 for the budget and C3 to choose a model, then hands the model to the engine.
- The agent command builds a C1 registry with `register_defaults(FILESYSTEM)` and runs the agent loop.
- The agent loop renders C1's grammar and prompt texts into each prompt, and executes the tool the model names.
- The engine runs the C5 kernels.

### Hard behaviours the code is exposed to

NeuronOS is single-threaded: no code under `src/` runs concurrently. The hard
behaviours come from sequences of calls, from the environment, and from bounds:

- Registration order. A host tool may take a built-in's name before `register_defaults` runs, and the array may fill up.
- Text buffers sized by a per-tool estimate. Once a text outgrows its estimate, the `cap - len` of the `snprintf` chain wraps around.
- Environment outcomes. `popen` or `fopen` may fail, a command may exit non-zero, and `bc` may be missing or may print an error.
- Model-chosen argument strings reach `sh` (shell and calculate).
- The file-system tree. Links to directories, dangling links, `readdir` order, the 128-entry cap shared by every recursion level, and the 1024-byte path limit all shape the walk.
- The unstable `qsort` and score ties.
- Integer and float arithmetic in the scorer and in the kernels (64-bit products, int32 accumulation, tail blocks).
- The installer's disk outlives it. A run can be killed at any step (Ctrl-C, a closed terminal, a reboot) and the next run starts from what the disk holds. Every network answer may fail, and under `set -euo pipefail` any failing command ends the script.

The hazards are listed in `PROJECT.json`, each at the line where it bites,
with the properties that cover it.

## 2. Modules

### ToolRegistry (C1)

`ToolRegistry.tla` models the registry. It is parameterised by `MaxTools`
(NEURONOS_MAX_TOOLS), `Granted` (the caps passed to `register_defaults`),
`UserDescs` (descriptors a host may register), `Names` and `CallNames`
(the tool names in play and those a caller may ask for), and `Null` (a NULL
pointer).

State:

- `tools`: `reg->tools[0..count-1]`.
- `result`: the last `neuronos_tool_result_t`, abstracted to who produced it, success, and the kind of output and error.
- `called`: the `tool_name` of the last `neuronos_tool_execute`, as its caller holds it.
- `text`: what the last rendering did with its buffer.
- `spawned`: the executors that ran a model-chosen command string.

One action per operation:

- `Register(d)` calls `Registered`, which is `neuronos_tool_register`: the NULL checks, the capacity check and the duplicate-name loop, then an append.
- `RegisterDefaults` chains four calls of `Registered`, as the C function does.
- `Execute(n, a)` performs the NULL-name check, finds the first match with `FindTool`, and runs that tool's executor. The executors are `ShellRun`, `FileRun`, `CalcRun` and `UserRun`, reached through `Outcomes`. `Outcomes` keeps each executor's argument checks: a missing key, or a value without an opening quote, fails before any side effect. The environment's answers are the nondeterministic choices.
- `GrammarNames` and `PromptDescription` cover the empty registry, a malloc failure, and the `snprintf(buf + len, cap - len, ...)` chain. The chain is modelled by `WriteStatus` over the lengths of the pieces printed. A text is its length: each descriptor carries the lengths of its name, description and schema, and the built-ins carry the lengths of their literals in the source.

Argument strings are one of five shapes (`ArgShapes`): NULL, no key, key without
a value, a value without a single quote, and a value containing a single quote.

### ToolMap: what the registry promises

`ToolMap.tla` is the abstract registry, without the array. Its state is `reg`,
a finite map from names to executors with at most `MaxTools` names, and
`answer`, the name of the last call and who answered it (an executor, or
`"registry"` for the registry's own error). `Register` adds names not yet in
the map and keeps the executors of those already there (one step may add
several, as `register_defaults` does); `Call(n)` answers with `reg[n]` when `n`
is registered and with the registry otherwise. A rejected registration and the
text renderers are stutters.

`ToolRegistry` implements it under the mapping

    RegMap == [n \in names of tools |-> exec of the tool with that name]
    answer <- [name |-> called, by |-> result.by]

and the run `registry` checks `ImplementsToolMap == TM!Spec`. The mapping is a
function only because names are unique, and a call is answered by the right
executor only because `FindTool` looks at every registered tool: a search that
stops one short answers a call of the last tool with "Tool not found", which
is no step of `ToolMap`.

### ModelRegistry (C2 budget, C3)

`ModelRegistry.tla` models the scanner and auto-selection. It is parameterised
by:

- `FS`, the directory tree: each directory maps to the set of entries `readdir` may return, in any order.
- `Root`, the directory scanned.
- `RamAvail`, the possible `ram_available_mb` values.
- `MaxScan` (MAX_SCAN_MODELS).
- `MaxDepth`, the nesting at which `dir_path` fills the 1024-byte `full_path` (1022 or 1023 bytes).
- `MaxOpen`, the directories the process can hold open; past it `opendir` fails (EMFILE).

State:

- `budget`.
- `stack`, the open directories of the recursion: each frame holds the entries not read yet.
- `entries`.
- `phase`: scan, sorted or done.
- `selected`.

Actions:

- `ReadEntry` is one iteration of the `readdir` loop. It skips dot-entries and entries that `stat` rejects, recurses into a directory (or fails to open it), or appends a `*.gguf` file scored by `ScaledScore`. In a directory at depth `MaxDepth`, `snprintf` truncates every `full_path` to `dir_path` itself (lines 328-329), so `stat` reports a directory whatever the entry is, and the walk opens the same directory again, until `opendir` fails. Below that depth a truncated name may denote another file; that is not modelled.
- `CloseDir` ends the loop, at the end of the directory or at the cap.
- `Sort` is `qsort` with `compare_models_desc`. It takes any permutation the comparator accepts, since `qsort` is not stable.
- `SelectBest` is `neuronos_model_select_best`.

No fairness is assumed and no liveness is checked. Once a path fills
`full_path`, the walk re-opens the same directory for every entry, at every
level, and ends only when `opendir` fails at the process's open-file limit:
after a number of steps exponential in the entries per directory. Termination
would hold by that bound and say nothing about the hang, so it is not a
property (see the disagreements in section 4).

Sizes are in MB. `ParamsB(size) = size * 8192 \div 2734375` is exactly
`size * 2^20 / 35 * 100 / 10^9`, computed in 32-bit range. The float score is
kept exactly as `score * budget`. This multiplies every score by the same
positive budget, so comparisons and signs are those of the real numbers. The
code's float rounding is not modelled.

### HalScalar (C5)

`HalScalar.tla` models the portable scalar backend. The kernels are pure
functions, so they are operators. The state only records how the engine calls
them: a weight tensor `w` is quantized once into `dst`, then multiplied with
one activation vector after another (`act`, `out`, `op`).

- `QuantizeI2` is `scalar_quantize_i2`. It is the single scale `MaxAbs` (step 1), the codes `Code` (step 2: 1 below 1e-6, else 2 or 0 by sign), and `PackedBytes` (step 3: the `memset` of n/4 bytes and the loop over the n/128 whole blocks, `out[blk*32+pos] |= code << (6-2*group)`). The four codes of a byte are each below 4 and land in its disjoint bit pairs 7-6, 5-4, 3-2 and 1-0 of a zeroed byte. So the model adds `code * 2^(6-2*group)` rather than or-ing it in: the result is the same byte, and the model stays in arithmetic the prover handles. The `Quantize` action also has the `malloc` failure, which leaves `dst` untouched.
- `RowSum` is the block loop that vec_dot and gemv share. It decodes `(byte >> (6-2*group)) & 3` as `(byte \div 2^(6-2*group)) % 4` and accumulates raw code times activation. `VecDotI2I8` starts row r at `r*(bx/4)`, `GemvI2I8` at `r*nb*32`, and `GemmI2I8` is gemv with `nc` ignored.

The block is scaled down. A block of `QK = 4*G` weights fills G bytes (G = 32
in the code), so every slot and every group of a block is exercised with G = 2.
Weights are integers in units of 1e-6/`Eps`.

The reference is written from the spec's encoding, independently of the
code's loops. `SpecRaw(w)` is the ternary value plus one, `SpecDecode` is the
slot the layout assigns weight i, and `RefDot` is the sum of raw code times
activation over a row (spec 4.1 accumulates `raw * act` in int32, as the
kernels do). Sums stay below 2*128*n, far inside int32, so no wrap-around is
modelled.

### Cli (C6)

`Cli.tla` models `main` of `part_000`. `argv` is a sequence of tokens chosen
in `Init` from the constant `Argvs`. The operators that read it translate the
code:

- `ValuePos` is the option scan, in which an option with a value consumes the next argument.
- `Prompt` is the prompt search: the first argument from `argv[3]` on that does not start with `-`.
- `Command`, `SubCommand` and `LegacyCommand` are the dispatch.

`pc` is the point main has reached, and `held` is the set of handles acquired
and not released: the scan list, the engine, the model, the registry and the
agent. There is one action per call that may fail: `AutoScan`, `AutoSelect`,
`AutoInit`, `AutoLoad`, `LegacyInit`, `LegacyLoad`, `AgentStart`,
`AgentCreate` and `AgentRun`. Each action has the code's failure branch,
which frees what that branch frees and returns 1, and its success branch,
which acquires the handle. `Generate` is `cmd_generate` as one step.
`Release` performs the release calls before the final return, one per step,
in `TeardownOrder`.

`failure` records what went wrong, in the spec's error taxonomy, so that the
exit code `rc` can be compared with it. The engine, scanner and agent are
not under `src/`. Their calls are nondeterministic choices over the results
the code tests for, and `Needs` (the model uses the engine, the agent uses
the model and the registry) is taken from the spec's ownership rules.

The grammar loading of `cmd_generate` keeps its integers. `size` is the
`long` from `ftell`. The allocation is `(size_t)size + 1`, taken modulo
`2^SizeBits`. The `fread` stops at the end of the file, and `grammar[size]` is
written after it. `GrammarOverflows` is the set of possible answers to
"did a write fall outside the buffer", for both results of `malloc`.

### Installer (C7)

`Installer.tla` models the one-command installer of `part_002`. The state is
split in two:

- What persists across runs is the disk: `files`, one entry per catalogue file under `models/` (absent, partial or complete), `binary` (the `bin` directory, the same three states) and `rcLines`, the PATH lines appended to the rc file.
- The running script is `pc`, the step of `main` it is at, plus the values it computed: `budget`, `idx` (the catalogue entry `select_model` is at), `selected` (`SELECTED_FILE`) and `noModel` (`NEURONOS_NO_MODEL`). When a run ends with status 1, `exitLine` records the line it ended at.

`Start` begins a run, at most `MaxRuns` times. `Kill` stops the running script
between or inside steps; a download or a copy stays as far as it got. There is
one action per step of `main`:

- `Deps` is `check_deps` and `detect_platform`, and `Hardware` is the budget of `detect_hardware` (available - 500 MB, at least 512 MB).
- `SelectModel` takes one catalogue entry per step: it skips an entry the budget does not meet, probes one it meets (a HEAD answer or a timeout), and takes the fallback after the last entry.
- `GetLatestVersion` and `InstallBinary` list every way the step can end the script, by line. `GrepFails` is the rule that turns a grep without a match into an exit under `set -e` and `pipefail`.
- `DownloadModel` skips when any file is at the model path. Otherwise `curl -o` creates the file (partial), and `CurlModel` completes it or, on failure, removes it with `rm -f`.
- `CopyBinary`, `SetupConfig`, `SetupPath` (which appends the PATH line unless the rc file names the bin directory) and `RunWelcome` follow.

Network answers (`Answers`: a body with the field grep looks for, one without
it, or nothing) are chosen per call. `src/scripts/install.sh` is an earlier
single-model installer with the same `get_latest_version` (its lines 131 and
141), asset grep (180-182) and `download_model` (252). The findings below
apply to it at those lines; it is not modelled separately.

## 3. Runs

| Run | Config | Checks | Result |
|-----|--------|--------|--------|
| registry | `MC_ToolRegistry.cfg` | `TypeOK`, `NamesUnique`, `NoBufferOverrun`, `ImplementsToolMap` | pass, 394 states |
| calc_injection | `MC_ToolRegistry_inject.cfg` | `ArbitraryCommandNeedsShellCap` | violation: see Findings |
| prompt_overrun | `MC_ToolRegistry_bigschema.cfg` | `NoBufferOverrun` | violation: see Findings |
| scan | `MC_ModelRegistry.cfg` | `TypeOK`, `SelectionIsBest`, `ScoreMonotone` | pass, 2240852 states |
| hal | `MC_HalScalar.cfg` | `TypeOK`, `SignsPreserved`, `KernelMatchesReference` | pass, 7500 states |
| hal_gemm | `MC_HalScalar_gemm.cfg` | `KernelMatchesReference` | violation: see Findings |
| cli | `MC_Cli.cfg` | `TypeOK`, `ReleasedOnExit`, `ExitZeroIffSuccess`, `NoHeapOverflow`, `ReleaseOrder` | pass, 192 states |
| cli_grammar_pipe | `MC_Cli_pipe.cfg` | `NoHeapOverflow` | violation: see Findings |
| cli_prompt | `MC_Cli_prompt.cfg` | `PromptIsPositional` | violation: see Findings |
| installer | `MC_Installer.cfg` | `TypeOK`, `ReadyHasBinary`, `PathLineOnce`, `CompleteModelKept` | pass, 61323 states |
| installer_partial_model | `MC_Installer_partial.cfg` | `ReadyModelWhole` | violation: see Findings |
| installer_silent_exit | `MC_Installer_silent.cfg` | `FailuresReported` | violation: see Findings |

Bounds, and why they are enough:

- **registry.** `MaxTools = 3` with `Granted = {FILESYSTEM}`. The defaults fill the table with `read_file`, `write_file` and `calculate`, so a full table, a rejected registration and a host tool that pre-empts a built-in (`ClashDesc` named `calculate`) all occur. The host descriptors cover:
  - a NULL name and a NULL executor, which must be rejected;
  - a NULL description and a NULL schema, which take the other branches of the prompt line;
  - a 600-byte schema, the size of a typical MCP tool, which fits the 256-byte per-tool allowance of the buffer only together with the short built-ins.

  The names called include one that is never registered, and all five argument shapes are tried on every tool.
- **scan.** The tree has two directories. The first holds two `.gguf` files, one that does not fit either budget, a non-model file, a hidden entry and a subdirectory. The subdirectory holds a same-tier copy, a smaller same-tier model, an instruct model, a dangling link and a symbolic link back to the top directory, which `stat` follows, so the walk enters the top directory again. `MaxDepth = 4`, so the top directory, re-entered at depth 3, adds its models a second time, and at depth 4 every entry re-opens its own directory; `MaxOpen = 5` lets that happen once more before `opendir` fails. `MaxScan = 3` is below the four models, so the cap cuts the walk inside the recursion in some `readdir` orders and not in others. The two budgets are 5120 MB and 3000 MB, and the first model fits only the larger one. Every `readdir` order of both directories is explored.

- **hal.** G = 2 (8-weight blocks), two rows of 16 weights (two blocks per row), one activation column. The weight tensors are all-equal tensors and single spikes of -3, 1 or 3 against zeros, with `Eps = 2`. So every weight position is probed alone with each sign and with a value below the threshold. The activations are all-ones and single ones. The strides are the ones the engine passes (`bx = n`, ggml's `nb01` for a 2-bit row counted in elements). The violation run `hal_gemm` changes one constant: two activation columns.

- **cli.** The command lines cover every branch of the dispatch:
  - no argument, `hwinfo`, `scan`, and `auto` alone;
  - `auto generate` without a prompt;
  - `auto` and legacy `generate` with `--grammar` after the prompt;
  - `auto agent` and the legacy `agent`, with and without a task;
  - `auto chat`, the spec's command that the code does not know;
  - the model path alone, which means `info`.

  Each call is tried both failing and succeeding, so every failure branch of every path runs. The grammar files are a missing path, an empty file and a three-byte file. `SizeBits = 16` keeps the `size_t` wrap-around inside TLC's integers. A wrap needs only `ftell = -1`, so any width shows it. The violation runs add one item each: a pipe holding three bytes as the grammar file, and the command line `auto agent -s 5 "do it"`.
- **installer.** Three runs (`MaxRuns = 3`), so that a run can be killed, another can resume after it, and a third can find what both left. The memory sizes 400, 3700 and 8000 MB give budgets of 512 MB (the floor, since 400 - 500 is negative; below every catalogue entry, so the fallback), 3200 MB (the 3B entry, after the two larger ones are skipped) and 7500 MB (every entry). Every HEAD probe may time out, and every API answer may be a match, a body without the field, or nothing. The two violation runs use the same constants.

No run assumes fairness. The scan run sets `CHECK_DEADLOCK FALSE` because
the final `done` state has no successor.

Each property of a passing run is shown to distinguish the code from a plausible
bug: the mutants in `PROJECT.json` (a `>` for `>=` in the capacity test, the
duplicate loop dropped, the search stopping one short (caught by the
refinement), the prompt buffer sized
128 per tool, the scan cap dropped, the comparator reversed, the headroom sign
swapped, the packing over n bytes, a zero weight coded 2, the slots read in
reverse, the scan left unfreed when the model fails to load, the engine shut
down before the model, rc starting at 0 or uninitialised, malloc(size)
without room for the terminator, a `detect_hardware` without its 512 MB
floor, an `install_binary` that skips an existing `bin` directory, a
`download_model` without its `[ -f ]` check, a `setup_path` without its grep)
are each caught by TLC.

## 4. Findings

1. **calculate runs arbitrary commands without the SHELL capability**
   (`neuronos_tool_registry.c:417`). The expression is pasted between single
   quotes into `echo '...' | bc -l`. TLC's trace: `register_defaults` with
   FILESYSTEM only, then `execute("calculate", <expression with a quote>)`.
   The spec (section 9) asks for an in-process evaluator.
2. **prompt_description writes past its buffer** (`:151`, `:164`). A host tool
   with a 1500-byte schema makes `len > cap`. `cap - len` then wraps, and the
   final `"\n"` is written past the 768-byte heap buffer. The grammar text has
   the same pattern with 40 bytes per tool, reached by long host tool names.
3. **gemm computes only the first column** (`part_001:670`). It forwards to
   gemv, which ignores `nc`, so the outputs of the other columns are never
   written.
4. **A grammar file read from a pipe overflows the heap** (`part_000:85-90`).
   On a pipe `ftell` returns -1, so `malloc((size_t)-1 + 1)` is `malloc(0)`.
   The `fread` may then copy the pipe's bytes into it, and `grammar[-1]` is
   written before the buffer. The buffer is correct for regular files: the
   pass run checks empty and non-empty ones.
5. **An option's value is taken as the prompt** (`part_000:268`, `:351`). The
   option scan consumes `-s 5`, but the prompt search skips only arguments
   that start with `-`. So `auto agent -s 5 "task"` runs the task `"5"`, and
   `--grammar g.gbnf` before the prompt makes the file name the prompt.
   Putting the options after the prompt avoids it. The usage text does not
   say that the order matters.
6. **An interrupted model download is kept as the model** (`part_002:372`).
   `curl -o` creates the model file as soon as it starts. A run killed during
   the download leaves a partial file, and every later run says "Model
   already exists", reports Ready and runs the welcome demo on the truncated
   file. TLC's trace: run 1 is killed while curl writes the file, and run 2 goes
   through every step to `done`. `rm -f` runs only when curl itself fails.
   A fix is to download to a temporary name and `mv` it into place.
7. **The installer exits without saying why** (`part_002:268`, also `:262`
   and `:309-311`). Under `set -euo pipefail`, `VERSION=$(echo "$body" | grep
   -oP ... | head -1)` fails when grep finds nothing, and the script ends
   with status 1 at that line. When the GitHub API is rate-limited or
   unreachable, the body is empty, so line 268 ends the run and the `die` of
   line 272, which advises `NEURONOS_VERSION` or `GITHUB_TOKEN`, is never
   reached. The asset grep ends the run the same way before the `die` of
   line 316. TLC's trace: `GetLatestVersion` with no answer from either API
   call.

Eight disagreements no run keeps, for lack of runs (the check allows twelve)
and because each is narrower than the findings above. Each was seen with TLC,
three by changing one constant of a passing run:

- **calculate reports success for failures** (`neuronos_tool_registry.c:439`). bc's error text (via `2>&1`) or the placeholder `"0"` comes back with `success = true`. A property "a successful result carries the tool's output" fails on `ToolRegistry`.
- **The scan follows symbolic links into directories** (`part_001:332`). `stat` follows links, so a link to an ancestor is walked again until the depth limit, while the spec says no symlink is followed implicitly. The `scan` run's tree has such a link, and `SelectionIsBest` holds through it, but a property "no directory is opened twice" fails.
- **A path that fills full_path re-opens its own directory** (`part_001:328-337`). Once `dir_path` is 1022 or 1023 bytes long, `snprintf` truncates every `full_path` to the directory itself (or with a trailing `/`), `stat` reports a directory, and the walk opens it again, for every entry and at every level, until `opendir` fails at the open-file limit. With two entries per directory that is beyond any wait: `auto` and `scan` hang. Deep trees, or a symbolic link to an ancestor under a long name, reach that length. `ReadEntry` models it; the entry-table properties hold through it, and no termination property is kept.
- **Every CLI failure exits 1** (`part_000:309`, `:366`, `:117`, `:166`). The spec's CLI surface exits 2 for an engine failure and 3 for an agent whose step budget ran out. `ExitZeroIffSuccess` holds; a property with the spec's codes fails on a legacy command whose `neuronos_init` fails.
- **The installer's fallback ignores the budget** (`part_002:212`). When no entry is selected, BitNet-2B is taken whatever the budget, so a device with a 512 MB budget gets a model whose catalogue entry asks for 2048 MB, where the header says the installer "picks the biggest model that fits in RAM". The CLI's own scorer then finds that 780 MB file needs 1114 MB, so `auto` on that device refuses it.

- **qsort breaks ties arbitrarily** (`part_001:390`). Two models with equal scores come out of the scan in either order, while the spec breaks ties by scan order. `SelectionIsBest` holds in every order.
- **quantize drops the tail of a tensor** (`part_001:603`). Only the n/128 whole blocks are packed, and the `memset` leaves the other bytes 0. A 0 code decodes as -1, so every weight of a trailing partial block becomes -1, and under the spec's layout such a weight's slot even lies past the n/4 bytes written. `SignsPreserved` fails with rows of 12 weights (one and a half blocks). BitNet tensors are whole blocks, which the `hal` run uses.
- **vec_dot's row stride contradicts its documentation** (`part_001:524`). `bx` is documented as the row stride in bytes, but row r is read at `x + r*(bx/4)`. With the packed row size in bytes (n/4, gemv's stride), row 1 is read from inside row 0. `KernelMatchesReference` fails with `Strides = {NPerRow \div 4}`. It is correct only when bx is the row length in weights, which is what the engine passes.

The spec's CLI also lists a `chat` command, which the code rejects as
unknown. It exits 1, which the model treats as a usage error.

The HAL layout also departs from the spec in a way no run checks, since the
code is self-consistent there. The spec (sections 3 and 11) stores a 4-byte
scale per 128-weight block and a 36-byte block stride. The code stores one
scale for the tensor, after n/4 packed bytes. The spec's prose for
quantization says "|w| < 1e-6 emit raw 2 (i.e. 0)", but raw 2 means +1. The
code emits raw 1, which is the 0 the sentence means (mutant `CodeZeroAsTwo`).

The spec's own Scenario 3 (a 3000 MB budget selecting the 7B model) contradicts
its scoring formula, which `score_model` implements: a 2500 MB file needs
2500 + 750 + 100 = 3350 MB and does not fit 3000 MB. The model follows the code.

## 5. Proofs

`ToolRegistryProofs.tla` proves, for every capacity `MaxTools >= 1`, every grant,
every set of well-formed host descriptors and every set of names:

- `TypeCorrect: Spec => []TypeOK`. The registry never holds more than `MaxTools` tools, and every result, status and record is well-formed.
- `NamesUniqueInvariant: Spec => []NamesUnique`.

The argument uses the inductive invariant `IInv == TypeOK /\ NamesUnique`.
`TypeOK` alone is not inductive. `Execute` reads `tools[FindTool(n)]`, and
`FindTool` is a `CHOOSE` of the *first* index with that name. Its value is a
valid index only when such a first index exists, and uniqueness guarantees
that: the one tool with the name is the first (`FindToolFound`). The lemmas are:

- `RegisteredType` and `RegisteredUnique`: one `neuronos_tool_register` call preserves the bound, the type and uniqueness. `RegisterDefaults` chains four of them through `RegisteredGood`.
- `OutcomesType`: every result an executor can return is a well-formed result of that executor. It is proved arm by arm through `OutcomeGood` and `GoodUnion`.
- `WriteStatusType` and `FixedStatusType`: the rendering statuses.

`NextIInv` has one step per action, and `TypeCorrect` and `NamesUniqueInvariant`
combine `InitIInv` and `NextIInv` by PTL.

`CliProofs.tla` proves, for every set of command lines, every set of grammar
files and every width of `size_t`:

- `TypeCorrect: Spec => []TypeOK`, which includes that from the teardown on `rc` is 0 or 1.
- `ReleasedOnExitInvariant: Spec => []ReleasedOnExit`: every handle is released before the process exits.
- `ReleaseOrderHolds: Spec => ReleaseOrder`: no step releases a handle that a handle still held needs.

`ReleasedOnExit` is not inductive by itself: a return frees only what its own
path acquired. The strengthening `HeldAt` states, for each value of `pc`,
exactly which handles are held. For example, at `auto_load` the scan and the
engine are held, and at `agent_run` a loaded set plus the agent, and the
registry if `calloc` gave one. The remaining arguments rest on two lemmas:

- `NothingPending`: `TeardownOrder` names every handle, so the teardown reaches `exit` only with nothing held.
- `FirstHeldNotNeeded`: every handle comes before the handles it needs in `TeardownOrder`, so the first held handle is needed by no other held handle. That is why releasing it respects `ReleaseOrder`.

`CliProofs.tla` also proves two properties of the exit status and the grammar buffer:

- `ExitZeroIffSuccessHolds: Spec => []ExitZeroIffSuccess`. The property is not inductive by itself. The strengthening `RcDecided` says that once the teardown has begun, `rc` is 0 exactly when no failure is recorded. Every path's return sets `rc` and `failure` together. `AgentFailureNone` shows the agent's status maps to "no failure" only for `NEURONOS_AGENT_OK`.
- `OverflowOnlyFromUnseekable: Spec => []OverflowNeedsUnseekable`, with no hypothesis. `cmd_generate` writes outside the grammar buffer only when `--grammar` is on the command line and some file it may name is not `Seekable`: `ftell` does not report its size, or the size plus the NUL wraps `size_t`. For a `Seekable` file, `SeekableNoOverflow` shows that `malloc(size + 1)` holds what `fread` writes and the NUL. The converse is `PipeOverflows`: for a pipe (`ftell = -1`) the write outside the buffer is always possible, since nothing in `cmd_generate` tests for it. The run `cli_grammar_pipe` reaches it. (That every wrapping size overflows too needs `2^SizeBits > 0`, and no installed prover knows the recursion of `^`.)

`InstallerProofs.tla` proves, for every set of memory sizes and every number
of runs, whichever steps the runs are killed at:

- `TypeCorrect: Spec => []TypeOK`.
- `ReadyHasBinaryInvariant: Spec => []ReadyHasBinary`.
- `PathLineOnceInvariant: Spec => []PathLineOnce`.
- `CompleteModelKeptHolds: Spec => CompleteModelKept`.

The strengthening is `StepsDone`: what the earlier steps of the running
script have left. Past `select_model` a catalogue file is selected, past the
copy the binary is complete, and while curl runs the selected file is the
partial one it writes. The last fact is what `StepKeepsComplete` needs: the
only step that removes a file (`rm -f` after a failed curl) removes the one
curl was writing, never a complete one. The run-level facts hold across
runs because `Start` resets `pc` to the first step, and a killed run can
reach no step past the one it was at.

`ToolRegistryProofs.tla` also proves `ImplementsToolMapHolds: Spec =>
ImplementsToolMap`. The invariant adds `NoNullNames` (no registered tool has
the NULL name, so a call with NULL is answered by the registry in both
specifications). The step argument:

- the tools array only grows by appends, so the old array is a prefix of the new one (`RegisteredPrefix`, `PrefixTrans`), and with unique names the map of a prefix is a restriction of the map of the whole (`MapExtends`);
- the map has as many names as the array has tools, so at most `MaxTools` (`MapType`, through `FS_Surjection`);
- `Execute` answers with `tools[FindTool(n)].exec`, which is `RegMap[n]` (`ExecuteRefines`); the renderers and rejected registrations change neither the array nor the answer (`StutterRefines`).

`ModelRegistryProofs.tla` proves, for every directory tree, every cap, every
depth bound and every RAM reading:

- `TypeCorrect: Spec => []TypeOK`: the walk never writes `entries` past MAX_SCAN_MODELS, whatever the recursion depth.
- `SelectionIsBestHolds: Spec => []SelectionIsBest`.
- `ScoreMonotoneHolds: Spec => []ScoreMonotone`.

The inductive invariant `IInv` adds to `TypeOK`: `StackInFS` (the unread
entries of each open directory are entries of it, so a subdirectory found is
one of the tree), `EntriesScored` (each entry's `fits` and `score` are those
`score_model` computes against the budget), and `PhaseFacts` (after `qsort`
the table is sorted; nothing is selected before `select_best`).
`SelectionIsBest` follows at `SelectBest`: a fitting entry has a positive score
(`FitsPositive`, from `ScoreFits`), so it is among those `select_best`
accepts; the first accepted index exists (`MinExists`, from the
well-foundedness of `<` on `Nat`), and by sortedness it scores at least as
high as every later one. `ScoreMonotone` follows from `EntriesScored` and the
arithmetic lemma `ScoreMonotoneLemma`. The proof needs the assumption that
NULL is no entry (`NullAssumption`).

`HalScalarProofs.tla` proves, for every block size `G`, tensor shape,
threshold `Eps` and set of weight values:

- `SignsPreservedWholeBlocks: N % QK = 0 => (Spec => []SignsPreserved)`. The hypothesis is that the tensor holds whole blocks, as every BitNet weight tensor does. It is needed: the bytes of a trailing partial block stay zero, and this is the hazard recorded at `part_001:603`.
- `BufferTyped: Spec => []BufferOK`. The buffer has exactly n/4 bytes, each a uint8, and a natural-number scale. This holds for every tensor, with or without whole blocks. `BufferOK` is the `dst` clause of `TypeOK`.

The inductive invariant `IInv` says that the tensor has integer weights and that `dst` is either untouched or exactly `QuantizeI2(w)`. A failed `malloc` leaves it untouched. The lemmas are:

- `MaxAbsBound`: step 1's scale is a natural number at least every `|w[i]|`. The proof takes the least number of iterations after which no largest value would exist, which `MinExists` (in `NatOrder.tla`, shared with `ModelRegistryProofs`) provides.
- `CodeRaw`: with such a scale, step 2's code is the spec's raw code. A weight at or above the threshold makes the scale positive, so `w * scale` has the sign of `w`.
- `Layout`: the index arithmetic. With whole blocks, the spec's byte `SpecByte(i)` is one of the n/4 bytes, the packing loop fills it with the four codes of block `Blk(i)` and position `Pos(i)`, and weight i is the one in group `Grp(i)`. `DivFacts` and `DivUnique` supply the facts about `\div` and `%` that this needs.
- `DigitsDecode` and `DigitsByte`: four codes below 4 at shifts 6, 4, 2 and 0 make a uint8, and the kernels' shift and mask read each one back.
- `PackedBytesType` and `QuantizeDecodes` combine these into the byte type and the decoding.

What stays with TLC:

- Every violated property (they are findings).
- `NoBufferOverrun` (ToolRegistry). The prompt and grammar renderers are modelled as recursive functions over sequences (`PrefixSum`, `GrammarPieces`, `PromptPieces`). Showing that such a function is well defined needs `NaturalsInduction`'s `RecursiveFcnOfNat`, which takes an operator parameter that no installed prover instantiates.
- The HAL kernel products (`KernelMatchesReference`) and the `out` clause of `HalScalar`'s `TypeOK`. Both are about `MapThenSumSet` sums. A fact about what a fold computes, even its type, rests on the existence of the fold's recursive function over `SUBSET S`, which needs a recursion theorem with an operator parameter that no installed prover instantiates.

## 6. Plan and what is not modelled yet

Modules to come, in this order:

1. **Installer ↔ CLI**: the welcome demo runs `neuronos-cli <model> run ...`, a command this CLI does not know (it exits 1, hidden by `|| true`). Composing `Installer` with `Cli` would check what the installed files let the CLI do.
2. **Agent** (spec-modelled, since the loop is not under `src/`): the ReAct loop over `ToolRegistry` (INSTANCE), with capability gating, one parse retry, the step budget and the atomic tool-call/observation pair. It will come with an abstract specification of the loop and a refinement.
3. Proofs: the agent's step-budget and capability invariants.

Not modelled, and why:

- The /proc and sysctl parsing and the CPU feature probes are pure I/O.
- The packaging scripts are linear, with no state to check.
- The installer's hardware probes, `setup_config`'s JSON and the banners are I/O and printing.
- The inference engine and GGUF loading are not under `src/`.
