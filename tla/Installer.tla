----------------------------- MODULE Installer -----------------------------
(***************************************************************************)
(* The one-command installer (src/unnamed/part_002, a bash script run    *)
(* with set -euo pipefail): main's steps check_deps, detect_platform,    *)
(* detect_hardware, select_model, get_latest_version, install_binary,    *)
(* download_model, setup_config, setup_path and run_welcome.             *)
(*                                                                         *)
(* What the script leaves on disk outlives it: the model files under     *)
(* $INSTALL_DIR/models, the installed binary and the PATH lines of the   *)
(* shell's rc file.  The model runs the installer again and again, and a *)
(* run may be killed at any step (Ctrl-C, a closed terminal, a reboot); *)
(* the next run starts over with what the disk holds.                    *)
(*                                                                         *)
(* Network answers are nondeterministic: the HEAD probe of each catalogue *)
(* URL, the GitHub API bodies, the downloads.  Under set -e with         *)
(* pipefail, a command substitution whose grep matches nothing ends the *)
(* script with status 1 and no message of its own ("silent").            *)
(***************************************************************************)
EXTENDS Integers, Sequences, FiniteSets

CONSTANTS
    RamAvail,   \* MemAvailable values, in MB, that runs may find
    MaxRuns     \* how many times the installer is started

ASSUME InstallerAssumption == RamAvail \subseteq Nat /\ MaxRuns \in Nat

(* MODEL_CATALOG (lines 44-50), best first: min_ram_mb and the basename *)
(* of the URL, the file download_model writes.  The fallback (53-54) is *)
(* the same file as the BitNet-2B entry.                                 *)
Catalog ==
    << [minRam |-> 7168, file |-> "falcon3-10b-instruct-1.58bit-i2_s.gguf"],
       [minRam |-> 5120, file |-> "falcon3-7b-instruct-1.58bit-i2_s.gguf"],
       [minRam |-> 3072, file |-> "falcon3-3b-instruct-1.58bit-i2_s.gguf"],
       [minRam |-> 2048, file |-> "ggml-model-i2_s.gguf"],
       [minRam |-> 1024, file |-> "falcon3-1b-instruct-1.58bit-i2_s.gguf"] >>
FallbackFile == "ggml-model-i2_s.gguf"
ModelFiles == {Catalog[i].file : i \in DOMAIN Catalog}
Unset == "unset"                  \* SELECTED_FILE="" before select_model sets it
Selections == ModelFiles \cup {Unset}

(* Mutant: detect_hardware without the 512 MB floor.                   *)
BudgetNoFloor(avail) == avail - 500

(* detect_hardware, lines 133-135: available - 500, at least 512.       *)
Budget(avail) == IF avail - 500 < 512 THEN 512 ELSE avail - 500

FileStates == {"absent", "partial", "complete"}
Stopped == {"idle", "done", "failed", "killed"}

VARIABLES
    files,      \* $models_dir/<file>: absent, partly written, or complete
    binary,     \* $install_dir/bin: absent, partly copied, or installed
    rcLines,    \* PATH lines the installer appended to the rc file
    runs,       \* how many times the installer was started
    pc,         \* the step the running installer is at, or how it stopped
    noModel,    \* NEURONOS_NO_MODEL=1 in this run
    budget,     \* HW_RAM_BUDGET
    idx,        \* the catalogue entry select_model is at
    selected,   \* SELECTED_FILE, or Unset before select_model sets it
    exitLine    \* the line at which the last run ended with status 1, or 0

disk == <<files, binary, rcLines>>
vars == <<files, binary, rcLines, runs, pc, noModel, budget, idx, selected, exitLine>>

Init ==
    /\ files = [f \in ModelFiles |-> "absent"]
    /\ binary = "absent"
    /\ rcLines = 0
    /\ runs = 0
    /\ pc = "idle"
    /\ noModel = FALSE
    /\ budget = 0
    /\ idx = 1
    /\ selected = Unset
    /\ exitLine = 0

(* The user starts the installer, with or without NEURONOS_NO_MODEL.     *)
Start ==
    /\ pc \in Stopped
    /\ runs < MaxRuns
    /\ runs' = runs + 1
    /\ pc' = "deps"
    /\ noModel' \in BOOLEAN
    /\ budget' = 0 /\ idx' = 1 /\ selected' = Unset /\ exitLine' = 0
    /\ UNCHANGED disk

(* The running script is killed between two steps, or inside the step   *)
(* it is at: a download or a copy stays as far as it got.                *)
Kill ==
    /\ pc \notin Stopped
    /\ pc' = "killed"
    /\ UNCHANGED <<files, binary, rcLines, runs, noModel, budget, idx, selected, exitLine>>

Step(from, to) == pc = from /\ pc' = to /\ UNCHANGED exitLine

(* The script ends with status 1 at line l: a die, or a command that     *)
(* fails under set -e.                                                    *)
ExitAt(from, l) == pc = from /\ pc' = "failed" /\ exitLine' = l

(* check_deps and detect_platform (224-248): curl or tar missing, or an *)
(* unsupported OS or architecture, end with die.                         *)
Deps ==
    /\ \/ \E l \in {226, 238, 244} : ExitAt("deps", l)
       \/ Step("deps", "hardware")
    /\ UNCHANGED <<files, binary, rcLines, runs, noModel, budget, idx, selected>>

(* detect_hardware (95-174): only the budget is used later.             *)
Hardware ==
    /\ Step("hardware", "select")
    /\ \E avail \in RamAvail : budget' = Budget(avail)
    /\ UNCHANGED <<files, binary, rcLines, runs, noModel, idx, selected>>

(* select_model (179-221): the first catalogue entry, best first, whose *)
(* min_ram_mb the budget meets and whose URL answers a HEAD request with *)
(* 200, 301 or 302 within the 5 s connect timeout; past the last entry, *)
(* the fallback, whatever the budget.                                     *)
SelectModel ==
    /\ pc = "select"
    /\ IF idx > Len(Catalog)
         THEN /\ selected' = FallbackFile
              /\ pc' = "version"
              /\ UNCHANGED idx
         ELSE IF budget >= Catalog[idx].minRam
           THEN \/ /\ selected' = Catalog[idx].file      \* HEAD answered
                   /\ pc' = "version"
                   /\ UNCHANGED idx
                \/ /\ idx' = idx + 1                     \* timeout or 4xx/5xx
                   /\ UNCHANGED <<pc, selected>>
           ELSE /\ idx' = idx + 1
                /\ UNCHANGED <<pc, selected>>
    /\ UNCHANGED <<files, binary, rcLines, runs, noModel, budget, exitLine>>

(* What a GitHub API call through gh_api (curl -fsSL) returns: a body     *)
(* with the field grep looks for, a body without it, or nothing (HTTP    *)
(* error, rate limit, no network; the failure is masked by || true).    *)
Answers == {"match", "no_match", "failed"}

(* The status of a command substitution "x | grep -oP ... | head -1"    *)
(* under pipefail: grep fails when it matches nothing, and set -e then   *)
(* ends the script at that line.                                          *)
GrepFails(body) == body # "match"

(* get_latest_version (251-274): the line it ends the script at, or 0. *)
(* NEURONOS_VERSION returns at once.  Line 262 greps the latest release  *)
(* when its body is not empty, and line 268 the tags when no version was *)
(* found; the die of line 272 comes after both.                          *)
VersionExit(pinned, latest, tags) ==
    CASE pinned                                     -> 0
      [] latest # "failed" /\ GrepFails(latest)     -> 262
      [] latest = "match"                           -> 0
      [] GrepFails(tags)                            -> 268
      [] OTHER                                      -> 0

GetLatestVersion ==
    /\ \E pinned \in BOOLEAN, latest \in Answers, tags \in Answers :
          LET l == VersionExit(pinned, latest, tags)
          IN  IF l = 0 THEN Step("version", "binary") ELSE ExitAt("version", l)
    /\ UNCHANGED <<files, binary, rcLines, runs, noModel, budget, idx, selected>>

(* install_binary (277-358): the release lookup fails (die, 288); there *)
(* is no asset for the platform, so the grep fallback of 309-311 matches *)
(* nothing and set -e ends the script there, before the die of 316; the *)
(* download fails (die, 327 or 330), tar fails (339, with tar's own     *)
(* message) or nothing was extracted (die, 342); or cp -r starts writing *)
(* $install_dir/bin.                                                      *)
(* Mutant: an install_binary that, like download_model, skips the copy *)
(* when $install_dir/bin already holds something.                        *)
InstallBinarySkipExisting ==
    /\ \/ \E l \in {288, 309, 327, 330, 339, 342} :
             ExitAt("binary", l) /\ UNCHANGED binary
       \/ binary = "absent" /\ Step("binary", "copy") /\ binary' = "partial"
       \/ binary # "absent" /\ Step("binary", "model") /\ UNCHANGED binary
    /\ UNCHANGED <<files, rcLines, runs, noModel, budget, idx, selected>>

InstallBinary ==
    /\ \/ \E l \in {288, 309, 327, 330, 339, 342} :
             ExitAt("binary", l) /\ UNCHANGED binary
       \/ Step("binary", "copy") /\ binary' = "partial"
    /\ UNCHANGED <<files, rcLines, runs, noModel, budget, idx, selected>>

(* cp -r completes; the chmods and the neuronos wrapper (344-355).       *)
CopyBinary ==
    /\ Step("copy", "model")
    /\ binary' = "complete"
    /\ UNCHANGED <<files, rcLines, runs, noModel, budget, idx, selected>>

(* Mutant: download_model without the [ -f "$model_path" ] check.       *)
DownloadModelNoExistsCheck ==
    /\ pc = "model"
    /\ IF noModel
         THEN /\ pc' = "config"
              /\ UNCHANGED files
         ELSE /\ pc' = "download"
              /\ files' = [files EXCEPT ![selected] = "partial"]
    /\ UNCHANGED <<binary, rcLines, runs, noModel, budget, idx, selected, exitLine>>

(* download_model (361-393), up to the curl: NEURONOS_NO_MODEL=1 skips it; *)
(* any file at $model_path, whole or not, is taken as the model ("Model   *)
(* already exists"); otherwise curl -o creates the file and writes it.    *)
DownloadModel ==
    /\ pc = "model"
    /\ IF noModel \/ files[selected] # "absent"
         THEN /\ pc' = "config"
              /\ UNCHANGED files
         ELSE /\ pc' = "download"
              /\ files' = [files EXCEPT ![selected] = "partial"]
    /\ UNCHANGED <<binary, rcLines, runs, noModel, budget, idx, selected, exitLine>>

(* curl ends: the file is complete, or curl failed and rm -f removes it  *)
(* (the warning tells the user to download it by hand; the install goes *)
(* on).                                                                   *)
CurlModel ==
    /\ Step("download", "config")
    /\ \/ files' = [files EXCEPT ![selected] = "complete"]
       \/ files' = [files EXCEPT ![selected] = "absent"]
    /\ UNCHANGED <<binary, rcLines, runs, noModel, budget, idx, selected>>

(* setup_config (442-468): mcp.json and hw_profile.json, which nothing   *)
(* modelled reads.                                                        *)
SetupConfig ==
    /\ Step("config", "path")
    /\ UNCHANGED <<files, binary, rcLines, runs, noModel, budget, idx, selected>>

(* Mutant: setup_path without the "Don't duplicate" grep.               *)
SetupPathNoGrep ==
    /\ Step("path", "welcome")
    /\ rcLines' = rcLines + 1
    /\ UNCHANGED <<files, binary, runs, noModel, budget, idx, selected>>

(* setup_path (396-439): nothing is appended when the rc file already    *)
(* names the bin directory (427); otherwise the export line is appended. *)
(* A PATH that already holds the directory (401) needs a shell started  *)
(* after an earlier run appended the line, so it is covered by 427.     *)
SetupPath ==
    /\ Step("path", "welcome")
    /\ rcLines' = IF rcLines > 0 THEN rcLines ELSE rcLines + 1
    /\ UNCHANGED <<files, binary, runs, noModel, budget, idx, selected>>

(* main prints the Ready banner (531-547), then run_welcome (471-499)    *)
(* runs the installed CLI on the first *.gguf under models/, when there  *)
(* is one and NEURONOS_NO_WELCOME is unset, with "|| true": whatever the *)
(* CLI does, the script ends with status 0.                               *)
RunWelcome ==
    /\ Step("welcome", "done")
    /\ UNCHANGED <<files, binary, rcLines, runs, noModel, budget, idx, selected>>

Next ==
    \/ Start
    \/ Kill
    \/ Deps
    \/ Hardware
    \/ SelectModel
    \/ GetLatestVersion
    \/ InstallBinary
    \/ CopyBinary
    \/ DownloadModel
    \/ CurlModel
    \/ SetupConfig
    \/ SetupPath
    \/ RunWelcome
    \/ (pc \in Stopped /\ runs = MaxRuns /\ UNCHANGED vars)   \* no more runs

Spec == Init /\ [][Next]_vars

-----------------------------------------------------------------------------
(* Properties.                                                            *)

Pcs == Stopped \cup {"deps", "hardware", "select", "version", "binary",
                     "copy", "model", "download", "config", "path", "welcome"}

(* Every variable has its type; a selected file is a catalogue file.      *)
TypeOK ==
    /\ files \in [ModelFiles -> FileStates]
    /\ binary \in FileStates
    /\ rcLines \in Nat
    /\ runs \in 0..MaxRuns
    /\ pc \in Pcs
    /\ noModel \in BOOLEAN
    /\ budget \in Nat
    /\ idx \in 1..(Len(Catalog) + 1)
    /\ selected \in Selections
    /\ exitLine \in Nat

(* An installer that reports Ready has a whole binary in place, however *)
(* many earlier runs were killed in the middle of cp -r: install_binary  *)
(* copies again on every run.                                             *)
ReadyHasBinary == pc = "done" => binary = "complete"

(* Across runs and kills, a model file once complete is never removed,   *)
(* truncated or written again: download_model only writes a path where *)
(* no file is, and rm -f only removes the file its own failed curl made. *)
CompleteModelKept ==
    [][\A f \in ModelFiles : files[f] = "complete" => files'[f] = "complete"]_vars

(* However often the installer is run, the rc file gets the PATH line    *)
(* once.                                                                  *)
PathLineOnce == rcLines <= 1

(* An installer that reports Ready leaves the model it selected whole:  *)
(* a file the model download left half-written is never taken for the  *)
(* model.                                                                 *)
ReadyModelWhole == pc = "done" /\ ~noModel => files[selected] # "partial"

(* The lines at which the script ends with a message saying why: its    *)
(* dies, and tar, which prints its own error.                            *)
Reported == {226, 238, 244, 272, 288, 316, 327, 330, 339, 342}

(* The installer never stops with a failure without saying why: every   *)
(* run that ends with status 1 ends at a die or at tar's error.          *)
FailuresReported == pc = "failed" => exitLine \in Reported

=============================================================================
