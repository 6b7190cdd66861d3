--------------------------- MODULE InstallerProofs ---------------------------
(***************************************************************************)
(* Proofs about the installer, for every set of memory sizes and every   *)
(* number of runs: the state is well-typed, Ready is never reported      *)
(* without a whole binary, a complete model file is never written again *)
(* and the PATH line is appended once, whichever runs are killed where.  *)
(*                                                                         *)
(* The properties about one run rest on what the steps before it did in *)
(* that run: StepsDone says, for each step of main, what the earlier     *)
(* steps of the same run have left (a file selected, the binary copied,  *)
(* the selected file being written).                                      *)
(***************************************************************************)
EXTENDS Installer, TLAPS

AfterSelect == {"version", "binary", "copy", "model", "download", "config",
                "path", "welcome", "done"}
AfterCopy == {"model", "download", "config", "path", "welcome", "done"}

StepsDone ==
    /\ pc \in AfterSelect => selected \in ModelFiles
    /\ pc \in AfterCopy => binary = "complete"
    /\ pc = "download" => files[selected] = "partial"
    /\ rcLines <= 1

IInv == TypeOK /\ StepsDone

-----------------------------------------------------------------------------
(* The catalogue has five entries, and the fallback is one of its files. *)
LEMMA CatalogFacts ==
    /\ Len(Catalog) = 5 /\ DOMAIN Catalog = 1..5
    /\ \A i \in 1..5 : Catalog[i].file \in ModelFiles
    /\ FallbackFile \in ModelFiles
BY DEF Catalog, ModelFiles, FallbackFile

(* What select_model may set SELECTED_FILE to.                          *)
LEMMA SelectionsFacts == Unset \in Selections /\ ModelFiles \subseteq Selections
BY Zenon DEF Selections

(* A budget is a natural number.                                          *)
LEMMA BudgetNat == \A a \in RamAvail : Budget(a) \in Nat
BY InstallerAssumption DEF Budget

(* get_latest_version ends the script at a line number, or goes on (0). *)
LEMMA VersionExitNat ==
    \A p, l, t : VersionExit(p, l, t) \in Nat
BY DEF VersionExit

LEMMA InitIInv == Init => IInv
<1> SUFFICES ASSUME Init PROVE IInv
    OBVIOUS
<1>1. files \in [ModelFiles -> FileStates]
      BY DEF Init, FileStates
<1>2. idx \in 1..(Len(Catalog) + 1) /\ selected \in Selections
      BY CatalogFacts, SelectionsFacts DEF Init
<1>3. runs \in 0..MaxRuns
      BY InstallerAssumption DEF Init
<1>4. pc \in Pcs
      BY DEF Init, Pcs, Stopped
<1>5. /\ binary \in FileStates /\ noModel \in BOOLEAN
      /\ budget \in Nat /\ exitLine \in Nat /\ rcLines = 0 /\ pc = "idle"
      BY DEF Init, FileStates
<1>. QED BY <1>1, <1>2, <1>3, <1>4, <1>5 DEF IInv, TypeOK, StepsDone,
                                           AfterSelect, AfterCopy

LEMMA NextIInv == IInv /\ [Next]_vars => IInv'
<1> SUFFICES ASSUME IInv, [Next]_vars PROVE IInv'
    OBVIOUS
<1>. USE DEF IInv, TypeOK, StepsDone, Pcs, Stopped, AfterSelect, AfterCopy,
             FileStates
<1>1. CASE Start
      BY <1>1, CatalogFacts, SelectionsFacts, InstallerAssumption DEF Start, disk
<1>2. CASE Kill
      BY <1>2 DEF Kill
<1>3. CASE Deps
      BY <1>3 DEF Deps, Step, ExitAt
<1>4. CASE Hardware
      BY <1>4, BudgetNat DEF Hardware, Step
<1>5. CASE SelectModel
      <2>1. CASE idx > Len(Catalog)
            BY <1>5, <2>1, CatalogFacts, SelectionsFacts DEF SelectModel
      <2>2. CASE idx <= Len(Catalog)
            <3>1. idx \in 1..5
                  BY <2>2, CatalogFacts
            <3>. QED BY <1>5, <2>2, <3>1, CatalogFacts, SelectionsFacts DEF SelectModel
      <2>. QED BY <2>1, <2>2
<1>6. CASE GetLatestVersion
      BY <1>6, VersionExitNat DEF GetLatestVersion, Step, ExitAt
<1>7. CASE InstallBinary
      BY <1>7 DEF InstallBinary, Step, ExitAt
<1>8. CASE CopyBinary
      BY <1>8 DEF CopyBinary, Step
<1>9. CASE DownloadModel
      BY <1>9 DEF DownloadModel
<1>10. CASE CurlModel
      BY <1>10 DEF CurlModel, Step
<1>11. CASE SetupConfig
      BY <1>11 DEF SetupConfig, Step
<1>12. CASE SetupPath
      BY <1>12 DEF SetupPath, Step
<1>13. CASE RunWelcome
      BY <1>13 DEF RunWelcome, Step
<1>14. CASE pc \in Stopped /\ runs = MaxRuns /\ UNCHANGED vars
      BY <1>14 DEF vars
<1>15. CASE UNCHANGED vars
      BY <1>15 DEF vars
<1>. QED BY <1>1, <1>2, <1>3, <1>4, <1>5, <1>6, <1>7, <1>8, <1>9, <1>10,
            <1>11, <1>12, <1>13, <1>14, <1>15 DEF Next

(* No step turns a complete model file into anything else: download_model *)
(* writes only where no file is, and curl's rm -f only the file it is     *)
(* writing.                                                                *)
LEMMA StepKeepsComplete ==
    IInv /\ [Next]_vars =>
       \A f \in ModelFiles : files[f] = "complete" => files'[f] = "complete"
<1> SUFFICES ASSUME IInv, [Next]_vars,
                    NEW f \in ModelFiles, files[f] = "complete"
             PROVE  files'[f] = "complete"
    OBVIOUS
<1>. USE DEF IInv, TypeOK, StepsDone, AfterSelect, AfterCopy, FileStates
<1>1. CASE DownloadModel
      BY <1>1 DEF DownloadModel
<1>2. CASE CurlModel
      <2>1. f # selected
            BY <1>2 DEF CurlModel, Step
      <2>. QED BY <1>2, <2>1 DEF CurlModel
<1>3. CASE ~DownloadModel /\ ~CurlModel
      <2>1. files' = files
            BY <1>3 DEF Next, vars, Start, Kill, Deps, Hardware, SelectModel,
                        GetLatestVersion, InstallBinary, CopyBinary, SetupConfig,
                        SetupPath, RunWelcome, disk
      <2>. QED BY <2>1
<1>. QED BY <1>1, <1>2, <1>3

-----------------------------------------------------------------------------
(* Every reachable state of the installer's runs is well-typed, for     *)
(* every set of memory sizes and every number of runs.                  *)
THEOREM TypeCorrect == Spec => []TypeOK
<1>1. Spec => []IInv
      BY InitIInv, NextIInv, PTL DEF Spec
<1>. QED BY <1>1, PTL DEF IInv

(* The installer reports Ready only with a whole binary installed, even  *)
(* after runs killed during cp -r (ReadyHasBinary).                       *)
THEOREM ReadyHasBinaryInvariant == Spec => []ReadyHasBinary
<1>1. Spec => []IInv
      BY InitIInv, NextIInv, PTL DEF Spec
<1>2. IInv => ReadyHasBinary
      BY DEF IInv, StepsDone, AfterCopy, ReadyHasBinary
<1>. QED BY <1>1, <1>2, PTL

(* However many times the installer runs, setup_path appends the PATH    *)
(* line once (PathLineOnce).                                              *)
THEOREM PathLineOnceInvariant == Spec => []PathLineOnce
<1>1. Spec => []IInv
      BY InitIInv, NextIInv, PTL DEF Spec
<1>2. IInv => PathLineOnce
      BY DEF IInv, StepsDone, PathLineOnce
<1>. QED BY <1>1, <1>2, PTL

(* A model file once complete stays complete through every later run and *)
(* every kill (CompleteModelKept).                                        *)
THEOREM CompleteModelKeptHolds == Spec => CompleteModelKept
<1>1. Spec => []IInv
      BY InitIInv, NextIInv, PTL DEF Spec
<1>2. IInv /\ [Next]_vars =>
         [\A f \in ModelFiles : files[f] = "complete" => files'[f] = "complete"]_vars
      BY StepKeepsComplete
<1>. QED BY <1>1, <1>2, PTL DEF Spec, CompleteModelKept

=============================================================================
