---------------------------- MODULE ModelRegistry ----------------------------
(***************************************************************************)
(* The model scanner and auto-selection of src/unnamed/part_001           *)
(* (neuronos_detect_hardware's RAM budget, scan_dir_recursive,            *)
(* score_model, neuronos_model_scan's qsort and                            *)
(* neuronos_model_select_best).                                            *)
(*                                                                         *)
(* The directory tree is a constant: FS[d] is the set of directory        *)
(* entries readdir returns for directory d, in an order the file system   *)
(* chooses.  Each readdir step of the walk is one action; the recursion   *)
(* is an explicit stack of open directories.  A file is its size in MB    *)
(* and the name tags the scorer looks for; a score is kept exactly as     *)
(* score * budget, an integer (the code computes it in float).            *)
(***************************************************************************)
EXTENDS Naturals, Integers, Sequences, Functions

CONSTANTS
    FS,            \* directory -> set of its entries
    Root,          \* the directory passed to neuronos_model_scan
    RamAvail,      \* possible ram_available_mb values neuronos_detect_hardware reads
    MaxScan,       \* MAX_SCAN_MODELS (128 in the code)
    MaxDepth,      \* nesting at which dir_path fills the 1024-byte full_path
    MaxOpen,       \* directories the process can hold open (opendir fails with EMFILE)
    Null           \* NULL pointer

(* The kinds of a directory entry as stat() reports them: a directory     *)
(* (or a symlink to one, since stat follows links), a regular file (or a  *)
(* link to one), something else, or a link stat cannot follow.            *)
Kinds == {"dir", "file", "other", "dangling"}
Tags == {"ternary", "instruct"}   \* i2_s/I2_S/1.58/bitnet/BitNet; nstruct/chat/Chat

Dirent == [name : STRING, kind : Kinds, link : BOOLEAN, target : STRING,
           hidden : BOOLEAN, gguf : BOOLEAN, size : Nat, tags : SUBSET Tags]

ASSUME FSAssumption ==
    /\ Root \in DOMAIN FS
    /\ \A d \in DOMAIN FS : FS[d] \subseteq Dirent
    /\ \A d \in DOMAIN FS : \A e \in FS[d] : e.kind = "dir" => e.target \in DOMAIN FS
ASSUME BoundsAssumption ==
    /\ MaxScan \in Nat \ {0}
    /\ MaxDepth \in Nat \ {0}
    /\ MaxOpen \in Nat \ {0}
    /\ RamAvail \subseteq Int

VARIABLES
    budget,    \* hw.model_budget_mb
    stack,     \* open directories of the recursion, innermost last
    entries,   \* the entries array, entries[1..count]
    phase,     \* "scan", "sorted" (after qsort) or "done"
    selected   \* what neuronos_model_select_best returned

vars == <<budget, stack, entries, phase, selected>>

-----------------------------------------------------------------------------
(* neuronos_detect_hardware: available RAM minus a 500 MB margin, at     *)
(* least 256 MB.                                                          *)
ModelBudget(avail) == IF avail - 500 < 256 THEN 256 ELSE avail - 500

(* estimate_ram_needed and estimate_params (in billions, as score_model  *)
(* divides it): size * 2^20 / 35 * 100 / 10^9 = size * 8192 / 2734375.    *)
EstRam(size) == size + (size * 30) \div 100 + 100
ParamsB(size) == (size * 8192) \div 2734375

QualityTier(pb) ==
    CASE pb >= 8 -> 100 [] pb >= 4 -> 80 [] pb >= 2 -> 60 [] pb >= 1 -> 30
      [] OTHER -> 10

(* Mutant: headroom computed as (est - budget) / budget.                *)
ScaledScoreHeadroomSwapped(est, pb, tags, b) ==
    IF est > b THEN -b
    ELSE (1000 + QualityTier(pb) + (IF "ternary" \in tags THEN 25 ELSE 0)
               + (IF "instruct" \in tags THEN 15 ELSE 0)) * b
         + 50 * (est - b)

(* score_model, multiplied by the budget b: -1 when the estimate exceeds *)
(* b, else 1000 + tier + 50 * headroom + 25 for a ternary name + 15 for  *)
(* an instruct name.                                                     *)
ScaledScore(est, pb, tags, b) ==
    IF est > b THEN -b
    ELSE (1000 + QualityTier(pb) + (IF "ternary" \in tags THEN 25 ELSE 0)
               + (IF "instruct" \in tags THEN 15 ELSE 0)) * b
         + 50 * (b - est)

(* The neuronos_model_entry_t filled in for a .gguf file found as the    *)
(* count-th entry.                                                        *)
MakeEntry(e, count) ==
    LET est == EstRam(e.size) IN
    [file |-> e.target, order |-> count + 1, size |-> e.size, est |-> est,
     fits |-> est <= budget, tags |-> e.tags,
     score |-> ScaledScore(est, ParamsB(e.size), e.tags, budget)]

Top == stack[Len(stack)]

-----------------------------------------------------------------------------
(* Hardware is detected, then scan_dir_recursive opens the root (or fails *)
(* to, and the scan finds nothing).                                       *)
Init ==
    /\ \E avail \in RamAvail : budget = ModelBudget(avail)
    /\ \/ stack = << [dir |-> Root, unread |-> FS[Root]] >>
       \/ stack = << >>
    /\ entries = << >>
    /\ phase = "scan"
    /\ selected = Null

(* Mutant: the readdir loop without its current_count < max_entries test. *)
ReadEntryNoCap ==
    /\ phase = "scan"
    /\ stack # << >>
    /\ \E e \in Top.unread :
         LET rest == [stack EXCEPT ![Len(stack)] = [dir |-> Top.dir, unread |-> Top.unread \ {e}]] IN
         \/ /\ e.hidden
            /\ stack' = rest
            /\ UNCHANGED entries
         \/ /\ ~e.hidden /\ Len(stack) < MaxDepth
            /\ \/ /\ \/ e.kind \in {"other", "dangling"}
                     \/ e.kind = "file" /\ ~e.gguf
                  /\ stack' = rest
                  /\ UNCHANGED entries
               \/ /\ e.kind = "dir"
                  /\ \/ /\ Len(stack) < MaxOpen
                        /\ stack' = Append(rest, [dir |-> e.target, unread |-> FS[e.target]])
                     \/ stack' = rest
                  /\ UNCHANGED entries
               \/ /\ e.kind = "file" /\ e.gguf
                  /\ entries' = Append(entries, MakeEntry(e, Len(entries)))
                  /\ stack' = rest
         \/ /\ ~e.hidden /\ Len(stack) >= MaxDepth
            /\ \/ /\ Len(stack) < MaxOpen
                  /\ stack' = Append(rest, [dir |-> Top.dir, unread |-> FS[Top.dir]])
               \/ stack' = rest
            /\ UNCHANGED entries
    /\ UNCHANGED <<budget, phase, selected>>

(* One iteration of the readdir loop, taken while count < max_entries:   *)
(* dot-entries and entries stat rejects are skipped, a directory is      *)
(* walked recursively (when opendir succeeds), and a regular *.gguf file *)
(* becomes the next entry.  In a directory whose dir_path fills          *)
(* full_path (lines 328-329), snprintf truncates every full_path to      *)
(* dir_path itself (or dir_path/): stat reports a directory, whatever    *)
(* the entry is, and the walk opens the same directory again, until      *)
(* opendir fails.                                                         *)
ReadEntry ==
    /\ phase = "scan"
    /\ stack # << >>
    /\ Len(entries) < MaxScan
    /\ \E e \in Top.unread :
         LET rest == [stack EXCEPT ![Len(stack)] = [dir |-> Top.dir, unread |-> Top.unread \ {e}]] IN
         \/ /\ e.hidden
            /\ stack' = rest
            /\ UNCHANGED entries
         \/ /\ ~e.hidden /\ Len(stack) < MaxDepth
            /\ \/ /\ \/ e.kind \in {"other", "dangling"}
                     \/ e.kind = "file" /\ ~e.gguf
                  /\ stack' = rest
                  /\ UNCHANGED entries
               \/ /\ e.kind = "dir"
                  /\ \/ /\ Len(stack) < MaxOpen
                        /\ stack' = Append(rest, [dir |-> e.target, unread |-> FS[e.target]])
                     \/ stack' = rest                  \* opendir fails
                  /\ UNCHANGED entries
               \/ /\ e.kind = "file" /\ e.gguf
                  /\ entries' = Append(entries, MakeEntry(e, Len(entries)))
                  /\ stack' = rest
         \/ /\ ~e.hidden /\ Len(stack) >= MaxDepth
            /\ \/ /\ Len(stack) < MaxOpen
                  /\ stack' = Append(rest, [dir |-> Top.dir, unread |-> FS[Top.dir]])
               \/ stack' = rest               \* opendir fails
            /\ UNCHANGED entries
    /\ UNCHANGED <<budget, phase, selected>>

(* The loop ends (no more entries, or count reached max_entries): the    *)
(* directory is closed and the caller's loop resumes.                     *)
CloseDir ==
    /\ phase = "scan"
    /\ stack # << >>
    /\ Top.unread = {} \/ Len(entries) >= MaxScan
    /\ stack' = SubSeq(stack, 1, Len(stack) - 1)
    /\ UNCHANGED <<budget, entries, phase, selected>>

(* Mutant: the comparator's signs swapped, sorting ascending.           *)
SortedDescSwapped(s) == \A i, j \in 1..Len(s) : i < j => s[i].score <= s[j].score

(* compare_models_desc: a before b when b's score is lower.              *)
SortedDesc(s) == \A i, j \in 1..Len(s) : i < j => s[i].score >= s[j].score

(* The orders qsort may leave the entries in: any permutation that the   *)
(* comparator accepts (qsort is not stable).                              *)
QsortResults(s) ==
    { t \in { [i \in 1..Len(s) |-> s[p[i]]] : p \in Bijection(1..Len(s), 1..Len(s)) } :
        SortedDesc(t) }

(* neuronos_model_scan after the walk: no entries gives NULL (and the    *)
(* selection then has nothing), otherwise the entries are qsorted.        *)
Sort ==
    /\ phase = "scan"
    /\ stack = << >>
    /\ \/ /\ entries = << >>
          /\ phase' = "done"
          /\ UNCHANGED entries
       \/ /\ entries # << >>
          /\ \E t \in QsortResults(entries) : entries' = t
          /\ phase' = "sorted"
    /\ UNCHANGED <<budget, stack, selected>>

(* neuronos_model_select_best: the first entry that fits with a positive *)
(* score, or NULL.                                                        *)
SelectBest ==
    /\ phase = "sorted"
    /\ LET ok == {i \in 1..Len(entries) : entries[i].fits /\ entries[i].score > 0}
       IN  selected' = IF ok = {} THEN Null ELSE entries[CHOOSE i \in ok :
                                                \A j \in ok : i <= j]
    /\ phase' = "done"
    /\ UNCHANGED <<budget, stack, entries>>

Next == ReadEntry \/ CloseDir \/ Sort \/ SelectBest

Spec == Init /\ [][Next]_vars

-----------------------------------------------------------------------------
(* Properties.                                                            *)

Entry == [file : STRING, order : Nat, size : Nat, est : Nat, fits : BOOLEAN,
          tags : SUBSET Tags, score : Int]

(* NULL is no model entry.                                               *)
ASSUME NullAssumption == Null \notin Entry

(* Every variable has its type; in particular the walk never writes past *)
(* entries[MAX_SCAN_MODELS - 1], across all levels of the recursion.      *)
TypeOK ==
    /\ budget \in Nat \ {0}
    /\ stack \in Seq([dir : DOMAIN FS, unread : SUBSET Dirent])
    /\ entries \in Seq(Entry)
    /\ Len(entries) <= MaxScan
    /\ phase \in {"scan", "sorted", "done"}
    /\ selected \in Entry \cup {Null}

(* The model auto-selection picks fits in the RAM budget and scores at   *)
(* least as high as every other scanned model that fits; it picks none  *)
(* only when no scanned model fits.                                      *)
SelectionIsBest ==
    phase = "done" =>
      /\ selected # Null =>
            /\ selected.fits
            /\ \A i \in 1..Len(entries) :
                  entries[i].fits => entries[i].score <= selected.score
      /\ selected = Null => \A i \in 1..Len(entries) : ~entries[i].fits

(* Scoring monotonicity: of two scanned models in the same parameter     *)
(* tier with the same name tags, the one needing less RAM scores at      *)
(* least as high.                                                        *)
ScoreMonotone ==
    \A i, j \in 1..Len(entries) :
       /\ QualityTier(ParamsB(entries[i].size)) = QualityTier(ParamsB(entries[j].size))
       /\ entries[i].tags = entries[j].tags
       /\ entries[i].est <= entries[j].est
       => entries[i].score >= entries[j].score

=============================================================================
