------------------------- MODULE ModelRegistryProofs -------------------------
(***************************************************************************)
(* Proofs about the model scanner for every directory tree, RAM reading,  *)
(* table size and depth bound: the walk stays within MAX_SCAN_MODELS,     *)
(* score_model ranks a model that needs less RAM at least as high as a    *)
(* like one that needs more, and neuronos_model_select_best returns a     *)
(* model that fits and scores highest among those that fit.               *)
(***************************************************************************)
EXTENDS ModelRegistry, NatOrder, TLAPS

-----------------------------------------------------------------------------
(* Arithmetic of detect_hardware and score_model.                          *)

(* The parameter count score_model derives from a file size is an       *)
(* integer.                                                                *)
LEMMA ParamsBInt ==
    ASSUME NEW size \in Nat
    PROVE  ParamsB(size) \in Int
  BY DEF ParamsB

(* The budget is at least 256 MB, whatever RAM is available.             *)
LEMMA BudgetPositive ==
    ASSUME NEW avail \in Int
    PROVE  ModelBudget(avail) \in Nat \ {0}
BY DEF ModelBudget

(* The parameter tier is one of score_model's constants.                 *)
LEMMA TierNat ==
    ASSUME NEW pb \in Int
    PROVE  QualityTier(pb) \in Nat
BY DEF QualityTier

(* The factor of the budget in a fitting model's scaled score.           *)
Factor(pb, tags) ==
    1000 + QualityTier(pb) + (IF "ternary" \in tags THEN 25 ELSE 0)
                           + (IF "instruct" \in tags THEN 15 ELSE 0)

LEMMA FactorNat ==
    ASSUME NEW pb \in Int, NEW tags
    PROVE  Factor(pb, tags) \in Nat /\ Factor(pb, tags) >= 1000
BY TierNat DEF Factor

(* A model that fits scores b * Factor + 50 * headroom, one that does not *)
(* scores -1 (times b).                                                   *)
LEMMA ScoreFits ==
    ASSUME NEW est \in Nat, NEW pb \in Int, NEW tags, NEW b \in Nat \ {0}, est <= b
    PROVE  ScaledScore(est, pb, tags, b) = Factor(pb, tags) * b + 50 * (b - est)
BY DEF ScaledScore, Factor

LEMMA ScoreInt ==
    ASSUME NEW est \in Nat, NEW pb \in Int, NEW tags, NEW b \in Nat \ {0}
    PROVE  ScaledScore(est, pb, tags, b) \in Int
BY TierNat DEF ScaledScore

LEMMA ScoreUnfit ==
    ASSUME NEW est \in Nat, NEW pb \in Int, NEW tags, NEW b \in Nat \ {0}, est > b
    PROVE  ScaledScore(est, pb, tags, b) = -b
BY DEF ScaledScore

(* A model that fits the budget has a positive score: the test           *)
(* score > 0.0f of neuronos_model_select_best never rejects it.          *)
LEMMA FitsPositive ==
    ASSUME NEW est \in Nat, NEW pb \in Int, NEW tags, NEW b \in Nat \ {0}, est <= b
    PROVE  ScaledScore(est, pb, tags, b) > 0
<1>1. Factor(pb, tags) \in Nat /\ Factor(pb, tags) >= 1000
  BY FactorNat
<1>2. Factor(pb, tags) * b >= 1000
  <2>. DEFINE F == Factor(pb, tags)
  <2>1. F * (b - 1) \in Nat
    BY <1>1
  <2>2. F * b = F * (b - 1) + F
    BY <1>1
  <2>. QED
    BY <1>1, <2>1, <2>2
<1>3. ScaledScore(est, pb, tags, b) = Factor(pb, tags) * b + 50 * (b - est)
  BY ScoreFits
<1>. QED
  BY <1>1, <1>2, <1>3

(* Of two models in one tier with the same name tags, the one whose RAM  *)
(* estimate is lower scores at least as high.                             *)
LEMMA ScoreMonotoneLemma ==
    ASSUME NEW e1 \in Nat, NEW e2 \in Nat, NEW p1 \in Int, NEW p2 \in Int,
           QualityTier(p1) = QualityTier(p2), NEW tags, NEW b \in Nat \ {0},
           e1 <= e2
    PROVE  ScaledScore(e1, p1, tags, b) >= ScaledScore(e2, p2, tags, b)
<1>0. Factor(p1, tags) = Factor(p2, tags) /\ Factor(p1, tags) \in Nat
  BY FactorNat DEF Factor
<1>1. CASE e2 > b
  <2>1. ScaledScore(e2, p2, tags, b) = -b
    BY <1>1, ScoreUnfit
  <2>2. CASE e1 > b
    BY <2>1, <2>2, ScoreUnfit
  <2>3. CASE e1 <= b
    <3>1. ScaledScore(e1, p1, tags, b) > 0
      BY <2>3, FitsPositive
    <3>. QED
      BY <2>1, <3>1, ScoreInt
  <2>. QED
    BY <2>2, <2>3
<1>2. CASE e2 <= b
  <2>. DEFINE F == Factor(p1, tags)
  <2>0. e1 <= b
    BY <1>2
  <2>1. ScaledScore(e1, p1, tags, b) = F * b + 50 * (b - e1)
    BY <2>0, ScoreFits
  <2>2. ScaledScore(e2, p2, tags, b) = F * b + 50 * (b - e2)
    BY <1>0, <1>2, ScoreFits
  <2>3. F * b \in Int
    BY <1>0
  <2>. QED
    BY <2>1, <2>2, <2>3
<1>. QED
  BY <1>1, <1>2

-----------------------------------------------------------------------------
(* The inductive invariant.                                              *)

(* Every open directory's unread entries are entries of that directory, *)
(* so a subdirectory found by readdir is a directory of the tree.        *)
StackInFS == \A k \in 1..Len(stack) : stack[k].unread \subseteq FS[stack[k].dir]

(* Every entry was scored by score_model against the current budget.     *)
EntriesScored ==
    \A i \in 1..Len(entries) :
       /\ entries[i].fits = (entries[i].est <= budget)
       /\ entries[i].score = ScaledScore(entries[i].est, ParamsB(entries[i].size),
                                         entries[i].tags, budget)

(* The table is sorted once qsort has run; nothing is selected before    *)
(* neuronos_model_select_best.                                            *)
PhaseFacts ==
    /\ phase = "sorted" => SortedDesc(entries)
    /\ phase # "done" => selected = Null

IInv == TypeOK /\ StackInFS /\ EntriesScored /\ PhaseFacts /\ SelectionIsBest

(* The entry score_model fills in for a file is an Entry, scored against *)
(* the budget.                                                            *)
LEMMA MakeEntryFacts ==
    ASSUME budget \in Nat \ {0}, NEW e \in Dirent, NEW c \in Nat
    PROVE  LET m == MakeEntry(e, c) IN
           /\ m \in Entry
           /\ m.fits = (m.est <= budget)
           /\ m.score = ScaledScore(m.est, ParamsB(m.size), m.tags, budget)
<1>1. EstRam(e.size) \in Nat /\ ParamsB(e.size) \in Nat
  BY DEF Dirent, EstRam, ParamsB
<1>2. ScaledScore(EstRam(e.size), ParamsB(e.size), e.tags, budget) \in Int
  BY <1>1, ScoreInt
<1>. QED
  BY <1>1, <1>2 DEF MakeEntry, Entry, Dirent

(* neuronos_detect_hardware followed by opening the root directory      *)
(* establishes the invariant.                                             *)
LEMMA InitIInv == Init => IInv
<1>. SUFFICES ASSUME Init PROVE IInv
  OBVIOUS
<1>1. budget \in Nat \ {0}
  BY BudgetPositive, BoundsAssumption DEF Init
<1>2. stack \in Seq([dir : DOMAIN FS, unread : SUBSET Dirent]) /\ StackInFS
  <2>1. CASE stack = << >>
    BY <2>1 DEF StackInFS
  <2>2. CASE stack = << [dir |-> Root, unread |-> FS[Root]] >>
    <3>1. [dir |-> Root, unread |-> FS[Root]] \in [dir : DOMAIN FS, unread : SUBSET Dirent]
      BY FSAssumption
    <3>. QED
      BY <2>2, <3>1 DEF StackInFS
  <2>. QED
    BY <2>1, <2>2 DEF Init
<1>3. entries = << >> /\ phase = "scan" /\ selected = Null
  BY DEF Init
<1>. QED
  BY <1>1, <1>2, <1>3, BoundsAssumption
  DEF IInv, TypeOK, EntriesScored, PhaseFacts, SelectionIsBest

StackElem == [dir : DOMAIN FS, unread : SUBSET Dirent]

(* Removing an entry from the innermost open directory keeps the stack   *)
(* typed and within the tree.                                             *)
LEMMA PopEntry ==
    ASSUME NEW s \in Seq(StackElem), s # << >>,
           \A k \in 1..Len(s) : s[k].unread \subseteq FS[s[k].dir], NEW e
    PROVE  LET r == [s EXCEPT ![Len(s)] = [dir |-> s[Len(s)].dir,
                                             unread |-> s[Len(s)].unread \ {e}]] IN
           /\ r \in Seq(StackElem) /\ Len(r) = Len(s)
           /\ \A k \in 1..Len(r) : r[k].unread \subseteq FS[r[k].dir]
<1>. DEFINE L == Len(s)
            nt == [dir |-> s[L].dir, unread |-> s[L].unread \ {e}]
            r == [s EXCEPT ![L] = nt]
<1>. SUFFICES /\ r \in Seq(StackElem) /\ Len(r) = Len(s)
              /\ \A k \in 1..Len(r) : r[k].unread \subseteq FS[r[k].dir]
  OBVIOUS
<1>1. L \in Nat /\ L \in 1..L /\ s[L] \in StackElem
  OBVIOUS
<1>2. nt \in StackElem /\ nt.unread \subseteq FS[nt.dir]
  BY <1>1 DEF StackElem
<1>3. DOMAIN r = 1..L /\ \A k \in 1..L : r[k] = IF k = L THEN nt ELSE s[k]
  OBVIOUS
<1>. HIDE DEF nt
<1>4. r \in [1..L -> StackElem]
  BY <1>1, <1>2, <1>3
<1>. HIDE DEF r
<1>5. r \in Seq(StackElem) /\ Len(r) = L
  BY <1>1, <1>4
<1>6. \A k \in 1..L : r[k].unread \subseteq FS[r[k].dir]
  BY <1>2, <1>3
<1>. QED
  BY <1>5, <1>6

(* A readdir step leaves a well-typed stack of open directories of the   *)
(* tree: the entry is removed from the innermost one, and a subdirectory *)
(* (or, under a truncated path, the directory itself) may be pushed with *)
(* all its entries unread.                                                *)
LEMMA ReadEntryStack ==
    ASSUME IInv, ReadEntry
    PROVE  /\ stack' \in Seq(StackElem)
           /\ \A k \in 1..Len(stack') : stack'[k].unread \subseteq FS[stack'[k].dir]
<1>. DEFINE L == Len(stack)
<1>0. stack \in Seq(StackElem) /\ stack # << >> /\ StackInFS
  BY DEF IInv, TypeOK, ReadEntry, StackElem
<1>1. PICK e \in Top.unread :
         LET rest == [stack EXCEPT ![L] = [dir |-> Top.dir, unread |-> Top.unread \ {e}]] IN
         \/ stack' = rest
         \/ /\ e.kind = "dir"
            /\ stack' = Append(rest, [dir |-> e.target, unread |-> FS[e.target]])
         \/ stack' = Append(rest, [dir |-> Top.dir, unread |-> FS[Top.dir]])
  BY Zenon DEF ReadEntry
<1>. DEFINE rest == [stack EXCEPT ![L] = [dir |-> Top.dir, unread |-> Top.unread \ {e}]]
<1>2. Top \in StackElem /\ e \in FS[Top.dir] /\ Top.dir \in DOMAIN FS
  <2>1. Len(stack) \in 1..Len(stack) /\ Top \in StackElem
    BY <1>0 DEF Top
  <2>2. Top.unread \subseteq FS[Top.dir]
    BY <1>0, <2>1 DEF Top, StackInFS
  <2>. QED
    BY <1>1, <2>1, <2>2 DEF StackElem
<1>3. e \in Dirent /\ (e.kind = "dir" => e.target \in DOMAIN FS)
  BY <1>2, FSAssumption
<1>4. rest \in Seq(StackElem) /\ Len(rest) = L
      /\ \A k \in 1..L : rest[k].unread \subseteq FS[rest[k].dir]
  <2>1. \A k \in 1..Len(stack) : stack[k].unread \subseteq FS[stack[k].dir]
    BY <1>0 DEF StackInFS
  <2>. QED
    BY <1>0, <2>1, PopEntry DEF Top
<1>. HIDE DEF rest
<1>5. CASE stack' = rest
  BY <1>4, <1>5
<1>6. CASE e.kind = "dir"
           /\ stack' = Append(rest, [dir |-> e.target, unread |-> FS[e.target]])
  <2>0. e.target \in DOMAIN FS /\ FS[e.target] \subseteq Dirent
    BY <1>3, <1>6, FSAssumption
  <2>1. [dir |-> e.target, unread |-> FS[e.target]] \in StackElem
    BY <2>0 DEF StackElem
  <2>. QED
    BY <1>4, <1>6, <2>1
<1>8. CASE stack' = Append(rest, [dir |-> Top.dir, unread |-> FS[Top.dir]])
  <2>1. [dir |-> Top.dir, unread |-> FS[Top.dir]] \in StackElem
    BY <1>2, FSAssumption DEF StackElem
  <2>. QED
    BY <1>4, <1>8, <2>1
<1>7. \/ stack' = rest
      \/ /\ e.kind = "dir"
         /\ stack' = Append(rest, [dir |-> e.target, unread |-> FS[e.target]])
      \/ stack' = Append(rest, [dir |-> Top.dir, unread |-> FS[Top.dir]])
  BY <1>1, Zenon DEF rest
<1>. QED
  BY <1>5, <1>6, <1>7, <1>8

(* A readdir step keeps the table within MAX_SCAN_MODELS entries, each   *)
(* scored against the budget.                                              *)
LEMMA ReadEntryEntries ==
    ASSUME IInv, ReadEntry
    PROVE  /\ entries' \in Seq(Entry)
           /\ Len(entries') <= MaxScan
           /\ \A i \in 1..Len(entries') :
                 /\ entries'[i].fits = (entries'[i].est <= budget)
                 /\ entries'[i].score = ScaledScore(entries'[i].est, ParamsB(entries'[i].size),
                                                    entries'[i].tags, budget)
<1>0. /\ entries \in Seq(Entry) /\ Len(entries) < MaxScan /\ EntriesScored
      /\ budget \in Nat \ {0} /\ stack \in Seq(StackElem) /\ stack # << >>
      /\ MaxScan \in Nat
  BY BoundsAssumption DEF IInv, TypeOK, ReadEntry, StackElem
<1>1. PICK e \in Top.unread :
         \/ entries' = entries
         \/ entries' = Append(entries, MakeEntry(e, Len(entries)))
  BY Zenon DEF ReadEntry
<1>2. e \in Dirent
  <2>1. Top \in StackElem
    BY <1>0 DEF Top
  <2>. QED
    BY <2>1 DEF StackElem
<1>3. CASE entries' = entries
  BY <1>0, <1>3 DEF EntriesScored
<1>4. CASE entries' = Append(entries, MakeEntry(e, Len(entries)))
  <2>. DEFINE m == MakeEntry(e, Len(entries))
  <2>1. /\ m \in Entry
        /\ m.fits = (m.est <= budget)
        /\ m.score = ScaledScore(m.est, ParamsB(m.size), m.tags, budget)
    BY <1>0, <1>2, MakeEntryFacts
  <2>0. entries' = Append(entries, m)
    BY <1>4
  <2>. HIDE DEF m
  <2>2. entries \in Seq(Entry) /\ \A i \in 1..Len(entries) :
              /\ entries[i].fits = (entries[i].est <= budget)
              /\ entries[i].score = ScaledScore(entries[i].est, ParamsB(entries[i].size),
                                                entries[i].tags, budget)
    BY <1>0 DEF EntriesScored
  <2>3. Append(entries, m) \in Seq(Entry) /\ Len(Append(entries, m)) = Len(entries) + 1
    BY <2>1, <2>2
  <2>4. \A i \in 1..Len(entries) + 1 :
           /\ Append(entries, m)[i].fits = (Append(entries, m)[i].est <= budget)
           /\ Append(entries, m)[i].score =
                 ScaledScore(Append(entries, m)[i].est, ParamsB(Append(entries, m)[i].size),
                             Append(entries, m)[i].tags, budget)
    BY <2>1, <2>2
  <2>. QED
    BY <1>0, <2>0, <2>3, <2>4
<1>. QED
  BY <1>1, <1>3, <1>4

(* A readdir step preserves the invariant.                               *)
LEMMA ReadEntryIInv ==
    ASSUME IInv, ReadEntry
    PROVE  IInv'
<1>1. /\ stack' \in Seq(StackElem)
      /\ \A k \in 1..Len(stack') : stack'[k].unread \subseteq FS[stack'[k].dir]
  BY ReadEntryStack
<1>2. /\ entries' \in Seq(Entry)
      /\ Len(entries') <= MaxScan
      /\ \A i \in 1..Len(entries') :
            /\ entries'[i].fits = (entries'[i].est <= budget)
            /\ entries'[i].score = ScaledScore(entries'[i].est, ParamsB(entries'[i].size),
                                               entries'[i].tags, budget)
  BY ReadEntryEntries
<1>3. /\ budget' = budget /\ budget \in Nat \ {0}
      /\ phase' = "scan" /\ selected' = Null
  BY DEF ReadEntry, IInv, TypeOK, PhaseFacts
<1>. QED
  BY <1>1, <1>2, <1>3
  DEF IInv, TypeOK, StackInFS, EntriesScored, PhaseFacts, SelectionIsBest, StackElem

(* Closing the innermost directory preserves the invariant.              *)
LEMMA CloseDirIInv ==
    ASSUME IInv, CloseDir
    PROVE  IInv'
<1>1. stack \in Seq(StackElem) /\ stack # << >> /\ StackInFS
  BY DEF IInv, TypeOK, CloseDir, StackElem
<1>2. /\ stack' \in Seq(StackElem)
      /\ \A k \in 1..Len(stack') : stack'[k].unread \subseteq FS[stack'[k].dir]
  <2>. DEFINE L == Len(stack)
  <2>1. stack' = SubSeq(stack, 1, L - 1) /\ L \in Nat \ {0}
    BY <1>1 DEF CloseDir
  <2>2. SubSeq(stack, 1, L - 1) = [k \in 1..L - 1 |-> stack[k]]
    BY <2>1
  <2>. QED
    BY <1>1, <2>1, <2>2 DEF StackInFS
<1>3. UNCHANGED <<budget, entries, phase, selected>>
  BY DEF CloseDir
<1>. QED
  BY <1>2, <1>3
  DEF IInv, TypeOK, StackInFS, EntriesScored, PhaseFacts, SelectionIsBest, StackElem

(* qsort permutes the table: each entry of the result is an entry of the *)
(* table before it.                                                       *)
LEMMA SortPermutes ==
    ASSUME NEW s \in Seq(Entry), NEW t \in QsortResults(s)
    PROVE  /\ t \in Seq(Entry) /\ Len(t) = Len(s) /\ SortedDesc(t)
           /\ \A i \in 1..Len(t) : \E j \in 1..Len(s) : t[i] = s[j]
<1>1. PICK p \in Bijection(1..Len(s), 1..Len(s)) :
         t = [i \in 1..Len(s) |-> s[p[i]]] /\ SortedDesc(t)
  BY DEF QsortResults
<1>2. p \in [1..Len(s) -> 1..Len(s)]
  BY <1>1 DEF Bijection, Injection
<1>3. \A i \in 1..Len(s) : t[i] = s[p[i]] /\ p[i] \in 1..Len(s)
  BY <1>1, <1>2
<1>4. t \in Seq(Entry) /\ Len(t) = Len(s)
  BY <1>1, <1>3
<1>5. \A i \in 1..Len(t) : \E j \in 1..Len(s) : t[i] = s[j]
  BY <1>3, <1>4
<1>. QED
  BY <1>1, <1>4, <1>5

(* The qsort step preserves the invariant.                               *)
LEMMA SortIInv ==
    ASSUME IInv, Sort
    PROVE  IInv'
<1>0. /\ entries \in Seq(Entry) /\ EntriesScored /\ selected = Null
      /\ UNCHANGED <<budget, stack, selected>>
  BY DEF IInv, TypeOK, PhaseFacts, Sort
<1>1. CASE entries = << >> /\ phase' = "done" /\ UNCHANGED entries
  BY <1>0, <1>1
  DEF IInv, TypeOK, StackInFS, EntriesScored, PhaseFacts, SelectionIsBest
<1>2. CASE entries' \in QsortResults(entries) /\ phase' = "sorted"
  <2>1. /\ entries' \in Seq(Entry) /\ Len(entries') = Len(entries)
        /\ SortedDesc(entries')
        /\ \A i \in 1..Len(entries') : \E j \in 1..Len(entries) : entries'[i] = entries[j]
    BY <1>2, <1>0, SortPermutes
  <2>2. EntriesScored'
    BY <1>0, <2>1 DEF EntriesScored
  <2>. QED
    BY <1>0, <1>2, <2>1, <2>2
    DEF IInv, TypeOK, StackInFS, PhaseFacts, SelectionIsBest
<1>. QED
  BY <1>1, <1>2 DEF Sort

(* An entry that fits has a positive score, so it is among the entries  *)
(* neuronos_model_select_best accepts.                                    *)
LEMMA FitsAccepted ==
    ASSUME IInv, NEW i \in 1..Len(entries), entries[i].fits
    PROVE  entries[i].score > 0
<1>1. entries[i] \in Entry /\ budget \in Nat \ {0}
  BY DEF IInv, TypeOK
<1>2. /\ entries[i].est <= budget
      /\ entries[i].score = ScaledScore(entries[i].est, ParamsB(entries[i].size),
                                        entries[i].tags, budget)
  BY DEF IInv, EntriesScored
<1>3. entries[i].est \in Nat /\ ParamsB(entries[i].size) \in Int
  <2>1. entries[i].est \in Nat /\ entries[i].size \in Nat
    BY <1>1 DEF Entry
  <2>. QED
    BY <2>1, ParamsBInt
<1>. QED
  BY <1>1, <1>2, <1>3, FitsPositive


(* neuronos_model_select_best preserves the invariant: on the sorted     *)
(* table, the first entry that fits with a positive score is the best of  *)
(* those that fit, and when there is none, no entry fits.                 *)
LEMMA SelectBestIInv ==
    ASSUME IInv, SelectBest
    PROVE  IInv'
<1>. DEFINE ok == {i \in 1..Len(entries) : entries[i].fits /\ entries[i].score > 0}
<1>0. /\ entries \in Seq(Entry) /\ SortedDesc(entries)
      /\ selected' = IF ok = {} THEN Null ELSE entries[CHOOSE i \in ok : \A j \in ok : i <= j]
      /\ phase' = "done" /\ UNCHANGED <<budget, stack, entries>>
  BY DEF IInv, TypeOK, PhaseFacts, SelectBest
<1>1. \A i \in 1..Len(entries) : entries[i].fits => i \in ok
  BY FitsAccepted
<1>2. CASE ok = {}
  <2>1. selected' = Null /\ \A i \in 1..Len(entries) : ~entries[i].fits
    BY <1>0, <1>1, <1>2
  <2>. QED
    BY <1>0, <2>1
    DEF IInv, TypeOK, StackInFS, EntriesScored, PhaseFacts, SelectionIsBest
<1>3. CASE ok # {}
  <2>. DEFINE c == CHOOSE i \in ok : \A j \in ok : i <= j
  <2>a. entries \in Seq(Entry) /\ SortedDesc(entries)
    BY <1>0
  <2>b. ok \in SUBSET (1..Len(entries)) /\ \A i \in ok : entries[i].fits
    OBVIOUS
  <2>0. selected' = entries[c]
    BY <1>0, <1>3
  <2>. HIDE DEF ok
  <2>1. c \in ok /\ \A j \in ok : c <= j
    <3>1. \E x \in ok : \A y \in ok : x <= y
      BY <1>3, <2>b, MinExists
    <3>. QED
      BY <3>1, Zenon
  <2>. HIDE DEF c
  <2>2. selected' = entries[c] /\ entries[c] \in Entry /\ entries[c].fits
    BY <2>a, <2>b, <2>0, <2>1
  <2>3. \A i \in 1..Len(entries) : entries[i].fits => entries[i].score <= entries[c].score
    <3>. SUFFICES ASSUME NEW i \in 1..Len(entries), entries[i].fits
                  PROVE  entries[i].score <= entries[c].score
      OBVIOUS
    <3>1. c <= i /\ c \in 1..Len(entries)
      BY <1>1, <2>1, <2>b
    <3>2. entries[i] \in Entry /\ entries[c] \in Entry
      BY <2>a, <3>1
    <3>3. entries[i].score \in Int /\ entries[c].score \in Int
      BY <3>2 DEF Entry
    <3>. QED
      BY <2>a, <3>1, <3>3 DEF SortedDesc
  <2>4. phase' = "done" /\ UNCHANGED <<budget, stack, entries>>
    BY <1>0
  <2>5. TypeOK'
    BY <2>2, <2>4 DEF IInv, TypeOK
  <2>6. StackInFS' /\ EntriesScored' /\ PhaseFacts'
    BY <2>4 DEF IInv, StackInFS, EntriesScored, PhaseFacts
  <2>7. SelectionIsBest'
    <3>1. selected'.fits /\ \A i \in 1..Len(entries) :
                                entries[i].fits => entries[i].score <= selected'.score
      BY <2>2, <2>3
    <3>2. selected' # Null
      BY <2>2, NullAssumption
    <3>3. phase' = "done" /\ entries' = entries
      BY <2>4
    <3>. QED
      BY <3>1, <3>2, <3>3 DEF SelectionIsBest
  <2>. QED
    BY <2>5, <2>6, <2>7 DEF IInv
<1>. QED
  BY <1>2, <1>3

(* A step that changes nothing preserves the invariant.                  *)
LEMMA StutterIInv ==
    ASSUME IInv, UNCHANGED vars
    PROVE  IInv'
BY DEF vars, IInv, TypeOK, StackInFS, EntriesScored, PhaseFacts, SelectionIsBest

(* Every step of the scanner preserves the invariant.                    *)
LEMMA NextIInv == IInv /\ [Next]_vars => IInv'
BY ReadEntryIInv, CloseDirIInv, SortIInv, SelectBestIInv, StutterIInv DEF Next

-----------------------------------------------------------------------------
(* The theorems.                                                          *)

(* The invariant holds in every state of every scan.                     *)
THEOREM InvariantHolds == Spec => []IInv
BY InitIInv, NextIInv, PTL DEF Spec

(* The scanner's variables keep their types on every tree and every RAM *)
(* reading: in particular the recursive walk never writes the entries    *)
(* array past MAX_SCAN_MODELS, whatever the depth of the recursion.       *)
THEOREM TypeCorrect == Spec => []TypeOK
BY InvariantHolds, PTL DEF IInv

(* neuronos_model_select_best returns a model that fits the budget and   *)
(* scores at least as high as every scanned model that fits, and NULL    *)
(* only when no scanned model fits.                                       *)
THEOREM SelectionIsBestHolds == Spec => []SelectionIsBest
BY InvariantHolds, PTL DEF IInv

(* Of two scanned models in one parameter tier with the same name tags,  *)
(* score_model ranks the one needing less RAM at least as high.           *)
THEOREM ScoreMonotoneHolds == Spec => []ScoreMonotone
<1>1. IInv => ScoreMonotone
  <2>. SUFFICES ASSUME IInv, NEW i \in 1..Len(entries), NEW j \in 1..Len(entries),
                       QualityTier(ParamsB(entries[i].size)) = QualityTier(ParamsB(entries[j].size)),
                       entries[i].tags = entries[j].tags,
                       entries[i].est <= entries[j].est
                PROVE  entries[i].score >= entries[j].score
    BY DEF ScoreMonotone
  <2>1. entries[i] \in Entry /\ entries[j] \in Entry /\ budget \in Nat \ {0}
    BY DEF IInv, TypeOK
  <2>2. /\ entries[i].score = ScaledScore(entries[i].est, ParamsB(entries[i].size),
                                          entries[i].tags, budget)
        /\ entries[j].score = ScaledScore(entries[j].est, ParamsB(entries[j].size),
                                          entries[j].tags, budget)
    BY DEF IInv, EntriesScored
  <2>3. /\ entries[i].est \in Nat /\ entries[j].est \in Nat
        /\ ParamsB(entries[i].size) \in Int /\ ParamsB(entries[j].size) \in Int
    <3>1. /\ entries[i].est \in Nat /\ entries[i].size \in Nat
          /\ entries[j].est \in Nat /\ entries[j].size \in Nat
      BY <2>1 DEF Entry
    <3>. QED
      BY <3>1, ParamsBInt
  <2>. QED
    BY <2>1, <2>2, <2>3, ScoreMonotoneLemma
<1>. QED
  BY InvariantHolds, <1>1, PTL


=============================================================================
