----------------------------- MODULE CliProofs -----------------------------
(***************************************************************************)
(* Proofs about main() of the command-line tool, for every set of command *)
(* lines, every set of grammar files and every width of size_t: the state *)
(* is well-typed, every handle is released before the process exits, and *)
(* no handle is released while one that uses it is still held.           *)
(*                                                                         *)
(* The invariant that carries the argument is HeldAt: at each point of   *)
(* main, exactly which handles are held.  ReleasedOnExit alone is not    *)
(* inductive, since a return frees only the handles its path acquired.   *)
(***************************************************************************)
EXTENDS Cli, TLAPS

(* The handles held once a model is loaded: from the legacy path, or    *)
(* from auto, which also holds the scan.                                  *)
Loaded == {{"engine", "model"}, {"models", "engine", "model"}}

HeldAt ==
    /\ pc \in {"main", "scan", "auto_scan", "legacy_init", "exit"} => held = {}
    /\ pc \in {"auto_select", "auto_init"} => held = {"models"}
    /\ pc = "auto_load" => held = {"models", "engine"}
    /\ pc = "legacy_load" => held = {"engine"}
    /\ pc = "info" => held = {"engine", "model"}
    /\ pc \in {"run", "generate", "agent"} => held \in Loaded
    /\ pc = "agent_create" => \E L \in Loaded : held \in {L, L \cup {"registry"}}
    /\ pc = "agent_run" =>
          \E L \in Loaded : held \in {L \cup {"agent"}, L \cup {"agent", "registry"}}

IInv == TypeOK /\ HeldAt

-----------------------------------------------------------------------------
(* The teardown list names every handle, each at its own index.          *)
LEMMA TeardownOrderFacts ==
    /\ DOMAIN TeardownOrder = 1..5
    /\ TeardownOrder[1] = "agent" /\ TeardownOrder[2] = "registry"
    /\ TeardownOrder[3] = "model" /\ TeardownOrder[4] = "engine"
    /\ TeardownOrder[5] = "models"
    /\ Handles = {TeardownOrder[i] : i \in 1..5}
BY DEF TeardownOrder, Handles

(* A release step takes the held handle that comes first in the list.    *)
(* No held handle after it needs it: a handle precedes everything it   *)
(* needs in the list.                                                     *)
LEMMA FirstHeldNotNeeded ==
    ASSUME NEW H \in SUBSET Handles,
           NEW i \in 1..5, TeardownOrder[i] \in H,
           \A j \in 1..5 : TeardownOrder[j] \in H => i <= j,
           NEW d \in H \ {TeardownOrder[i]}
    PROVE  TeardownOrder[i] \notin Needs(d)
<1>1. CASE d = "model"
      <2>1. 3 \in 1..5 /\ TeardownOrder[3] \in H
            BY <1>1, TeardownOrderFacts
      <2>2. i <= 3 /\ i # 3
            BY <2>1, <1>1, TeardownOrderFacts
      <2>3. TeardownOrder[i] # "engine"
            BY <2>2, TeardownOrderFacts
      <2>. QED BY <1>1, <2>3 DEF Needs
<1>2. CASE d = "agent"
      <2>1. 1 \in 1..5 /\ TeardownOrder[1] \in H
            BY <1>2, TeardownOrderFacts
      <2>2. i = 1
            BY <2>1, <1>2, TeardownOrderFacts
      <2>. QED BY <1>2, <2>2, TeardownOrderFacts
<1>3. CASE d \notin {"model", "agent"}
      BY <1>3 DEF Needs
<1>. QED BY <1>1, <1>2, <1>3

(* When no handle of the list is held, none is held at all.               *)
LEMMA NothingPending ==
    ASSUME NEW H \in SUBSET Handles,
           {i \in DOMAIN TeardownOrder : TeardownOrder[i] \in H} = {}
    PROVE  H = {}
BY TeardownOrderFacts

-----------------------------------------------------------------------------
LEMMA InitIInv == Init => IInv
BY DEF Init, IInv, TypeOK, HeldAt, Pcs, Failures

LEMMA NextIInv == IInv /\ [Next]_vars => IInv'
<1> SUFFICES ASSUME IInv, [Next]_vars PROVE IInv'
    OBVIOUS
<1>. USE DEF IInv, TypeOK, HeldAt, Pcs, Failures, Handles, Loaded
<1>1. CASE Main
      <2>. USE <1>1 DEF Main, Return, Goto
      <2>1. CASE Command(argv) = "none"
            BY <2>1
      <2>2. CASE Command(argv) = "hwinfo"
            BY <2>2
      <2>3. CASE Command(argv) = "scan"
            BY <2>3
      <2>4. CASE Command(argv) = "auto" /\ SubCommand(argv) = "none"
            BY <2>4
      <2>5. CASE Command(argv) = "auto" /\ SubCommand(argv) # "none"
            BY <2>5
      <2>6. CASE Command(argv) \notin {"none", "hwinfo", "scan", "auto"}
            BY <2>6
      <2>. QED BY <2>1, <2>2, <2>3, <2>4, <2>5, <2>6
<1>2. CASE Scan
      BY <1>2 DEF Scan, Return
<1>3. CASE AutoScan
      BY <1>3 DEF AutoScan, Return
<1>4. CASE AutoSelect
      BY <1>4 DEF AutoSelect, Return, Goto
<1>5. CASE AutoInit
      BY <1>5 DEF AutoInit, Return
<1>6. CASE AutoLoad
      BY <1>6 DEF AutoLoad, Return
<1>7. CASE LegacyInit
      BY <1>7 DEF LegacyInit, Return
<1>8. CASE LegacyLoad
      BY <1>8 DEF LegacyLoad, Return
<1>9. CASE Info
      BY <1>9 DEF Info, Return
<1>10. CASE Run
      BY <1>10 DEF Run
<1>11. CASE Generate
      <2>1. overflow' \in BOOLEAN
            BY <1>11 DEF Generate
      <2>. QED BY <1>11, <2>1 DEF Generate
<1>12. CASE AgentStart
      BY <1>12 DEF AgentStart
<1>13. CASE AgentCreate
      BY <1>13 DEF AgentCreate
<1>14. CASE AgentRun
      <2>1. PICK st \in AgentStatuses : failure' = AgentFailure(st) /\ rc' \in {0, 1}
            BY <1>14 DEF AgentRun
      <2>2. failure' \in Failures
            BY <2>1 DEF AgentFailure, AgentStatuses
      <2>. QED BY <1>14, <2>2 DEF AgentRun
<1>15. CASE Release
      <2>. DEFINE pending == {i \in DOMAIN TeardownOrder : TeardownOrder[i] \in held}
      <2>1. CASE pending = {}
            <3>1. held = {}
                  BY <2>1, NothingPending
            <3>. QED BY <1>15, <2>1, <3>1 DEF Release
      <2>2. CASE pending # {}
            BY <1>15, <2>2 DEF Release
      <2>. QED BY <2>1, <2>2
<1>16. CASE Exited
      BY <1>16 DEF Exited, vars
<1>17. CASE UNCHANGED vars
      BY <1>17 DEF vars
<1>. QED BY <1>1, <1>2, <1>3, <1>4, <1>5, <1>6, <1>7, <1>8, <1>9, <1>10,
            <1>11, <1>12, <1>13, <1>14, <1>15, <1>16, <1>17 DEF Next

(* No step releases a handle that a handle still held after it needs.    *)
LEMMA StepReleaseOrder ==
    IInv /\ [Next]_vars =>
       \A h \in held \ held' : \A d \in held' : h \notin Needs(d)
<1> SUFFICES ASSUME IInv, [Next]_vars,
                    NEW h \in held \ held', NEW d \in held'
             PROVE  h \notin Needs(d)
    OBVIOUS
<1>. USE DEF IInv, TypeOK, HeldAt, Pcs, Handles, Loaded
<1>1. CASE Release
      <2>. DEFINE pending == {i \in DOMAIN TeardownOrder : TeardownOrder[i] \in held}
                  first == CHOOSE i \in pending : \A j \in pending : i <= j
      <2>1. pending # {} /\ held' = held \ {TeardownOrder[first]}
            BY <1>1 DEF Release
      <2>2. first \in 1..5 /\ TeardownOrder[first] \in held
            /\ \A j \in 1..5 : TeardownOrder[j] \in held => first <= j
            <3>1. pending \subseteq 1..5
                  BY TeardownOrderFacts
            <3>2. \E i \in pending : \A j \in pending : i <= j
                  BY <2>1, <3>1, TeardownOrderFacts
            <3>. QED BY <3>1, <3>2, TeardownOrderFacts
      <2>3. h = TeardownOrder[first] /\ d \in held \ {TeardownOrder[first]}
            BY <2>1
      <2>. QED BY <2>2, <2>3, FirstHeldNotNeeded
<1>2. CASE AgentCreate
      <2>1. held' = held \ {"registry"} \/ held \subseteq held'
            BY <1>2 DEF AgentCreate
      <2>2. h = "registry" /\ d # "agent"
            BY <1>2, <2>1 DEF AgentCreate
      <2>. QED BY <2>2 DEF Needs
<1>3. CASE ~Release /\ ~AgentCreate
      <2>1. held' = {} \/ held \subseteq held'
            BY <1>3 DEF Next, vars, Main, Scan, AutoScan, AutoSelect, AutoInit,
                        AutoLoad, LegacyInit, LegacyLoad, Info, Run, Generate,
                        AgentStart, AgentRun, Exited, Return, Goto
      <2>. QED BY <2>1
<1>. QED BY <1>1, <1>2, <1>3

-----------------------------------------------------------------------------
(* Every reachable state of main is well-typed, and from the teardown on *)
(* rc is 0 or 1 (Cli's TypeOK), whatever the command lines and files.     *)
THEOREM TypeCorrect == Spec => []TypeOK
<1>1. Spec => []IInv
      BY InitIInv, NextIInv, PTL DEF Spec
<1>. QED BY <1>1, PTL DEF IInv

(* main releases every handle it acquired before the process exits, on  *)
(* every path (ReleasedOnExit).                                           *)
THEOREM ReleasedOnExitInvariant == Spec => []ReleasedOnExit
<1>1. Spec => []IInv
      BY InitIInv, NextIInv, PTL DEF Spec
<1>2. IInv => ReleasedOnExit
      BY DEF IInv, HeldAt, ReleasedOnExit
<1>. QED BY <1>1, <1>2, PTL

(* No release by main or cmd_agent frees a handle that one still held    *)
(* uses: the model outlives the agent, the engine the model (ReleaseOrder). *)
THEOREM ReleaseOrderHolds == Spec => ReleaseOrder
<1>1. Spec => []IInv
      BY InitIInv, NextIInv, PTL DEF Spec
<1>2. IInv /\ [Next]_vars =>
         [\A h \in held \ held' : \A d \in held' : h \notin Needs(d)]_vars
      BY StepReleaseOrder
<1>. QED BY <1>1, <1>2, PTL DEF Spec, ReleaseOrder

-----------------------------------------------------------------------------
(* The exit code.                                                         *)

(* From the teardown on, rc is 0 exactly when nothing failed: every path *)
(* into the teardown or to a return sets rc and the failure together.    *)
RcDecided == pc \in {"teardown", "exit"} => (rc = 0 <=> failure = "none")

(* The agent's status is a failure exactly when it is not OK.            *)
LEMMA AgentFailureNone ==
    ASSUME NEW st \in AgentStatuses
    PROVE  AgentFailure(st) = "none" <=> st = "ok"
BY DEF AgentFailure, AgentStatuses

(* Every step keeps rc and the failure in agreement from the teardown on. *)
LEMMA NextRcDecided == TypeOK /\ RcDecided /\ [Next]_vars => RcDecided'
<1> SUFFICES ASSUME TypeOK, RcDecided, [Next]_vars PROVE RcDecided'
    OBVIOUS
<1>. USE DEF RcDecided
<1>1. CASE Main
      BY <1>1 DEF Main, Return, Goto
<1>2. CASE Scan \/ AutoScan \/ AutoSelect \/ AutoInit \/ AutoLoad
      BY <1>2 DEF Scan, AutoScan, AutoSelect, AutoInit, AutoLoad, Return, Goto
<1>3. CASE LegacyInit \/ LegacyLoad \/ Info
      BY <1>3 DEF LegacyInit, LegacyLoad, Info, Return
<1>4. CASE Run
      BY <1>4 DEF Run
<1>5. CASE Generate
      BY <1>5 DEF Generate
<1>6. CASE AgentStart \/ AgentCreate
      BY <1>6 DEF AgentStart, AgentCreate
<1>7. CASE AgentRun
      <2>1. PICK st \in AgentStatuses :
               /\ rc' = IF st = "ok" THEN 0 ELSE 1
               /\ failure' = AgentFailure(st)
               /\ pc' = "teardown"
            BY <1>7 DEF AgentRun
      <2>. QED BY <2>1, AgentFailureNone
<1>8. CASE Release \/ Exited
      BY <1>8 DEF Release, Exited, vars
<1>9. CASE UNCHANGED vars
      BY <1>9 DEF vars
<1>. QED BY <1>1, <1>2, <1>3, <1>4, <1>5, <1>6, <1>7, <1>8, <1>9 DEF Next

(* main exits with 0 exactly when the command did its work, and with a  *)
(* non-zero code on a usage error, a failed load, and a failed engine or *)
(* agent run (ExitZeroIffSuccess), whatever the command line.            *)
THEOREM ExitZeroIffSuccessHolds == Spec => []ExitZeroIffSuccess
<1>1. Spec => []TypeOK
      BY TypeCorrect
<1>2. Init => RcDecided
      BY DEF Init, RcDecided
<1>3. Spec => []RcDecided
      BY <1>1, <1>2, NextRcDecided, PTL DEF Spec
<1>4. RcDecided => ExitZeroIffSuccess
      BY DEF RcDecided, ExitZeroIffSuccess
<1>. QED BY <1>3, <1>4, PTL


-----------------------------------------------------------------------------
(* The grammar buffer.                                                    *)

(* A grammar file whose size ftell reports, and whose size plus the NUL  *)
(* fits in size_t: a regular file, as cmd_generate expects.  A pipe      *)
(* (ftell = -1) is not one; the run cli_grammar_pipe shows the overflow. *)
Seekable(f) == f.ftell \in Nat /\ f.ftell + 1 < 2^SizeBits


(* For such a file, malloc(size + 1) holds the fread and the NUL.         *)
LEMMA SeekableNoOverflow ==
    ASSUME NEW f \in GrammarFiles, f # Missing, Seekable(f)
    PROVE  GrammarOverflows(f) = {FALSE}
<1>. DEFINE M == 2^SizeBits
            x == f.ftell
<1>1. x \in Nat /\ f.bytes \in Nat /\ x + 1 < M /\ M \in Int
  BY CliAssumption DEF Seekable
<1>2. SizeT(x) = x /\ SizeT(x + 1) = x + 1
  BY <1>1 DEF SizeT
<1>3. ~GrammarWrites(f, SizeT(SizeT(x) + 1))
  BY <1>1, <1>2 DEF GrammarWrites
<1>4. GrammarOverflows(f) = {FALSE, GrammarWrites(f, SizeT(SizeT(x) + 1))}
  BY DEF GrammarOverflows
<1>. HIDE DEF GrammarWrites, SizeT, x
<1>5. GrammarWrites(f, SizeT(SizeT(x) + 1)) = FALSE
  BY <1>3
<1>. QED
  BY <1>4, <1>5

(* A pipe or any stream ftell cannot measure (ftell = -1) lets the load  *)
(* write outside the buffer: nothing in cmd_generate tests for it.       *)
LEMMA PipeOverflows ==
    ASSUME NEW f \in GrammarFiles, f # Missing, f.ftell < 0
    PROVE  TRUE \in GrammarOverflows(f)
<1>1. GrammarWrites(f, SizeT(SizeT(f.ftell) + 1))
  BY DEF GrammarWrites
<1>. QED
  BY <1>1 DEF GrammarOverflows

(* cmd_generate writes the heap outside the grammar buffer only when    *)
(* --grammar is on the command line and one of the files it may name is *)
(* not a regular file whose size plus the NUL fits in size_t: for every *)
(* width of size_t, every set of files and every command line.  By      *)
(* PipeOverflows a pipe is such a file, and it can always cause the      *)
(* overflow (the run cli_grammar_pipe reaches it).                        *)
OverflowNeedsUnseekable ==
    overflow => GrammarGiven(argv) /\ \E f \in GrammarFiles \ {Missing} : ~Seekable(f)

THEOREM OverflowOnlyFromUnseekable == Spec => []OverflowNeedsUnseekable
<1>1. Init => OverflowNeedsUnseekable
  BY DEF Init, OverflowNeedsUnseekable
<1>2. OverflowNeedsUnseekable /\ [Next]_vars => OverflowNeedsUnseekable'
  <2> SUFFICES ASSUME OverflowNeedsUnseekable, [Next]_vars
               PROVE  OverflowNeedsUnseekable'
    OBVIOUS
  <2>1. CASE Generate
    <3>0. argv' = argv
      BY <2>1 DEF Generate
    <3>1. CASE Prompt(argv) = NoPrompt
      BY <2>1, <3>0, <3>1 DEF Generate, OverflowNeedsUnseekable
    <3>2. CASE Prompt(argv) # NoPrompt
      <4>1. PICK f \in IF GrammarGiven(argv) THEN GrammarFiles ELSE {Missing} :
               \E o \in GrammarOverflows(f) : overflow' = (overflow \/ o)
        BY <2>1, <3>2 DEF Generate
      <4>2. PICK o \in GrammarOverflows(f) : overflow' = (overflow \/ o)
        BY <4>1
      <4>3. CASE o = FALSE
        BY <3>0, <4>2, <4>3 DEF OverflowNeedsUnseekable
      <4>4. CASE o # FALSE
        <5>1. f # Missing
          BY <4>2, <4>4 DEF GrammarOverflows
        <5>2. GrammarGiven(argv)
          BY <4>1, <5>1
        <5>3. f \in GrammarFiles
          BY <4>1, <5>2
        <5>4. ~Seekable(f)
          BY <4>2, <4>4, <5>1, <5>3, SeekableNoOverflow
        <5>. QED
          BY <3>0, <5>1, <5>2, <5>3, <5>4 DEF OverflowNeedsUnseekable
      <4>. QED
        BY <4>3, <4>4
    <3>. QED
      BY <3>1, <3>2
  <2>2. CASE ~Generate
    BY <2>2 DEF Next, vars, OverflowNeedsUnseekable, Main, Scan, AutoScan,
                AutoSelect, AutoInit, AutoLoad, LegacyInit, LegacyLoad, Info,
                Run, AgentStart, AgentCreate, AgentRun, Release, Exited
  <2>. QED
    BY <2>1, <2>2
<1>. QED
  BY <1>1, <1>2, PTL DEF Spec


=============================================================================
