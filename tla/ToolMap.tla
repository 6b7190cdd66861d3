------------------------------- MODULE ToolMap -------------------------------
(***************************************************************************)
(* What the tool registry of neuronos_tool_registry.c promises its        *)
(* callers, without the array: a registry is a finite map from tool names *)
(* to executors holding at most MaxTools tools.  A name is added once and *)
(* keeps its executor; a call of a name answers with the executor mapped  *)
(* to it, or with the registry's own error when no tool has that name.    *)
(* Rejected registrations and the text generators change nothing here.   *)
(***************************************************************************)
EXTENDS Naturals, FiniteSets

CONSTANTS
    MaxTools,   \* the capacity
    Names,      \* tool names
    Execs,      \* executors
    Null        \* the NULL name, never a tool's

VARIABLES
    reg,        \* name -> executor, for the registered tools
    answer      \* the name of the last call and who answered it: an executor or "registry"

mvars == <<reg, answer>>

Init ==
    /\ reg = [n \in {} |-> Null]
    /\ answer = [name |-> Null, by |-> "registry"]   \* as after a NULL name

(* A registration call (one tool, or the defaults at once): tools are   *)
(* added under names not yet registered, the tools already registered    *)
(* keep their executors, and at most MaxTools tools are registered after *)
(* it.                                                                    *)
Register ==
    /\ \E D \in SUBSET Names : reg' \in [D -> Execs]
    /\ DOMAIN reg \subseteq DOMAIN reg'
    /\ \A n \in DOMAIN reg : reg'[n] = reg[n]
    /\ Cardinality(DOMAIN reg') <= MaxTools
    /\ UNCHANGED answer

(* Calling the tool named n.                                             *)
Call(n) ==
    /\ answer' = [name |-> n, by |-> IF n \in DOMAIN reg THEN reg[n] ELSE "registry"]
    /\ UNCHANGED reg

Next ==
    \/ Register
    \/ \E n \in Names \cup {Null} : Call(n)

Spec == Init /\ [][Next]_mvars

=============================================================================
