------------------------- MODULE ToolRegistryProofs -------------------------
(***************************************************************************)
(* Proofs about the tool registry for every capacity, grant and set of    *)
(* host descriptors: the registry stays well-typed and within             *)
(* NEURONOS_MAX_TOOLS, and no two registered tools ever share a name.     *)
(***************************************************************************)
EXTENDS ToolRegistry, FiniteSetTheorems, TLAPS

(* The built-in descriptors are descriptors.                              *)
LEMMA BuiltinsAreDescs ==
    {ShellDesc, ReadDesc, WriteDesc, CalcDesc} \subseteq Desc
BY NamesAssumption DEF ShellDesc, ReadDesc, WriteDesc, CalcDesc, Desc, Caps, Executors

(* neuronos_tool_register keeps a registry well-typed and within bound.  *)
LEMMA RegisteredType ==
    ASSUME NEW reg \in Seq(Desc), Len(reg) <= MaxTools, NEW d \in Desc
    PROVE  /\ Registered(reg, d) \in Seq(Desc)
           /\ Len(Registered(reg, d)) <= MaxTools
BY MaxToolsAssumption DEF Registered

(* Names are unique in a registry.                                        *)
Unique(reg) == \A i, j \in 1..Len(reg) : i # j => reg[i].name # reg[j].name

(* neuronos_tool_register keeps names unique: it appends only a name     *)
(* that no registered tool has.                                           *)
LEMMA RegisteredUnique ==
    ASSUME NEW reg \in Seq(Desc), Unique(reg), NEW d \in Desc
    PROVE  Unique(Registered(reg, d))
<1>1. CASE \/ d.name = Null \/ d.exec = Null
           \/ Len(reg) >= MaxTools
           \/ \E i \in 1..Len(reg) : reg[i].name = d.name
  BY <1>1 DEF Registered
<1>2. CASE ~(\/ d.name = Null \/ d.exec = Null
             \/ Len(reg) >= MaxTools
             \/ \E i \in 1..Len(reg) : reg[i].name = d.name)
  <2>1. Registered(reg, d) = Append(reg, d)
    BY <1>2 DEF Registered
  <2>2. \A i \in 1..Len(reg) : reg[i].name # d.name
    BY <1>2
  <2>. QED
    BY <2>1, <2>2 DEF Unique
<1>. QED
  BY <1>1, <1>2

(* Every outcome in S is a result of executor e.                         *)
GoodOutcomes(S, e) == \A o \in S : /\ o.res \in Result
                                   /\ o.res.by = e
                                   /\ o.spawn \in BOOLEAN

(* One outcome built by executor e is a result of e.                     *)
LEMMA OutcomeGood ==
    ASSUME NEW e \in Executors, NEW ok \in BOOLEAN, NEW out \in OutKinds,
           NEW err \in ErrKinds, NEW sp \in BOOLEAN
    PROVE  GoodOutcomes({[res |-> R(e, ok, out, err), spawn |-> sp]}, e)
<1>1. /\ [res |-> R(e, ok, out, err), spawn |-> sp].res \in Result
      /\ [res |-> R(e, ok, out, err), spawn |-> sp].res.by = e
      /\ [res |-> R(e, ok, out, err), spawn |-> sp].spawn \in BOOLEAN
  BY DEF R, Result
<1>. QED
  BY <1>1, Zenon DEF GoodOutcomes

(* Outcomes in a union of good sets are good.                             *)
LEMMA GoodUnion ==
    ASSUME NEW S, NEW T, NEW e, GoodOutcomes(S, e), GoodOutcomes(T, e)
    PROVE  GoodOutcomes(S \cup T, e)
BY Zenon DEF GoodOutcomes

(* Every outcome of an executor is a result produced by that executor.   *)
LEMMA OutcomesType ==
    ASSUME NEW e \in Executors, NEW a \in ArgShapes
    PROVE  GoodOutcomes(Outcomes(e, a), e)
<1>. DEFINE O(ok, out, err, sp) == [res |-> R(e, ok, out, err), spawn |-> sp]
<1>0. "none" \in OutKinds /\ "data" \in OutKinds
      /\ {"exec", "status", "none", "missing", "invalid"} \subseteq ErrKinds
  BY DEF OutKinds, ErrKinds
<1>1. CASE e # "user" /\ a \in {"null", "nokey"}
  <2>1. Outcomes(e, a) = {O(FALSE, "none", "missing", FALSE)}
    BY <1>1 DEF Outcomes
  <2>2. GoodOutcomes({O(FALSE, "none", "missing", FALSE)}, e)
    BY <1>0, OutcomeGood, Zenon
  <2>. QED
    BY <2>1, <2>2
<1>2. CASE ~(e # "user" /\ a \in {"null", "nokey"}) /\ e # "user" /\ a = "novalue"
  <2>1. Outcomes(e, a) = {O(FALSE, "none", "invalid", FALSE)}
    BY <1>2 DEF Outcomes
  <2>2. GoodOutcomes({O(FALSE, "none", "invalid", FALSE)}, e)
    BY <1>0, OutcomeGood, Zenon
  <2>. QED
    BY <2>1, <2>2
<1>. DEFINE Run == ~(e # "user" /\ a \in {"null", "nokey"})
                   /\ ~(e # "user" /\ a = "novalue")
<1>a. GoodOutcomes({O(FALSE, "none", "exec", FALSE)}, e)
  BY <1>0, OutcomeGood, Zenon
<1>b. GoodOutcomes({O(TRUE, "data", "none", FALSE)}, e)
  BY <1>0, OutcomeGood, Zenon
<1>3. CASE Run /\ e = "shell"
  <2>1. Outcomes(e, a) = {O(FALSE, "none", "exec", FALSE)}
                         \cup {O(TRUE, "data", "none", TRUE)}
                         \cup {O(FALSE, "data", "status", TRUE)}
    BY <1>3 DEF Outcomes, ShellRun, FileRun, CalcRun, UserRun
  <2>2. GoodOutcomes({O(TRUE, "data", "none", TRUE)}, e)
    BY <1>0, OutcomeGood, Zenon
  <2>3. GoodOutcomes({O(FALSE, "data", "status", TRUE)}, e)
    BY <1>0, OutcomeGood, Zenon
  <2>. QED
    BY <2>1, <1>a, <2>2, <2>3, GoodUnion
<1>4. CASE Run /\ e \in {"read_file", "write_file"}
  <2>1. Outcomes(e, a) = {O(FALSE, "none", "exec", FALSE)}
                         \cup {O(TRUE, "data", "none", FALSE)}
    BY <1>4 DEF Outcomes, ShellRun, FileRun, CalcRun, UserRun
  <2>. QED
    BY <2>1, <1>a, <1>b, GoodUnion
<1>5. CASE Run /\ e = "calculate"
  <2>1. Outcomes(e, a) = {O(FALSE, "none", "exec", FALSE)}
                         \cup {O(TRUE, o, "none", a = "quoted") :
                                 o \in {"data", "errtext", "zero"}}
    BY <1>5 DEF Outcomes, ShellRun, FileRun, CalcRun, UserRun
  <2>2. \A o \in {"data", "errtext", "zero"} :
           GoodOutcomes({O(TRUE, o, "none", a = "quoted")}, e)
    <3>. SUFFICES ASSUME NEW o \in {"data", "errtext", "zero"}
                  PROVE  GoodOutcomes({O(TRUE, o, "none", a = "quoted")}, e)
      OBVIOUS
    <3>1. o \in OutKinds /\ (a = "quoted") \in BOOLEAN
      BY DEF OutKinds
    <3>. QED
      BY <3>1, <1>0, OutcomeGood, Zenon
  <2>3. GoodOutcomes({O(TRUE, o, "none", a = "quoted") :
                        o \in {"data", "errtext", "zero"}}, e)
    BY <2>2, Zenon DEF GoodOutcomes
  <2>4. GoodOutcomes({O(FALSE, "none", "exec", FALSE)}
                     \cup {O(TRUE, o, "none", a = "quoted") :
                             o \in {"data", "errtext", "zero"}}, e)
    BY <2>3, <1>a, GoodUnion, Zenon
  <2>. QED
    BY <2>1, <2>4
<1>6. CASE Run /\ e \notin {"shell", "read_file", "write_file", "calculate"}
  <2>1. Outcomes(e, a) = {O(TRUE, "data", "none", FALSE)}
                         \cup {O(FALSE, "none", "exec", FALSE)}
    BY <1>6 DEF Outcomes, ShellRun, FileRun, CalcRun, UserRun
  <2>. QED
    BY <2>1, <1>a, <1>b, GoodUnion
<1>. QED
  BY <1>1, <1>2, <1>3, <1>4, <1>5, <1>6

(* Under unique names, the lookup of neuronos_tool_execute stops at the  *)
(* one tool named n when there is one, and returns 0 otherwise.           *)
LEMMA FindToolFound ==
    ASSUME NEW n, tools \in Seq(Desc), Unique(tools)
    PROVE  /\ IsRegistered(n) => /\ FindTool(n) \in 1..Len(tools)
                                 /\ tools[FindTool(n)].name = n
           /\ ~IsRegistered(n) => FindTool(n) = 0
<1>1. CASE IsRegistered(n)
  <2>1. PICK k \in 1..Len(tools) : tools[k].name = n
    BY <1>1 DEF IsRegistered
  <2>2. \A j \in 1..(k - 1) : tools[j].name # n
    BY <2>1 DEF Unique
  <2>. QED
    BY <1>1, <2>1, <2>2 DEF FindTool, IsRegistered
<1>2. CASE ~IsRegistered(n)
  BY <1>2 DEF FindTool, IsRegistered
<1>. QED
  BY <1>1, <1>2

(* No registered tool has a NULL name.                                   *)
NoNull(reg) == \A i \in 1..Len(reg) : reg[i].name # Null

(* neuronos_tool_register never stores a NULL name.                      *)
LEMMA RegisteredNoNull ==
    ASSUME NEW reg \in Seq(Desc), NoNull(reg), NEW d \in Desc
    PROVE  NoNull(Registered(reg, d))
BY DEF Registered, NoNull

(* What a registry that neuronos_tool_register keeps consistent is.     *)
GoodRegistry(reg) == reg \in Seq(Desc) /\ Len(reg) <= MaxTools /\ Unique(reg) /\ NoNull(reg)

(* neuronos_tool_register keeps a registry well-typed, within bound and *)
(* free of duplicate names.                                              *)
LEMMA RegisteredGood ==
    ASSUME NEW reg, GoodRegistry(reg), NEW d \in Desc
    PROVE  GoodRegistry(Registered(reg, d))
BY RegisteredType, RegisteredUnique, RegisteredNoNull DEF GoodRegistry

(* The status of a text written into a buffer is a text status.          *)
LEMMA WriteStatusType ==
    ASSUME NEW kind \in {"grammar", "prompt"}, NEW pieces, NEW cap
    PROVE  WriteStatus(kind, pieces, cap) \in TextStatus
<1>1. /\ (\E k \in 1..Len(pieces) : PrefixSum(pieces, k - 1) > cap) \in BOOLEAN
      /\ (PrefixSum(pieces, Len(pieces)) >= cap) \in BOOLEAN
  OBVIOUS
<1>. QED
  BY <1>1 DEF WriteStatus, TextStatus
(* The statuses of the texts that are not written into a buffer.        *)
LEMMA FixedStatusType ==
    \A k \in {"grammar", "prompt", "nomem"} :
       [kind |-> k, overrun |-> FALSE, truncated |-> FALSE] \in TextStatus
BY DEF TextStatus

-----------------------------------------------------------------------------
(* Registered tools have names: neuronos_tool_register rejects NULL.    *)
NoNullNames == NoNull(tools)

(* The inductive invariant: the type invariant strengthened with unique *)
(* names, which the lookup of neuronos_tool_execute needs to land on a   *)
(* registered tool, and with names that are not NULL.                    *)
IInv == TypeOK /\ NamesUnique /\ NoNullNames

LEMMA InitIInv == Init => IInv
BY MaxToolsAssumption
   DEF Init, IInv, TypeOK, NamesUnique, NoNullNames, NoNull, NoResult, Result, Executors,
       OutKinds, ErrKinds, TextStatus

LEMMA NextIInv == IInv /\ [Next]_vars => IInv'
<1>. SUFFICES ASSUME IInv, [Next]_vars PROVE IInv'
  OBVIOUS
<1>0. GoodRegistry(tools)
  BY DEF IInv, TypeOK, NamesUnique, NoNullNames, GoodRegistry, Unique
<1>. GoodRegistry(tools') => tools' \in Seq(Desc) /\ Len(tools') <= MaxTools
                            /\ NamesUnique' /\ NoNullNames'
  BY DEF GoodRegistry, Unique, NamesUnique, NoNullNames
<1>1. ASSUME NEW d \in UserDescs, Register(d) PROVE IInv'
  <2>1. GoodRegistry(tools')
    BY <1>1, <1>0, RegisteredGood, UserDescsAssumption DEF Register
  <2>2. called' \in Names \cup {Null}
    BY <1>1 DEF Register, IInv, TypeOK
  <2>. QED
    BY <1>1, <2>1, <2>2 DEF Register, IInv, TypeOK
<1>2. CASE RegisterDefaults
  <2>. DEFINE r1 == IF "SHELL" \in Granted THEN Registered(tools, ShellDesc)
                    ELSE tools
              r2 == IF "FILESYSTEM" \in Granted
                    THEN Registered(Registered(r1, ReadDesc), WriteDesc)
                    ELSE r1
  <2>1. GoodRegistry(r1)
    BY <1>0, RegisteredGood, BuiltinsAreDescs
  <2>2. GoodRegistry(r2)
    BY <2>1, RegisteredGood, BuiltinsAreDescs
  <2>3. GoodRegistry(tools')
    BY <1>2, <2>2, RegisteredGood, BuiltinsAreDescs DEF RegisterDefaults
  <2>4. called' \in Names \cup {Null}
    BY <1>2 DEF RegisterDefaults, IInv, TypeOK
  <2>. QED
    BY <1>2, <2>3, <2>4 DEF RegisterDefaults, IInv, TypeOK
<1>3. ASSUME NEW n \in CallNames \cup {Null}, NEW a \in ArgShapes, Execute(n, a)
      PROVE IInv'
  <2>1. called' \in Names \cup {Null}
    BY <1>3, CallNamesAssumption DEF Execute
  <2>2. result' \in Result /\ spawned' \subseteq Executors
    <3>0. /\ R("registry", FALSE, "none", "badargs") \in Result
          /\ R("registry", FALSE, "none", "notfound") \in Result
      BY DEF R, Result, OutKinds, ErrKinds
    <3>1. CASE n = Null
      <4>1. result' = R("registry", FALSE, "none", "badargs") /\ spawned' = spawned
        BY <1>3, <3>1 DEF Execute
      <4>. QED
        BY <3>0, <4>1 DEF IInv, TypeOK
    <3>2. CASE n # Null /\ FindTool(n) = 0
      <4>1. result' = R("registry", FALSE, "none", "notfound") /\ spawned' = spawned
        BY <1>3, <3>2 DEF Execute
      <4>. QED
        BY <3>0, <4>1 DEF IInv, TypeOK
    <3>3. CASE n # Null /\ FindTool(n) # 0
      <4>1. FindTool(n) \in 1..Len(tools)
        BY <3>3, <1>0, FindToolFound DEF GoodRegistry
      <4>. DEFINE e == tools[FindTool(n)].exec
      <4>a. tools[FindTool(n)] \in Desc
        BY <4>1, <1>0 DEF GoodRegistry
      <4>2. e \in Executors
        BY <4>a DEF Desc
      <4>3. PICK o \in Outcomes(e, a) :
               /\ result' = o.res
               /\ spawned' = IF o.spawn THEN spawned \cup {o.res.by} ELSE spawned
        BY <1>3, <3>3 DEF Execute
      <4>4. o.res \in Result /\ o.res.by = e
        BY <4>2, OutcomesType DEF GoodOutcomes
      <4>. QED
        BY <4>2, <4>3, <4>4 DEF IInv, TypeOK
    <3>. QED
      BY <3>1, <3>2, <3>3
  <2>. QED
    BY <1>3, <2>1, <2>2 DEF Execute, IInv, TypeOK, NamesUnique, NoNullNames
<1>4. CASE GrammarNames
  <2>1. text' \in TextStatus
    BY <1>4, WriteStatusType, FixedStatusType DEF GrammarNames
  <2>. QED
    BY <1>4, <2>1 DEF GrammarNames, IInv, TypeOK, NamesUnique, NoNullNames
<1>5. CASE PromptDescription
  <2>1. text' \in TextStatus
    BY <1>5, WriteStatusType, FixedStatusType DEF PromptDescription
  <2>. QED
    BY <1>5, <2>1 DEF PromptDescription, IInv, TypeOK, NamesUnique, NoNullNames
<1>6. CASE UNCHANGED vars
  BY <1>6 DEF vars, IInv, TypeOK, NamesUnique, NoNullNames
<1>. QED
  BY <1>1, <1>2, <1>3, <1>4, <1>5, <1>6 DEF Next

(* Every state the registry reaches is well-typed and holds at most     *)
(* NEURONOS_MAX_TOOLS tools, whatever the capacity, grant and host      *)
(* descriptors: neuronos_tool_register never writes past tools[].        *)
THEOREM TypeCorrect == Spec => []TypeOK
<1>1. IInv => TypeOK
  BY DEF IInv
<1>. QED
  BY <1>1, InitIInv, NextIInv, PTL DEF Spec

(* No sequence of neuronos_tool_register and                             *)
(* neuronos_tool_register_defaults calls ever registers two tools with   *)
(* the same name.                                                        *)
THEOREM NamesUniqueInvariant == Spec => []NamesUnique
<1>1. IInv => NamesUnique
  BY DEF IInv
<1>. QED
  BY <1>1, InitIInv, NextIInv, PTL DEF Spec

-----------------------------------------------------------------------------
(* The refinement of ToolMap.  NamesOf(s) is the set of names in the     *)
(* array s and Map(s) the abstract registry the mapping RegMap reads off *)
(* it; a registration only appends, so the array before a step is a     *)
(* prefix of the array after it.                                          *)
NamesOf(s) == {s[i].name : i \in 1..Len(s)}
Map(s) == [n \in NamesOf(s) |-> s[CHOOSE i \in 1..Len(s) : s[i].name = n].exec]
Prefix(s, t) == Len(s) <= Len(t) /\ \A i \in 1..Len(s) : t[i] = s[i]

(* neuronos_tool_register only appends to the array.                      *)
LEMMA RegisteredPrefix ==
    ASSUME NEW reg \in Seq(Desc), NEW d \in Desc
    PROVE  Prefix(reg, Registered(reg, d))
BY DEF Registered, Prefix

LEMMA PrefixTrans ==
    ASSUME NEW r \in Seq(Desc), NEW s \in Seq(Desc), NEW t \in Seq(Desc),
           Prefix(r, s), Prefix(s, t)
    PROVE  Prefix(r, t)
BY DEF Prefix

(* Under unique names the choice in Map lands on the one tool with the   *)
(* name.                                                                  *)
LEMMA ChooseUnique ==
    ASSUME NEW s \in Seq(Desc), Unique(s), NEW k \in 1..Len(s)
    PROVE  (CHOOSE i \in 1..Len(s) : s[i].name = s[k].name) = k
<1>1. \E i \in 1..Len(s) : s[i].name = s[k].name
  OBVIOUS
<1>2. \A i \in 1..Len(s) : s[i].name = s[k].name => i = k
  BY DEF Unique
<1>. QED
  BY <1>1, <1>2

(* Appending to an array with unique names keeps every name and the     *)
(* executor it maps to.                                                  *)
LEMMA MapExtends ==
    ASSUME NEW s \in Seq(Desc), NEW t \in Seq(Desc), Unique(t), Prefix(s, t)
    PROVE  /\ NamesOf(s) \subseteq NamesOf(t)
           /\ \A n \in NamesOf(s) : Map(t)[n] = Map(s)[n]
<1>1. Unique(s)
  BY DEF Unique, Prefix
<1>2. NamesOf(s) \subseteq NamesOf(t)
  BY DEF NamesOf, Prefix
<1>3. ASSUME NEW n \in NamesOf(s) PROVE Map(t)[n] = Map(s)[n]
  <2>1. PICK k \in 1..Len(s) : s[k].name = n
    BY <1>3 DEF NamesOf
  <2>2. k \in 1..Len(t) /\ t[k] = s[k]
    BY DEF Prefix
  <2>3. (CHOOSE i \in 1..Len(s) : s[i].name = n) = k
    BY <1>1, <2>1, ChooseUnique
  <2>4. (CHOOSE i \in 1..Len(t) : t[i].name = n) = k
    BY <2>1, <2>2, ChooseUnique
  <2>5. n \in NamesOf(t)
    BY <1>2, <1>3
  <2>6. Map(s)[n] = s[CHOOSE i \in 1..Len(s) : s[i].name = n].exec
    BY <1>3 DEF Map
  <2>7. Map(t)[n] = t[CHOOSE i \in 1..Len(t) : t[i].name = n].exec
    BY <2>5 DEF Map
  <2>. QED
    BY <2>2, <2>3, <2>4, <2>6, <2>7
<1>. QED
  BY <1>2, <1>3

(* A consistent array holds at most MaxTools names, each in Names, and   *)
(* maps each of them to an executor.                                      *)
LEMMA MapType ==
    ASSUME NEW s, GoodRegistry(s)
    PROVE  /\ NamesOf(s) \subseteq Names
           /\ Map(s) \in [NamesOf(s) -> Executors]
           /\ Cardinality(NamesOf(s)) <= MaxTools
<1>0. \A i \in 1..Len(s) : s[i] \in Desc /\ s[i].name # Null
  BY DEF GoodRegistry, NoNull
<1>1. NamesOf(s) \subseteq Names
  BY <1>0 DEF NamesOf, Desc
<1>2. Map(s) \in [NamesOf(s) -> Executors]
  <2>1. ASSUME NEW n \in NamesOf(s)
        PROVE  s[CHOOSE i \in 1..Len(s) : s[i].name = n].exec \in Executors
    <3>1. PICK k \in 1..Len(s) : s[k].name = n
      BY <2>1 DEF NamesOf
    <3>2. (CHOOSE i \in 1..Len(s) : s[i].name = n) = k
      BY <3>1, ChooseUnique DEF GoodRegistry
    <3>. QED
      BY <1>0, <3>1, <3>2 DEF Desc
  <2>. QED
    BY <2>1 DEF Map
<1>3. Cardinality(NamesOf(s)) <= MaxTools
  <2>. DEFINE f == [i \in 1..Len(s) |-> s[i].name]
  <2>1. f \in Surjection(1..Len(s), NamesOf(s))
    BY DEF Surjection, NamesOf
  <2>2. Len(s) \in Nat /\ Len(s) <= MaxTools
    BY DEF GoodRegistry
  <2>3. IsFiniteSet(1..Len(s)) /\ Cardinality(1..Len(s)) = Len(s)
    BY <2>2, FS_Interval
  <2>4. IsFiniteSet(NamesOf(s)) /\ Cardinality(NamesOf(s)) <= Len(s)
    BY <2>1, <2>3, FS_Surjection
  <2>5. Cardinality(NamesOf(s)) \in Nat
    BY <2>4, FS_CardinalityType
  <2>. QED
    BY <2>2, <2>4, <2>5, MaxToolsAssumption
<1>. QED
  BY <1>1, <1>2, <1>3

(* The mapping is Map of the array.                                      *)
LEMMA RegMapIsMap == RegMap = Map(tools) /\ RegMap' = Map(tools')
BY DEF RegMap, Map, NamesOf


(* A step that only appends to a consistent array, and leaves the last   *)
(* call and its result alone, is a Register step of ToolMap.             *)
LEMMA AppendRefines ==
    ASSUME GoodRegistry(tools), GoodRegistry(tools'), Prefix(tools, tools'),
           result' = result, called' = called
    PROVE  TM!Register
<1>1. NamesOf(tools') \in SUBSET Names /\ RegMap' \in [NamesOf(tools') -> Executors]
  BY MapType, RegMapIsMap
<1>2. DOMAIN RegMap = NamesOf(tools) /\ DOMAIN RegMap' = NamesOf(tools')
  BY RegMapIsMap DEF Map
<1>3. /\ DOMAIN RegMap \subseteq DOMAIN RegMap'
      /\ \A n \in DOMAIN RegMap : RegMap'[n] = RegMap[n]
  BY <1>2, MapExtends, RegMapIsMap DEF GoodRegistry
<1>4. Cardinality(DOMAIN RegMap') <= MaxTools
  BY <1>2, MapType
<1>5. TM!Cardinality(DOMAIN RegMap') = Cardinality(DOMAIN RegMap')
  BY DEF TM!Cardinality, Cardinality
<1>. QED
  BY <1>1, <1>3, <1>4, <1>5 DEF TM!Register

(* A step that leaves the array, the last call and its result alone is a *)
(* stuttering step of ToolMap.                                            *)
LEMMA StutterRefines ==
    ASSUME tools' = tools, result' = result, called' = called
    PROVE  UNCHANGED TM!mvars
BY DEF TM!mvars, RegMap

(* The answer to a call of neuronos_tool_execute is the abstract one.    *)
LEMMA ExecuteRefines ==
    ASSUME IInv, NEW n \in CallNames \cup {Null}, NEW a \in ArgShapes, Execute(n, a)
    PROVE  TM!Call(n)
<1>0. GoodRegistry(tools)
  BY DEF IInv, TypeOK, NamesUnique, NoNullNames, GoodRegistry, Unique
<1>1. RegMap' = RegMap /\ called' = n
  BY DEF Execute, RegMap
<1>2. DOMAIN RegMap = NamesOf(tools)
  BY RegMapIsMap DEF Map
<1>3. n \in NamesOf(tools) <=> IsRegistered(n)
  BY DEF NamesOf, IsRegistered
<1>4. result'.by = IF n \in DOMAIN RegMap THEN RegMap[n] ELSE "registry"
  <2>1. CASE n = Null
    <3>1. ~IsRegistered(n)
      BY <2>1, <1>0 DEF IsRegistered, GoodRegistry, NoNull
    <3>2. result'.by = "registry"
      BY <2>1 DEF Execute, R
    <3>. QED
      BY <1>2, <1>3, <3>1, <3>2
  <2>2. CASE n # Null /\ FindTool(n) = 0
    <3>1. ~IsRegistered(n)
      BY <2>2, <1>0, FindToolFound DEF GoodRegistry
    <3>2. result'.by = "registry"
      BY <2>2 DEF Execute, R
    <3>. QED
      BY <1>2, <1>3, <3>1, <3>2
  <2>3. CASE n # Null /\ FindTool(n) # 0
    <3>. DEFINE k == FindTool(n)
    <3>1. IsRegistered(n) /\ k \in 1..Len(tools) /\ tools[k].name = n
      BY <2>3, <1>0, FindToolFound DEF GoodRegistry
    <3>a. tools[k] \in Desc
      BY <3>1, <1>0 DEF GoodRegistry
    <3>2. tools[k].exec \in Executors
      BY <3>a DEF Desc
    <3>3. PICK o \in Outcomes(tools[k].exec, a) : result' = o.res
      BY <2>3 DEF Execute
    <3>4. result'.by = tools[k].exec
      BY <3>2, <3>3, OutcomesType DEF GoodOutcomes
    <3>5. (CHOOSE i \in 1..Len(tools) : tools[i].name = n) = k
      BY <3>1, <1>0, ChooseUnique DEF GoodRegistry
    <3>6. n \in DOMAIN RegMap /\ RegMap[n] = tools[k].exec
      BY <1>2, <1>3, <3>1, <3>5 DEF RegMap
    <3>. QED
      BY <3>4, <3>6
  <2>. QED
    BY <2>1, <2>2, <2>3
<1>. QED
  BY <1>1, <1>4 DEF TM!Call

(* Every behaviour of the registry is a behaviour of ToolMap under the   *)
(* mapping RegMap: the array, neuronos_tool_register's capacity and      *)
(* duplicate tests and neuronos_tool_execute's linear search implement a *)
(* bounded map from names to executors, for every capacity, grant and    *)
(* set of host descriptors.                                               *)
THEOREM ImplementsToolMapHolds == Spec => ImplementsToolMap
<1>1. Init => TM!Init
  <2>. SUFFICES ASSUME Init PROVE TM!Init
    OBVIOUS
  <2>1. NamesOf(tools) = {}
    BY DEF Init, NamesOf
  <2>2. RegMap = [n \in {} |-> Null]
    BY <2>1, RegMapIsMap DEF Map
  <2>. QED
    BY <2>2 DEF Init, NoResult, TM!Init
<1>2. IInv /\ IInv' /\ [Next]_vars => [TM!Next]_TM!mvars
  <2>. SUFFICES ASSUME IInv, IInv', [Next]_vars PROVE [TM!Next]_TM!mvars
    OBVIOUS
  <2>0. GoodRegistry(tools) /\ GoodRegistry(tools')
    BY DEF IInv, TypeOK, NamesUnique, NoNullNames, GoodRegistry, Unique
  <2>1. ASSUME NEW d \in UserDescs, Register(d) PROVE TM!Next
    <3>1. Prefix(tools, tools')
      BY <2>1, <2>0, RegisteredPrefix, UserDescsAssumption DEF Register, GoodRegistry
    <3>. QED
      BY <2>0, <2>1, <3>1, AppendRefines DEF Register, TM!Next
  <2>2. CASE RegisterDefaults
    <3>. DEFINE r1 == IF "SHELL" \in Granted THEN Registered(tools, ShellDesc)
                      ELSE tools
                r2 == IF "FILESYSTEM" \in Granted
                      THEN Registered(Registered(r1, ReadDesc), WriteDesc)
                      ELSE r1
    <3>0. ASSUME NEW r, GoodRegistry(r), NEW d \in {ShellDesc, ReadDesc, WriteDesc, CalcDesc}
          PROVE  GoodRegistry(Registered(r, d)) /\ Prefix(r, Registered(r, d))
      BY <3>0, RegisteredGood, RegisteredPrefix, BuiltinsAreDescs DEF GoodRegistry
    <3>r. ASSUME NEW r, GoodRegistry(r) PROVE Prefix(r, r)
      BY <3>r DEF Prefix
    <3>1. GoodRegistry(r1) /\ Prefix(tools, r1)
      <4>1. CASE "SHELL" \in Granted
        BY <4>1, <2>0, <3>0
      <4>2. CASE "SHELL" \notin Granted
        BY <4>2, <2>0, <3>r
      <4>. QED
        BY <4>1, <4>2
    <3>2. GoodRegistry(r2) /\ Prefix(r1, r2)
      <4>1. CASE "FILESYSTEM" \in Granted
        <5>1. GoodRegistry(Registered(r1, ReadDesc)) /\ Prefix(r1, Registered(r1, ReadDesc))
          BY <3>1, <3>0
        <5>2. GoodRegistry(r2) /\ Prefix(Registered(r1, ReadDesc), r2)
          BY <4>1, <5>1, <3>0
        <5>3. Prefix(r1, r2)
          BY <5>1, <5>2 DEF Prefix, GoodRegistry
        <5>. QED
          BY <5>2, <5>3
      <4>2. CASE "FILESYSTEM" \notin Granted
        BY <4>2, <3>1, <3>r
      <4>. QED
        BY <4>1, <4>2
    <3>3. GoodRegistry(r2) /\ Prefix(tools, r2)
      BY <2>0, <3>1, <3>2, PrefixTrans DEF GoodRegistry
    <3>4. tools' = Registered(r2, CalcDesc) /\ result' = result /\ called' = called
      BY <2>2 DEF RegisterDefaults
    <3>5. Prefix(tools, tools')
      BY <2>0, <3>3, <3>4, <3>0, PrefixTrans DEF GoodRegistry
    <3>. QED
      BY <2>0, <3>4, <3>5, AppendRefines DEF TM!Next
  <2>3. ASSUME NEW n \in CallNames \cup {Null}, NEW a \in ArgShapes, Execute(n, a)
        PROVE  TM!Next
    BY <2>3, ExecuteRefines, CallNamesAssumption DEF TM!Next
  <2>4. CASE GrammarNames \/ PromptDescription
    BY <2>4, StutterRefines DEF GrammarNames, PromptDescription
  <2>5. CASE UNCHANGED vars
    BY <2>5, StutterRefines DEF vars
  <2>. QED
    BY <2>1, <2>2, <2>3, <2>4, <2>5 DEF Next
<1>3. Spec => []IInv
  BY InitIInv, NextIInv, PTL DEF Spec
<1>. QED
  BY <1>1, <1>2, <1>3, PTL DEF Spec, ImplementsToolMap, TM!Spec

====
