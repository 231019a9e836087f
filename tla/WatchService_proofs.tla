--------------------------- MODULE WatchService_proofs ---------------------------
(***************************************************************************)
(* Proofs about the guard process: the types, that no module is lost track   *)
(* of, and that modules are told to close in order.                          *)
(*                                                                         *)
(* A pass over the modules is a recursive function of the number of modules *)
(* visited.  The first part proves that these functions satisfy their        *)
(* equations and that a pass stays in every set of tables that the visit of  *)
(* a module does not leave; the second part says what a visit does.          *)
(***************************************************************************)
EXTENDS WatchService, InductionLemmas

\* What mods holds of a module, and the tables of the modules.
Record == [need : BOOLEAN, previous : BOOLEAN, starts : Nat, misses : {0, 1},
           proc : {"off", "starting", "up"}, age : 0 .. 2, told : BOOLEAN, hung : BOOLEAN]
Table == [Modules -> Record]

-----------------------------------------------------------------------------
(* The passes. *)

\* Every module visited is one of the modules.
LEMMA OrderType ==
  Len(Order) \in Nat /\ \A i \in 1 .. Len(Order) : Order[i] \in Modules
BY OrderAssumption

\* A set of tables after each module of a pass that visits them in order; visit[i]
\* gives the outcomes of the visit of the i-th.
LEMMA PassExists ==
  ASSUME NEW s \in Table, NEW visit \in [1 .. Len(Order) -> [Table -> SUBSET Table]]
  PROVE  \E pass \in [0 .. Len(Order) -> SUBSET Table] :
           /\ pass[0] = {s}
           /\ \A i \in 1 .. Len(Order) : pass[i] = UNION {visit[i][t] : t \in pass[i - 1]}
<1> DEFINE F == [i \in 1 .. Len(Order) |->
                   [S \in SUBSET Table |-> UNION {visit[i][t] : t \in S}]]
<1>1. \A i \in 1 .. Len(Order) : \A S \in SUBSET Table :
        UNION {visit[i][t] : t \in S} \in SUBSET Table
  OBVIOUS
<1>2. F \in [1 .. Len(Order) -> [SUBSET Table -> SUBSET Table]]
  BY <1>1
<1>3. {s} \in SUBSET Table
  OBVIOUS
<1>4. \A i \in 1 .. Len(Order) : \A S \in SUBSET Table :
        F[i][S] = UNION {visit[i][t] : t \in S}
  OBVIOUS
<1> HIDE DEF F
<1>5. PICK g \in [0 .. Len(Order) -> SUBSET Table] : Follows(g, Len(Order), {s}, F)
  BY <1>2, <1>3, OrderType, RecursionUpTo
<1> USE <1>5 DEF Follows
<1>6. ASSUME NEW i \in 1 .. Len(Order)
      PROVE  g[i] = UNION {visit[i][t] : t \in g[i - 1]}
  <2>1. i - 1 \in 0 .. Len(Order)
    BY OrderType
  <2> DEFINE S == g[i - 1]
  <2>2. S \in SUBSET Table
    BY <2>1
  <2>3. S = g[i - 1]
    OBVIOUS
  <2> HIDE DEF S
  <2> QED
    BY <2>2, <2>3, <1>4, <1>5
<1> QED
  BY <1>5, <1>6

\* The passes as the module defines them: the functions the recursion chooses.
CheckPass(s) ==
  CHOOSE pass : pass =
    [i \in 0 .. Len(Order) |->
       IF i = 0 THEN {s} ELSE {CheckModule(t, Order[i]) : t \in pass[i - 1]}]

ClosePass(s) ==
  CHOOSE pass : pass =
    [i \in 0 .. Len(Order) |->
       IF i = 0 THEN {s} ELSE {Close(t, Order[i], FALSE) : t \in pass[i - 1]}]

Return(s, m) ==
  IF m \in AutoStart /\ ~s[m].need
  THEN Checked([s EXCEPT ![m].need = TRUE, ![m].starts = 0])
  ELSE {s}

ReturnPass(s) ==
  CHOOSE pass : pass =
    [i \in 0 .. Len(Order) |->
       IF i = 0 THEN {s} ELSE UNION {Return(t, Order[i]) : t \in pass[i - 1]}]

\* What the operators of the module are in terms of these functions.
LEMMA PassesUnfold ==
  /\ \A s : Checked(s) = CheckPass(s)[Len(Order)]
  /\ \A s : CloseInOrder(s) =
              {[t EXCEPT ![Updater].told = Running(t[Updater])] : t \in ClosePass(s)[Len(Order)]}
  /\ ReturnModules =
       IF \A m \in AutoStart : mods[m].need
       THEN UNCHANGED <<mods, ghosts>>
       ELSE /\ mods' \in ReturnPass(mods)[Len(Order)]
            /\ early' = (early \/ pauses > 0)
            /\ orderly' = FALSE
            /\ UNCHANGED doubled
BY DEF Checked, CloseInOrder, ReturnModules, CheckPass, ClosePass, ReturnPass, Return

\* The fields of a module whose process has ended.
LEMMA EndedFields ==
  ASSUME NEW r \in Record
  PROVE  /\ Ended(r) \in Record
         /\ Ended(r).proc = "off" /\ Ended(r).told = FALSE /\ Ended(r).need = r.need
<1> DEFINE off    == [r EXCEPT !.proc = "off"]
           young  == [off EXCEPT !.age = 0]
           untold == [young EXCEPT !.told = FALSE]
<1>1. off \in Record
  BY DEF Record
<1> HIDE DEF off
<1>2. young \in Record
  BY <1>1 DEF Record
<1> HIDE DEF young
<1>3. untold \in Record
  BY <1>2 DEF Record
<1> HIDE DEF untold
<1>4. [untold EXCEPT !.hung = FALSE] \in Record
  BY <1>3 DEF Record
<1>5. Ended(r) = [untold EXCEPT !.hung = FALSE]
  BY DEF Ended, off, young, untold
<1>6. Ended(r).proc = "off" /\ Ended(r).told = FALSE /\ Ended(r).need = r.need
  BY DEF Ended, Record
<1> QED
  BY <1>4, <1>5, <1>6

\* A visit keeps the types of the tables.
LEMMA CloseType ==
  ASSUME NEW s \in Table, NEW m \in Modules, NEW b \in BOOLEAN
  PROVE  Close(s, m, b) \in Table
<1>1. s[m] \in Record
  BY DEF Table
<1>2. [Ended(s[m]) EXCEPT !.need = FALSE] \in Record
  BY <1>1, EndedFields DEF Record
<1>3. [s EXCEPT ![m] = [Ended(@) EXCEPT !.need = FALSE]] \in Table
  BY <1>2 DEF Table
<1>4. [s EXCEPT ![m].need = FALSE] \in Table
  BY DEF Table, Record
<1>5. [s EXCEPT ![m].need = FALSE, ![m].told = TRUE] \in Table
  <2> DEFINE r == [s[m] EXCEPT !.need = FALSE, !.told = TRUE]
  <2>1. r \in Record
    BY <1>1 DEF Record
  <2>2. [s EXCEPT ![m].need = FALSE, ![m].told = TRUE] = [s EXCEPT ![m] = r]
    BY DEF Table
  <2> HIDE DEF r
  <2> QED
    BY <2>1, <2>2 DEF Table
<1> QED
  BY <1>3, <1>4, <1>5 DEF Close

LEMMA CheckModuleType ==
  ASSUME NEW s \in Table, NEW m \in Modules
  PROVE  CheckModule(s, m) \in Table
<1>1. CASE ~s[m].need
  BY <1>1, CloseType DEF CheckModule
<1>2. CASE s[m].need /\ Running(s[m])
  <2>1. Watch(s[m]) \in Record
    <3>1. s[m] \in Record
      BY DEF Table
    <3>2. [Ended(s[m]) EXCEPT !.misses = 0] \in Record
      BY <3>1, EndedFields DEF Record
    <3>3. [s[m] EXCEPT !.misses = 0] \in Record /\ [s[m] EXCEPT !.misses = 1] \in Record
      BY <3>1 DEF Record
    <3> QED
      BY <3>1, <3>2, <3>3 DEF Watch
  <2>2. CheckModule(s, m) = [s EXCEPT ![m] = Watch(@)]
    BY <1>2 DEF CheckModule
  <2> QED
    BY <2>1, <2>2 DEF Table
<1>3. CASE s[m].need /\ ~Running(s[m])
  <2>1. CheckModule(s, m) = StartIfPossible(s, m)
    BY <1>3 DEF CheckModule
  <2>2. Started(s[m], m) \in Record
    <3>1. Ended(s[m]) \in Record /\ MaxStarts[m] \in Nat
      BY EndedFields, SettingsAssumption DEF Table
    <3> DEFINE up == [Ended(s[m]) EXCEPT !.proc = "starting"]
               n  == IF MaxStarts[m] > 0 THEN up.starts + 1 ELSE 0
    <3>2. up \in Record
      BY <3>1 DEF Record
    <3>3. Started(s[m], m) = [up EXCEPT !.starts = n]
      BY <3>1 DEF Started, Record
    <3> HIDE DEF up
    <3>4. n \in Nat
      BY <3>1, <3>2 DEF Record
    <3> HIDE DEF n
    <3> QED
      BY <3>2, <3>3, <3>4 DEF Record
  <2>3. GiveUp(s, m) \in Table
    BY DEF GiveUp, Record, Table
  <2>4. [s EXCEPT ![m] = Started(@, m)] \in Table
    BY <2>2 DEF Table
  <2> QED
    BY <2>1, <2>3, <2>4 DEF StartIfPossible
<1> QED
  BY <1>1, <1>2, <1>3

-----------------------------------------------------------------------------
(* The functions satisfy their equations. *)

\* onCheckModules(): the pass of checks.
LEMMA CheckPassDef ==
  ASSUME NEW s \in Table
  PROVE  /\ CheckPass(s)[0] = {s}
         /\ \A i \in 1 .. Len(Order) :
              CheckPass(s)[i] = {CheckModule(t, Order[i]) : t \in CheckPass(s)[i - 1]}
<1> DEFINE Step(pass) == [i \in 0 .. Len(Order) |->
                            IF i = 0 THEN {s} ELSE {CheckModule(t, Order[i]) : t \in pass[i - 1]}]
           visit == [i \in 1 .. Len(Order) |-> [t \in Table |-> {CheckModule(t, Order[i])}]]
<1>1. \A i \in 1 .. Len(Order) : \A t \in Table : {CheckModule(t, Order[i])} \in SUBSET Table
  BY OrderType, CheckModuleType
<1>2. visit \in [1 .. Len(Order) -> [Table -> SUBSET Table]]
  BY <1>1
<1>3. \A i \in 1 .. Len(Order) : \A t \in Table : visit[i][t] = {CheckModule(t, Order[i])}
  OBVIOUS
<1> HIDE DEF visit
<1>4. PICK pass \in [0 .. Len(Order) -> SUBSET Table] :
        /\ pass[0] = {s}
        /\ \A i \in 1 .. Len(Order) : pass[i] = UNION {visit[i][t] : t \in pass[i - 1]}
  BY <1>2, PassExists
<1>5. ASSUME NEW i \in 0 .. Len(Order)
      PROVE  pass[i] = IF i = 0 THEN {s} ELSE {CheckModule(t, Order[i]) : t \in pass[i - 1]}
  <2>1. CASE i = 0
    BY <2>1, <1>4
  <2>2. CASE i # 0
    <3>1. i \in 1 .. Len(Order) /\ pass[i - 1] \in SUBSET Table
      BY <2>2, OrderType
    <3>2. \A t \in pass[i - 1] : visit[i][t] = {CheckModule(t, Order[i])}
      BY <3>1, <1>3
    <3> QED
      BY <3>1, <3>2, <1>4, <2>2
  <2> QED
    BY <2>1, <2>2
<1>6. pass = Step(pass)
  BY <1>5
<1>7. CheckPass(s) = Step(CheckPass(s))
  BY <1>6 DEF CheckPass
<1> HIDE DEF Step
<1>8. \A i \in 0 .. Len(Order) :
        Step(CheckPass(s))[i] = IF i = 0 THEN {s} ELSE {CheckModule(t, Order[i]) : t \in CheckPass(s)[i - 1]}
  BY DEF Step
<1>9. 0 \in 0 .. Len(Order) /\ \A i \in 1 .. Len(Order) : i \in 0 .. Len(Order) /\ i # 0
  BY OrderType
<1> DEFINE chosen == CheckPass(s)
<1>10. chosen[0] = {s}
  BY <1>7, <1>8, <1>9
<1>11. ASSUME NEW i \in 1 .. Len(Order)
       PROVE  chosen[i] = {CheckModule(t, Order[i]) : t \in chosen[i - 1]}
  BY <1>7, <1>8, <1>9
<1> QED
  BY <1>10, <1>11

\* doCloseModules(): the pass that closes.
LEMMA ClosePassDef ==
  ASSUME NEW s \in Table
  PROVE  /\ ClosePass(s)[0] = {s}
         /\ \A i \in 1 .. Len(Order) :
              ClosePass(s)[i] = {Close(t, Order[i], FALSE) : t \in ClosePass(s)[i - 1]}
<1> DEFINE Step(pass) == [i \in 0 .. Len(Order) |->
                            IF i = 0 THEN {s} ELSE {Close(t, Order[i], FALSE) : t \in pass[i - 1]}]
           visit == [i \in 1 .. Len(Order) |-> [t \in Table |-> {Close(t, Order[i], FALSE)}]]
<1>1. \A i \in 1 .. Len(Order) : \A t \in Table : {Close(t, Order[i], FALSE)} \in SUBSET Table
  BY OrderType, CloseType
<1>2. visit \in [1 .. Len(Order) -> [Table -> SUBSET Table]]
  BY <1>1
<1>3. \A i \in 1 .. Len(Order) : \A t \in Table : visit[i][t] = {Close(t, Order[i], FALSE)}
  OBVIOUS
<1> HIDE DEF visit
<1>4. PICK pass \in [0 .. Len(Order) -> SUBSET Table] :
        /\ pass[0] = {s}
        /\ \A i \in 1 .. Len(Order) : pass[i] = UNION {visit[i][t] : t \in pass[i - 1]}
  BY <1>2, PassExists
<1>5. ASSUME NEW i \in 0 .. Len(Order)
      PROVE  pass[i] = IF i = 0 THEN {s} ELSE {Close(t, Order[i], FALSE) : t \in pass[i - 1]}
  <2>1. CASE i = 0
    BY <2>1, <1>4
  <2>2. CASE i # 0
    <3>1. i \in 1 .. Len(Order) /\ pass[i - 1] \in SUBSET Table
      BY <2>2, OrderType
    <3>2. \A t \in pass[i - 1] : visit[i][t] = {Close(t, Order[i], FALSE)}
      BY <3>1, <1>3
    <3>3. pass[i] = UNION {visit[i][t] : t \in pass[i - 1]}
      BY <3>1, <1>4
    <3> DEFINE closed(t) == Close(t, Order[i], FALSE)
    <3>4. pass[i] = {closed(t) : t \in pass[i - 1]}
      <4>1. \A t \in pass[i - 1] : visit[i][t] = {closed(t)}
        BY <3>2
      <4> HIDE DEF closed
      <4> QED
        BY <3>3, <4>1
    <3>5. pass[i] = {Close(t, Order[i], FALSE) : t \in pass[i - 1]}
      BY <3>4
    <3> QED
      BY <3>5, <2>2
  <2> QED
    BY <2>1, <2>2
<1>6. pass = Step(pass)
  BY <1>5
<1>7. ClosePass(s) = Step(ClosePass(s))
  BY <1>6 DEF ClosePass
<1> HIDE DEF Step
<1>8. \A i \in 0 .. Len(Order) :
        Step(ClosePass(s))[i] = IF i = 0 THEN {s} ELSE {Close(t, Order[i], FALSE) : t \in ClosePass(s)[i - 1]}
  BY DEF Step
<1>9. 0 \in 0 .. Len(Order) /\ \A i \in 1 .. Len(Order) : i \in 0 .. Len(Order) /\ i # 0
  BY OrderType
<1> DEFINE chosen == ClosePass(s)
<1>10. chosen[0] = {s}
  BY <1>7, <1>8, <1>9
<1>11. ASSUME NEW i \in 1 .. Len(Order)
       PROVE  chosen[i] = {Close(t, Order[i], FALSE) : t \in chosen[i - 1]}
  BY <1>7, <1>8, <1>9
<1> QED
  BY <1>10, <1>11

\* A pass of checks stays in a set of tables that the check of a module does not leave.
LEMMA CheckedWithin ==
  ASSUME NEW Good \in SUBSET Table, NEW s \in Good,
         \A t \in Good : \A m \in Modules : CheckModule(t, m) \in Good
  PROVE  Checked(s) \subseteq Good
<1> DEFINE pass == CheckPass(s)
<1>1. pass[0] \subseteq Good
  BY CheckPassDef
<1>2. ASSUME NEW i \in 1 .. Len(Order), pass[i - 1] \subseteq Good
      PROVE  pass[i] \subseteq Good
  BY <1>2, CheckPassDef, OrderType
<1> HIDE DEF pass
<1>3. pass[Len(Order)] \subseteq Good
  BY <1>1, <1>2, OrderType, ClosedUpTo
<1> QED
  BY <1>3, PassesUnfold DEF pass

\* The same of a pass that closes; the updater is told at its end.
KeptByClose(Good) == \A t \in Good : \A m \in Modules : Close(t, m, FALSE) \in Good
UpdaterTold(Good) == {[t EXCEPT ![Updater].told = Running(t[Updater])] : t \in Good}

LEMMA ClosedWithin ==
  ASSUME NEW Good \in SUBSET Table, NEW s \in Good, KeptByClose(Good)
  PROVE  CloseInOrder(s) \subseteq UpdaterTold(Good)
<1> DEFINE pass == ClosePass(s)
<1>1. pass[0] \subseteq Good
  <2>1. pass[0] = {s}
    BY ClosePassDef
  <2> QED
    BY <2>1
<1>2. ASSUME NEW i \in 1 .. Len(Order), pass[i - 1] \subseteq Good
      PROVE  pass[i] \subseteq Good
  <2>1. pass[i] = {Close(t, Order[i], FALSE) : t \in pass[i - 1]}
    BY ClosePassDef
  <2> HIDE DEF pass
  <2> QED
    BY <1>2, <2>1, OrderType DEF KeptByClose
<1> HIDE DEF pass
<1>3. pass[Len(Order)] \subseteq Good
  BY <1>1, <1>2, OrderType, ClosedUpTo
<1> QED
  BY <1>3, PassesUnfold DEF pass, UpdaterTold

\* The tables are closed under a pass of checks.
LEMMA CheckedType ==
  ASSUME NEW s \in Table
  PROVE  Checked(s) \subseteq Table
BY CheckModuleType, CheckedWithin

\* The return of a module keeps the types.
LEMMA ReturnType ==
  ASSUME NEW s \in Table, NEW m \in Modules
  PROVE  Return(s, m) \in SUBSET Table
<1>1. [s EXCEPT ![m].need = TRUE, ![m].starts = 0] \in Table
  <2> DEFINE r == [s[m] EXCEPT !.need = TRUE, !.starts = 0]
  <2>1. s[m] \in Record
    BY DEF Table
  <2>2. r \in Record
    BY <2>1 DEF Record
  <2>3. [s EXCEPT ![m].need = TRUE, ![m].starts = 0] = [s EXCEPT ![m] = r]
    BY DEF Table
  <2> HIDE DEF r
  <2> QED
    BY <2>2, <2>3 DEF Table
<1> QED
  BY <1>1, CheckedType DEF Return

\* checkAutoStartModules(): the pass that looks for modules to return.
LEMMA ReturnPassDef ==
  ASSUME NEW s \in Table
  PROVE  /\ ReturnPass(s)[0] = {s}
         /\ \A i \in 1 .. Len(Order) :
              ReturnPass(s)[i] = UNION {Return(t, Order[i]) : t \in ReturnPass(s)[i - 1]}
<1> DEFINE Step(pass) == [i \in 0 .. Len(Order) |->
                            IF i = 0 THEN {s} ELSE UNION {Return(t, Order[i]) : t \in pass[i - 1]}]
           visit == [i \in 1 .. Len(Order) |-> [t \in Table |-> Return(t, Order[i])]]
<1>1. \A i \in 1 .. Len(Order) : \A t \in Table : Return(t, Order[i]) \in SUBSET Table
  BY OrderType, ReturnType
<1>2. visit \in [1 .. Len(Order) -> [Table -> SUBSET Table]]
  BY <1>1
<1>3. \A i \in 1 .. Len(Order) : \A t \in Table : visit[i][t] = Return(t, Order[i])
  OBVIOUS
<1> HIDE DEF visit
<1>4. PICK pass \in [0 .. Len(Order) -> SUBSET Table] :
        /\ pass[0] = {s}
        /\ \A i \in 1 .. Len(Order) : pass[i] = UNION {visit[i][t] : t \in pass[i - 1]}
  BY <1>2, PassExists
<1>5. ASSUME NEW i \in 0 .. Len(Order)
      PROVE  pass[i] = IF i = 0 THEN {s} ELSE UNION {Return(t, Order[i]) : t \in pass[i - 1]}
  <2>1. CASE i = 0
    BY <2>1, <1>4
  <2>2. CASE i # 0
    <3>1. i \in 1 .. Len(Order) /\ pass[i - 1] \in SUBSET Table
      BY <2>2, OrderType
    <3>2. \A t \in pass[i - 1] : visit[i][t] = Return(t, Order[i])
      BY <3>1, <1>3
    <3> QED
      BY <3>1, <3>2, <1>4, <2>2
  <2> QED
    BY <2>1, <2>2
<1>6. pass = Step(pass)
  BY <1>5
<1>7. ReturnPass(s) = Step(ReturnPass(s))
  BY <1>6 DEF ReturnPass
<1> HIDE DEF Step
<1>8. \A i \in 0 .. Len(Order) :
        Step(ReturnPass(s))[i] = IF i = 0 THEN {s} ELSE UNION {Return(t, Order[i]) : t \in ReturnPass(s)[i - 1]}
  BY DEF Step
<1>9. 0 \in 0 .. Len(Order) /\ \A i \in 1 .. Len(Order) : i \in 0 .. Len(Order) /\ i # 0
  BY OrderType
<1> DEFINE chosen == ReturnPass(s)
<1>10. chosen[0] = {s}
  BY <1>7, <1>8, <1>9
<1>11. ASSUME NEW i \in 1 .. Len(Order)
       PROVE  chosen[i] = UNION {Return(t, Order[i]) : t \in chosen[i - 1]}
  BY <1>7, <1>8, <1>9
<1> QED
  BY <1>10, <1>11

\* What checkAutoStartModules() ends with is a table.
LEMMA ReturnedType ==
  ASSUME NEW s \in Table
  PROVE  ReturnPass(s)[Len(Order)] \subseteq Table
<1> DEFINE pass == ReturnPass(s)
<1>1. pass[0] \subseteq Table
  BY ReturnPassDef
<1>2. ASSUME NEW i \in 1 .. Len(Order), pass[i - 1] \subseteq Table
      PROVE  pass[i] \subseteq Table
  BY <1>2, ReturnPassDef, ReturnType, OrderType
<1> HIDE DEF pass
<1> QED
  BY <1>1, <1>2, OrderType, ClosedUpTo DEF pass

-----------------------------------------------------------------------------
(* What a visit does. *)

\* ClosedInOrder of a table, and a table in which nothing is being closed.
InOrder(t) ==
  \A x, y \in Modules :
    ClosePriority[x] < ClosePriority[y] /\ y # Updater /\ t[y].told => ~Running(t[x])
Undisturbed(t) == \A m \in Modules : ~t[m].told /\ (Running(t[m]) => t[m].need)

\* closeModule() starts no process, and tells only the module it visits, if that
\* can be closed.
LEMMA CloseFields ==
  ASSUME NEW s \in Table, NEW m \in Modules, NEW b \in BOOLEAN, NEW x \in Modules
  PROVE  /\ Running(Close(s, m, b)[x]) => Running(s[x])
         /\ Close(s, m, b)[x].told => s[x].told \/ (x = m /\ (b \/ CanTerminate(s, m)))
<1>1. s[m] \in Record /\ s[x] \in Record
  BY DEF Table
<1> DEFINE killed == [Ended(s[m]) EXCEPT !.need = FALSE]
<1>2. killed.proc = "off" /\ killed.told = FALSE
  BY <1>1, EndedFields DEF Record
<1>3. [s EXCEPT ![m] = [Ended(@) EXCEPT !.need = FALSE]][x] = IF x = m THEN killed ELSE s[x]
  BY DEF Table
<1>4. /\ [s EXCEPT ![m].need = FALSE][x].proc = s[x].proc
      /\ [s EXCEPT ![m].need = FALSE][x].told = s[x].told
  BY <1>1 DEF Table, Record
<1>5. /\ [s EXCEPT ![m].need = FALSE, ![m].told = TRUE][x].proc = s[x].proc
      /\ x # m => [s EXCEPT ![m].need = FALSE, ![m].told = TRUE][x].told = s[x].told
  BY <1>1 DEF Table, Record
<1> HIDE DEF killed
<1> QED
  BY <1>2, <1>3, <1>4, <1>5 DEF Close, Running

\* A visit of a close sequence keeps the order.
LEMMA CloseKeepsOrder ==
  ASSUME NEW s \in Table, NEW m \in Modules, InOrder(s)
  PROVE  InOrder(Close(s, m, FALSE))
<1> DEFINE t == Close(s, m, FALSE)
<1> SUFFICES ASSUME NEW x \in Modules, NEW y \in Modules,
                    ClosePriority[x] < ClosePriority[y], y # Updater, t[y].told
             PROVE  ~Running(t[x])
  BY DEF InOrder
<1>1. s[y].told \/ CanTerminate(s, y)
  <2>1. FALSE \in BOOLEAN
    OBVIOUS
  <2>2. t[y].told => s[y].told \/ (y = m /\ (FALSE \/ CanTerminate(s, m)))
    BY <2>1, CloseFields
  <2> HIDE DEF t
  <2> QED
    BY <2>2
<1>2. ~Running(s[x])
  BY <1>1 DEF InOrder, CanTerminate
<1> QED
  BY <1>2, CloseFields

\* A check closes nothing as long as what runs is needed.
LEMMA CheckKeepsUndisturbed ==
  ASSUME NEW s \in Table, NEW m \in Modules, Undisturbed(s)
  PROVE  Undisturbed(CheckModule(s, m))
<1>1. s[m] \in Record
  BY DEF Table
<1>2. CASE ~s[m].need
  <2>1. ~Running(s[m])
    BY <1>2 DEF Undisturbed
  <2> QED
    BY <1>2, <2>1 DEF CheckModule, Close
<1>3. CASE s[m].need /\ Running(s[m])
  <2>1. Watch(s[m]).told = FALSE /\ Watch(s[m]).need = s[m].need
    <3>1. s[m].told = FALSE
      BY <1>1 DEF Undisturbed, Record
    <3> QED
      BY <1>1, <3>1, EndedFields DEF Watch, Record
  <2>2. CheckModule(s, m) = [s EXCEPT ![m] = Watch(s[m])]
    BY <1>3 DEF CheckModule
  <2> QED
    BY <1>3, <2>1, <2>2 DEF Undisturbed, Table
<1>4. CASE s[m].need /\ ~Running(s[m])
  <2>1. CheckModule(s, m) = StartIfPossible(s, m)
    BY <1>4 DEF CheckModule
  <2>2. CASE CanRun(s, m) /\ MaxStarts[m] > 0 /\ s[m].starts >= MaxStarts[m]
    <3>1. CheckModule(s, m) = GiveUp(s, m)
      BY <2>1, <2>2 DEF StartIfPossible
    <3>2. ASSUME NEW x \in Modules
          PROVE  ~GiveUp(s, m)[x].told /\ (Running(GiveUp(s, m)[x]) => GiveUp(s, m)[x].need)
      <4>1. s[x] \in Record /\ s[x].told = FALSE
        BY DEF Table, Record, Undisturbed
      <4>2. CASE x = m
        BY <4>1, <4>2, <1>4 DEF GiveUp, Record, Running
      <4>3. CASE x # m /\ m \in Exclusive /\ x \notin Exclusive
        <5>1. ~Running(s[x])
          BY <2>2, <4>3 DEF CanRun
        <5> QED
          BY <4>1, <4>3, <5>1 DEF GiveUp, Record, Running
      <4>4. CASE x # m /\ ~(m \in Exclusive /\ x \notin Exclusive)
        <5>1. GiveUp(s, m)[x] = s[x]
          BY <4>4 DEF GiveUp
        <5> QED
          BY <5>1 DEF Undisturbed
      <4> QED
        BY <4>2, <4>3, <4>4
    <3> QED
      BY <3>1, <3>2 DEF Undisturbed
  <2>3. CASE CanRun(s, m) /\ ~(MaxStarts[m] > 0 /\ s[m].starts >= MaxStarts[m])
    <3>1. CheckModule(s, m) = [s EXCEPT ![m] = Started(s[m], m)]
      BY <2>1, <2>3 DEF StartIfPossible
    <3>2. Ended(s[m]) \in Record /\ Ended(s[m]).told = FALSE /\ Ended(s[m]).need = s[m].need
      BY <1>1, EndedFields
    <3>3. Started(s[m], m).told = FALSE /\ Started(s[m], m).need = s[m].need
      BY <3>2 DEF Started, Record
    <3> QED
      BY <3>1, <3>3, <1>4 DEF Undisturbed, Table
  <2>4. CASE ~CanRun(s, m)
    BY <2>1, <2>4 DEF StartIfPossible
  <2> QED
    BY <2>2, <2>3, <2>4
<1> QED
  BY <1>2, <1>3, <1>4

-----------------------------------------------------------------------------
(* The inductive invariant: with NobodyForgotten that a pending reinitialize()   *)
(* is the only one, nothing runs and no module is checked by the timer until it   *)
(* comes; with ClosedInOrder that nothing is being closed while the modules are   *)
(* checked.                                                                     *)

Paused ==
  pauses > 0 /\ ~early /\ ~doubled =>
    pauses = 1 /\ ~timer /\ \A m \in Modules : ~Running(mods[m])
Untold == orderly /\ timer => Undisturbed(mods)
IInv == TypeOK /\ NobodyForgotten /\ Paused /\ ClosedInOrder /\ Untold

LEMMA InitIInv == Init => IInv
<1> SUFFICES ASSUME Init
             PROVE  IInv
  OBVIOUS
<1>1. \A m \in Modules : Configured(m) \in Record
  BY DEF Configured, Record
<1>2. mods \in Table
  BY <1>1 DEF Init, Table
<1>3. TypeOK
  <2>1. {timer, server, quit, early, doubled, orderly} \subseteq BOOLEAN
    BY DEF Init
  <2>2. {chains, pauses, returns} \subseteq Nat
    BY DEF Init
  <2>3. bounds \in [commands : 0 .. MaxCommands, faults : 0 .. MaxFaults]
    BY BoundsAssumption DEF Init
  <2> QED
    BY <1>2, <2>1, <2>2, <2>3 DEF TypeOK, Init, Table, Record
<1>4. NobodyForgotten /\ Paused /\ ClosedInOrder /\ Untold
  BY DEF Init, NobodyForgotten, Paused, ClosedInOrder, Untold
<1> QED
  BY <1>3, <1>4 DEF IInv

\* The types in the form the proofs use.
LEMMA TypeFacts ==
  TypeOK <=> /\ mods \in Table
             /\ timer \in BOOLEAN /\ server \in BOOLEAN /\ quit \in BOOLEAN
             /\ early \in BOOLEAN /\ doubled \in BOOLEAN /\ orderly \in BOOLEAN
             /\ action \in {"none", "restart", "quit"}
             /\ chains \in Nat /\ pauses \in Nat /\ returns \in Nat
             /\ orphans \subseteq Modules
             /\ bounds \in [commands : 0 .. MaxCommands, faults : 0 .. MaxFaults]
BY DEF TypeOK, Table, Record

\* A step of a process: m gets the record r.
LEMMA ProcessStep ==
  ASSUME IInv, NEW m \in Modules, NEW r \in Record, Process(m, r),
         bounds' \in [commands : 0 .. MaxCommands, faults : 0 .. MaxFaults],
         Running(r) => Running(mods[m]),
         r.told => mods[m].told,
         r.need = mods[m].need
  PROVE  IInv'
<1> USE DEF IInv
<1>1. mods \in Table /\ mods' = [mods EXCEPT ![m] = r]
  BY TypeFacts DEF Process
<1>2. UNCHANGED <<server, action, timer, chains, pauses, returns, quit, orphans, early, doubled, orderly>>
  BY DEF Process, timers, ghosts
<1>3. mods' \in Table
  BY <1>1 DEF Table
<1>4. \A x \in Modules : /\ Running(mods'[x]) => Running(mods[x])
                         /\ mods'[x].told => mods[x].told
                         /\ mods'[x].need = mods[x].need
  BY <1>1 DEF Table
<1>5. TypeOK'
  BY <1>2, <1>3, TypeFacts DEF TypeOK, Table, Record
<1>6. NobodyForgotten' /\ Paused'
  BY <1>2, <1>4 DEF NobodyForgotten, Paused
<1>7. ClosedInOrder'
  BY <1>2, <1>4 DEF ClosedInOrder
<1>8. Untold'
  BY <1>2, <1>4 DEF Untold, Undisturbed
<1> QED
  BY <1>5, <1>6, <1>7, <1>8

\* Every step of a process is such a step, or the end of one the service has lost.
LEMMA ProcessesKeepIInv ==
  ASSUME IInv, NEW m \in Modules, Live(m) \/ Crash(m) \/ Hang(m) \/ GoOn(m)
  PROVE  IInv'
<1>1. TypeOK /\ mods[m] \in Record
  BY TypeFacts DEF IInv, Table
<1>2. Ended(mods[m]) \in Record /\ ~Running(Ended(mods[m])) /\ Ended(mods[m]).told = FALSE
      /\ Ended(mods[m]).need = mods[m].need
  BY <1>1, EndedFields DEF Running
<1>3. /\ bounds \in [commands : 0 .. MaxCommands, faults : 0 .. MaxFaults]
      /\ Fault => bounds' \in [commands : 0 .. MaxCommands, faults : 0 .. MaxFaults]
  <2>1. bounds \in [commands : 0 .. MaxCommands, faults : 0 .. MaxFaults]
    BY <1>1, TypeFacts
  <2> QED
    BY <2>1, BoundsAssumption DEF Fault
<1>4. CASE Answer(m)
  <2> DEFINE up == [mods[m] EXCEPT !.proc = "up"]
             r  == [up EXCEPT !.age = 0]
  <2>1. r \in Record /\ r.told = mods[m].told /\ r.need = mods[m].need
    <3>1. up \in Record /\ up.told = mods[m].told /\ up.need = mods[m].need
      BY <1>1 DEF Record
    <3> HIDE DEF up
    <3> QED
      BY <3>1 DEF Record
  <2>2. Running(mods[m]) /\ Process(m, r) /\ bounds' = bounds
    BY <1>4 DEF Answer
  <2> HIDE DEF r
  <2> QED
    BY <1>3, <2>1, <2>2, ProcessStep
<1>5. CASE Obey(m)
  BY <1>2, <1>3, <1>5, ProcessStep DEF Obey
<1>6. CASE Crash(m)
  BY <1>2, <1>3, <1>6, ProcessStep DEF Crash
<1>7. CASE Hang(m)
  <2> DEFINE r == [mods[m] EXCEPT !.hung = TRUE]
  <2>1. r \in Record /\ r.told = mods[m].told /\ r.need = mods[m].need /\ r.proc = mods[m].proc
    BY <1>1 DEF Record
  <2>2. Process(m, r) /\ Fault
    BY <1>7 DEF Hang
  <2> HIDE DEF r
  <2> QED
    BY <1>3, <2>1, <2>2, ProcessStep DEF Running
<1>8. CASE GoOn(m)
  <2> DEFINE r == [mods[m] EXCEPT !.hung = FALSE]
  <2>1. r \in Record /\ r.told = mods[m].told /\ r.need = mods[m].need /\ r.proc = mods[m].proc
    BY <1>1 DEF Record
  <2>2. Process(m, r) /\ bounds' = bounds
    BY <1>8 DEF GoOn
  <2> HIDE DEF r
  <2> QED
    BY <1>3, <2>1, <2>2, ProcessStep DEF Running
<1>9. CASE KeepSilent(m)
  <2> DEFINE r == [mods[m] EXCEPT !.age = @ + 1]
  <2>1. mods[m].age < 2
    BY <1>9 DEF KeepSilent
  <2>2. r \in Record /\ r.told = mods[m].told /\ r.need = mods[m].need /\ r.proc = mods[m].proc
    BY <1>1, <2>1 DEF Record
  <2>3. Process(m, r) /\ bounds' = bounds
    BY <1>9 DEF KeepSilent
  <2> HIDE DEF r
  <2> QED
    BY <1>3, <2>2, <2>3, ProcessStep DEF Running
<1>10. CASE OrphanEnds(m)
  <2>1. orphans' = orphans \ {m}
    BY <1>10 DEF OrphanEnds
  <2>2. UNCHANGED <<mods, server, action, timer, chains, pauses, returns, quit, early, doubled, orderly, bounds>>
    BY <1>10 DEF OrphanEnds, timers, ghosts
  <2>3. TypeOK'
    BY <1>1, <2>1, <2>2 DEF TypeOK
  <2>4. NobodyForgotten' /\ Paused' /\ ClosedInOrder' /\ Untold'
    BY <2>1, <2>2 DEF IInv, NobodyForgotten, Paused, ClosedInOrder, Untold
  <2> QED
    BY <2>3, <2>4 DEF IInv
<1> QED
  BY <1>4, <1>5, <1>6, <1>7, <1>8, <1>9, <1>10 DEF Live

\* initialize() leaves a table in which nothing runs.
LEMMA InitializeFields ==
  ASSUME TypeOK, NEW s \in Table, Initialize(s)
  PROVE  /\ mods' \in Table /\ orphans' \subseteq Modules
         /\ \A m \in Modules : ~Running(mods'[m]) /\ mods'[m].told = FALSE
         /\ (\A m \in Modules : ~Running(s[m])) => orphans' = orphans
<1>1. \A m \in Modules : Configured(m) \in Record /\ ~Running(Configured(m))
                         /\ Configured(m).told = FALSE
  BY DEF Configured, Record, Running
<1>2. mods' = [m \in Modules |-> Configured(m)]
  BY DEF Initialize
<1>3. orphans \subseteq Modules
  BY TypeFacts
<1> QED
  BY <1>1, <1>2, <1>3 DEF Initialize, Table

\* What doCloseModules() makes of a table: nothing is started, the order is kept.
LEMMA CloseOutcome ==
  ASSUME NEW s \in Table, NEW u \in CloseInOrder(s)
  PROVE  /\ u \in Table
         /\ \A x \in Modules : Running(u[x]) => Running(s[x])
         /\ InOrder(s) => InOrder(u)
<1> DEFINE Good == {t \in Table : /\ \A x \in Modules : Running(t[x]) => Running(s[x])
                                  /\ InOrder(s) => InOrder(t)}
<1>1. Good \in SUBSET Table /\ s \in Good
  OBVIOUS
<1>2. ASSUME NEW t \in Good, NEW m \in Modules
      PROVE  Close(t, m, FALSE) \in Good
  <2>1. FALSE \in BOOLEAN
    OBVIOUS
  <2>2. Close(t, m, FALSE) \in Table
    BY <2>1, CloseType
  <2>3. \A x \in Modules : Running(Close(t, m, FALSE)[x]) => Running(t[x])
    BY <2>1, CloseFields
  <2>4. InOrder(t) => InOrder(Close(t, m, FALSE))
    BY CloseKeepsOrder
  <2> QED
    BY <2>2, <2>3, <2>4
<1> HIDE DEF Good
<1>3. PICK t \in Good : u = [t EXCEPT ![Updater].told = Running(t[Updater])]
  <2>1. KeptByClose(Good)
    BY <1>2 DEF KeptByClose
  <2>2. u \in UpdaterTold(Good)
    BY <1>1, <2>1, ClosedWithin
  <2> QED
    BY <2>2 DEF UpdaterTold
<1>4. t \in Table /\ (\A x \in Modules : Running(t[x]) => Running(s[x]))
      /\ (InOrder(s) => InOrder(t))
  BY DEF Good
<1>5. Updater \in Modules
  BY ModulesAssumption
<1>6. u \in Table
  <2>1. [t[Updater] EXCEPT !.told = Running(t[Updater])] \in Record
    BY <1>4, <1>5 DEF Table, Record, Running
  <2>2. u = [t EXCEPT ![Updater] = [t[Updater] EXCEPT !.told = Running(t[Updater])]]
    BY <1>3
  <2> QED
    BY <1>4, <2>1, <2>2 DEF Table
<1>7. \A x \in Modules : u[x].proc = t[x].proc /\ (x # Updater => u[x].told = t[x].told)
  BY <1>3, <1>4, <1>5 DEF Table, Record
<1> QED
  BY <1>4, <1>6, <1>7 DEF InOrder, Running

\* doCloseModules() and closeAction() keep the invariant, whichever module is told,
\* killed or left, and whatever the action.
LEMMA CloseModulesStep ==
  ASSUME IInv, NEW s \in Table, NEW a \in {"none", "restart", "quit"}, NEW c \in Nat,
         CloseModules(s, a, c), UNCHANGED <<returns, early>>,
         bounds' \in [commands : 0 .. MaxCommands, faults : 0 .. MaxFaults],
         orderly' \in BOOLEAN,
         \A x \in Modules : Running(s[x]) => Running(mods[x]),
         orderly' => InOrder(s)
  PROVE  IInv'
<1>1. PICK u \in CloseInOrder(s) :
     /\ doubled' = (doubled \/ (AllClosed(u) /\ a # "quit" /\ pauses > 0))
     /\ \/ /\ ~AllClosed(u)
           /\ mods' = u /\ action' = a /\ chains' = c + 1
           /\ StopTimer
           /\ UNCHANGED <<server, pauses, quit, orphans>>
        \/ /\ AllClosed(u) /\ a = "none"
           /\ mods' = u /\ action' = a /\ chains' = c /\ pauses' = pauses + 1
           /\ StopTimer
           /\ UNCHANGED <<server, quit, orphans>>
        \/ /\ AllClosed(u) /\ a = "restart"
           /\ action' = "none" /\ chains' = c
           /\ Initialize(u)
           /\ timer' = TRUE
           /\ UNCHANGED <<server, pauses, quit>>
        \/ /\ AllClosed(u) /\ a = "quit"
           /\ mods' = u /\ action' = a /\ chains' = c /\ quit' = TRUE
           /\ StopTimer
           /\ UNCHANGED <<server, pauses, orphans>>
  BY DEF CloseModules
<1>2. /\ u \in Table
      /\ \A x \in Modules : Running(u[x]) => Running(s[x])
      /\ InOrder(s) => InOrder(u)
  BY CloseOutcome
<1> USE DEF IInv, StopTimer
<1>3. /\ server \in BOOLEAN /\ quit \in BOOLEAN /\ early \in BOOLEAN
      /\ doubled \in BOOLEAN /\ doubled' \in BOOLEAN /\ (doubled => doubled')
      /\ pauses \in Nat /\ returns \in Nat /\ orphans \subseteq Modules
  BY <1>1, TypeFacts
<1>4. CASE /\ mods' = u /\ action' = a /\ timer' = FALSE
           /\ chains' \in Nat /\ pauses' \in Nat
           /\ pauses' = pauses \/ (AllClosed(u) /\ pauses' = pauses + 1 /\ (pauses > 0 => doubled'))
           /\ quit' \in BOOLEAN
           /\ UNCHANGED <<server, orphans>>
  <2>1. TypeOK'
    BY <1>2, <1>3, <1>4 DEF TypeOK, Table, Record
  <2>2. NobodyForgotten' /\ Untold'
    BY <1>3, <1>4 DEF NobodyForgotten, Untold
  <2>3. Paused'
    BY <1>2, <1>3, <1>4 DEF Paused, AllClosed
  <2>4. ClosedInOrder'
    BY <1>2, <1>4 DEF ClosedInOrder, InOrder
  <2> QED
    BY <2>1, <2>2, <2>3, <2>4
<1>5. CASE AllClosed(u) /\ action' = "none" /\ chains' = c /\ Initialize(u)
           /\ (pauses > 0 => doubled') /\ timer' = TRUE /\ UNCHANGED <<server, pauses, quit>>
  <2>1. /\ mods' \in Table /\ orphans' = orphans
        /\ \A m \in Modules : ~Running(mods'[m]) /\ mods'[m].told = FALSE
    BY <1>2, <1>5, InitializeFields DEF AllClosed
  <2>2. TypeOK'
    BY <1>3, <1>5, <2>1 DEF TypeOK, Table, Record
  <2>3. NobodyForgotten' /\ Paused' /\ ClosedInOrder' /\ Untold'
    BY <2>1, <1>3, <1>5 DEF NobodyForgotten, Paused, ClosedInOrder, Untold, Undisturbed
  <2> QED
    BY <2>2, <2>3
<1>6. CASE ~AllClosed(u) /\ mods' = u /\ action' = a /\ chains' = c + 1 /\ timer' = FALSE
           /\ UNCHANGED <<server, pauses, quit, orphans>>
  <2>1. chains' \in Nat /\ pauses' \in Nat /\ quit' \in BOOLEAN
    BY <1>3, <1>6
  <2> QED
    BY <2>1, <1>4, <1>6
<1>7. CASE AllClosed(u) /\ mods' = u /\ action' = a /\ chains' = c /\ pauses' = pauses + 1
           /\ (pauses > 0 => doubled') /\ timer' = FALSE /\ UNCHANGED <<server, quit, orphans>>
  <2>1. chains' \in Nat /\ pauses' \in Nat /\ quit' \in BOOLEAN
    BY <1>3, <1>7
  <2> QED
    BY <2>1, <1>4, <1>7
<1>8. CASE AllClosed(u) /\ mods' = u /\ action' = a /\ chains' = c /\ quit' = TRUE
           /\ timer' = FALSE /\ UNCHANGED <<server, pauses, orphans>>
  <2>1. chains' \in Nat /\ pauses' \in Nat /\ quit' \in BOOLEAN
    BY <1>3, <1>8
  <2> QED
    BY <2>1, <1>4, <1>8
<1> HIDE DEF IInv
<1> QED
  BY <1>1, <1>5, <1>6, <1>7, <1>8

\* A pass of checks of a table in which nothing is being closed leaves such a table.
LEMMA CheckedUndisturbed ==
  ASSUME NEW s \in Table, Undisturbed(s), NEW u \in Checked(s)
  PROVE  Undisturbed(u)
<1> DEFINE Good == {t \in Table : Undisturbed(t)}
<1>1. Good \in SUBSET Table /\ s \in Good
  OBVIOUS
<1>2. \A t \in Good : \A m \in Modules : CheckModule(t, m) \in Good
  BY CheckModuleType, CheckKeepsUndisturbed
<1> HIDE DEF Good
<1>3. Checked(s) \subseteq Good
  BY <1>1, <1>2, CheckedWithin
<1> QED
  BY <1>3 DEF Good

LEMMA TickKeepsIInv == ASSUME IInv, Tick PROVE IInv'
<1> USE DEF IInv
<1>1. TypeOK /\ mods \in Table /\ timer
  BY TypeFacts DEF Tick
<1>2. /\ mods' \in Checked(mods) /\ orderly' = (orderly /\ chains > 0)
      /\ UNCHANGED <<server, action, timer, chains, pauses, returns, quit, orphans,
                     early, doubled, bounds>>
  BY DEF Tick, timers
<1>3. mods' \in Table
  BY <1>1, <1>2, CheckedType
<1>4. TypeOK'
  BY <1>1, <1>2, <1>3 DEF TypeOK, Table, Record
<1>5. NobodyForgotten' /\ Paused'
  BY <1>1, <1>2 DEF NobodyForgotten, Paused
<1>6. orderly' => Undisturbed(mods')
  <2>1. orderly' => Undisturbed(mods)
    BY <1>1, <1>2 DEF Untold
  <2> QED
    BY <2>1, <1>1, <1>2, CheckedUndisturbed
<1>7. ClosedInOrder' /\ Untold'
  BY <1>6 DEF ClosedInOrder, Untold, Undisturbed
<1> QED
  BY <1>4, <1>5, <1>7

\* A step that may check what it likes and breaks the order off.
LEMMA CheckOnRequest ==
  ASSUME IInv, mods' \in Table, early' = (early \/ pauses > 0), orderly' = FALSE,
         returns' \in Nat,
         bounds' \in [commands : 0 .. MaxCommands, faults : 0 .. MaxFaults],
         UNCHANGED <<server, action, timer, chains, pauses, quit, orphans, doubled>>
  PROVE  IInv'
<1> USE DEF IInv
<1>1. TypeOK'
  BY DEF TypeOK, Table, Record
<1>2. NobodyForgotten' /\ Paused'
  BY TypeFacts DEF NobodyForgotten, Paused
<1>3. ClosedInOrder' /\ Untold'
  BY DEF ClosedInOrder, Untold
<1> QED
  BY <1>1, <1>2, <1>3

LEMMA CheckAutoStartModulesKeepsIInv == ASSUME IInv, CheckAutoStartModules PROVE IInv'
<1>1. TypeOK /\ mods \in Table
  BY TypeFacts DEF IInv
<1>2. returns' \in Nat
      /\ bounds' \in [commands : 0 .. MaxCommands, faults : 0 .. MaxFaults]
      /\ UNCHANGED <<server, action, timer, chains, pauses, quit, orphans>>
  BY <1>1, TypeFacts DEF CheckAutoStartModules
<1>3. CASE UNCHANGED <<mods, ghosts>>
  <2>1. UNCHANGED <<mods, early, doubled, orderly>>
    BY <1>3 DEF ghosts
  <2>2. TypeOK'
    BY <1>1, <1>2, <2>1 DEF TypeOK
  <2>3. NobodyForgotten' /\ Paused' /\ ClosedInOrder' /\ Untold'
    BY <1>2, <2>1 DEF IInv, NobodyForgotten, Paused, ClosedInOrder, Untold
  <2> QED
    BY <2>2, <2>3 DEF IInv
<1>4. CASE /\ mods' \in ReturnPass(mods)[Len(Order)]
           /\ early' = (early \/ pauses > 0) /\ orderly' = FALSE /\ UNCHANGED doubled
  <2>1. mods' \in Table
    BY <1>1, <1>4, ReturnedType
  <2> QED
    BY <1>2, <1>4, <2>1, CheckOnRequest
<1> QED
  BY <1>3, <1>4, PassesUnfold DEF CheckAutoStartModules

\* A command is counted within its bound.
LEMMA CommandBounds ==
  ASSUME TypeOK, Command
  PROVE  bounds' \in [commands : 0 .. MaxCommands, faults : 0 .. MaxFaults]
<1>1. bounds \in [commands : 0 .. MaxCommands, faults : 0 .. MaxFaults]
  BY TypeFacts
<1> QED
  BY <1>1, BoundsAssumption DEF Command

LEMMA StartModuleKeepsIInv ==
  ASSUME IInv, NEW m \in Modules, StartModule(m)
  PROVE  IInv'
<1>1. TypeOK /\ mods \in Table
  BY TypeFacts DEF IInv
<1> DEFINE asked(x) == IF m \in Exclusive
                       THEN [mods[x] EXCEPT !.previous = mods[x].need, !.need = FALSE]
                       ELSE mods[x]
           s == [x \in Modules |->
                   IF x = m THEN [asked(x) EXCEPT !.need = TRUE, !.starts = 0] ELSE asked(x)]
<1>2. mods' \in Checked(s) /\ early' = (early \/ pauses > 0) /\ orderly' = FALSE
      /\ Command /\ UNCHANGED <<server, action, timer, chains, pauses, returns, quit, orphans, doubled>>
  BY DEF StartModule, CheckOnCommand, timers
<1>3. s \in Table
  <2>1. ASSUME NEW x \in Modules
        PROVE  /\ asked(x) \in Record
               /\ [asked(x) EXCEPT !.need = TRUE, !.starts = 0] \in Record
    <3>1. mods[x] \in Record
      BY <1>1 DEF Table
    <3>2. asked(x) \in Record
      BY <3>1 DEF Record
    <3> HIDE DEF asked
    <3> QED
      BY <3>2 DEF Record
  <2> HIDE DEF asked
  <2> QED
    BY <2>1 DEF Table
<1> HIDE DEF s
<1>4. mods' \in Table
  BY <1>2, <1>3, CheckedType
<1>5. returns' \in Nat
  BY <1>1, <1>2, TypeFacts
<1> QED
  BY <1>1, <1>2, <1>4, <1>5, CommandBounds, CheckOnRequest

LEMMA CloseModuleKeepsIInv ==
  ASSUME IInv, NEW m \in Modules, CloseModule(m)
  PROVE  IInv'
<1>1. TypeOK /\ mods \in Table
  BY TypeFacts DEF IInv
<1> DEFINE s == [mods EXCEPT ![m].need = FALSE]
<1>2. mods' \in Checked(s) /\ early' = (early \/ pauses > 0) /\ orderly' = FALSE
      /\ Command /\ UNCHANGED <<server, action, timer, chains, pauses, quit, orphans, doubled>>
  BY DEF CloseModule, CheckOnCommand
<1>3. s \in Table
  BY <1>1 DEF Table, Record
<1> HIDE DEF s
<1>4. mods' \in Table
  BY <1>2, <1>3, CheckedType
<1>5. returns' \in Nat
  BY <1>1, TypeFacts DEF CloseModule
<1> QED
  BY <1>1, <1>2, <1>4, <1>5, CommandBounds, CheckOnRequest

LEMMA CloseForKeepsIInv ==
  ASSUME IInv, NEW a \in {"none", "restart", "quit"}, CloseFor(a)
  PROVE  IInv'
<1>1. TypeOK /\ mods \in Table /\ chains \in Nat
  BY TypeFacts DEF IInv
<1> DEFINE s == [m \in Modules |-> [mods[m] EXCEPT !.need = FALSE]]
<1>2. /\ Command /\ CloseModules(s, a, chains) /\ UNCHANGED <<returns, early>>
      /\ orderly' = (orderly \/ \A m \in Modules : ~mods[m].told)
  BY DEF CloseFor
<1>3. \A x \in Modules : s[x] \in Record /\ s[x].proc = mods[x].proc /\ s[x].told = mods[x].told
  BY <1>1 DEF Table, Record
<1>4. s \in Table
  BY <1>3 DEF Table
<1> HIDE DEF s
<1>5. orderly' => InOrder(s)
  BY <1>2, <1>3 DEF InOrder, IInv, ClosedInOrder, Running
<1>6. orderly' \in BOOLEAN
  BY <1>1, <1>2, TypeFacts
<1>7. \A x \in Modules : Running(s[x]) => Running(mods[x])
  BY <1>3 DEF Running
<1> QED
  BY <1>1, <1>2, <1>4, <1>5, <1>6, <1>7, CommandBounds, CloseModulesStep

LEMMA CloseAgainKeepsIInv == ASSUME IInv, CloseAgain PROVE IInv'
<1>1. TypeOK /\ mods \in Table /\ action \in {"none", "restart", "quit"}
      /\ orderly \in BOOLEAN
      /\ bounds \in [commands : 0 .. MaxCommands, faults : 0 .. MaxFaults]
  BY TypeFacts DEF IInv
<1>2. chains - 1 \in Nat
  BY <1>1, TypeFacts DEF CloseAgain
<1>3. CloseModules(mods, action, chains - 1) /\ UNCHANGED <<returns, early, orderly, bounds>>
  BY DEF CloseAgain
<1>4. orderly => InOrder(mods)
  BY DEF IInv, ClosedInOrder, InOrder
<1> QED
  BY <1>1, <1>2, <1>3, <1>4, CloseModulesStep

LEMMA ReinitializeKeepsIInv == ASSUME IInv, Reinitialize \/ ReinitializeFails PROVE IInv'
<1> USE DEF IInv
<1>1. TypeOK /\ mods \in Table
  BY TypeFacts
<1>2. /\ pauses > 0 /\ Initialize(mods) /\ timer' \in BOOLEAN /\ server' \in BOOLEAN
      /\ pauses' \in Nat
      /\ pauses' = pauses - 1 \/ (pauses' = pauses /\ timer' = FALSE)
      /\ UNCHANGED <<action, chains, returns, quit, early, doubled, orderly>>
  <2>1. pauses \in Nat
    BY <1>1, TypeFacts
  <2>2. CASE Reinitialize
    BY <2>1, <2>2 DEF Reinitialize, ghosts
  <2>3. CASE ReinitializeFails
    BY <2>1, <2>3 DEF ReinitializeFails, ghosts
  <2> QED
    BY <2>2, <2>3
<1>3. bounds' \in [commands : 0 .. MaxCommands, faults : 0 .. MaxFaults]
  <2>1. bounds \in [commands : 0 .. MaxCommands, faults : 0 .. MaxFaults]
    BY <1>1, TypeFacts
  <2> QED
    BY <2>1, BoundsAssumption DEF Reinitialize, ReinitializeFails
<1>4. /\ mods' \in Table /\ orphans' \subseteq Modules
      /\ \A m \in Modules : ~Running(mods'[m]) /\ mods'[m].told = FALSE
      /\ ~early /\ ~doubled => orphans' = orphans
  BY <1>1, <1>2, InitializeFields DEF Paused
<1>5. TypeOK'
  BY <1>1, <1>2, <1>3, <1>4 DEF TypeOK, Table, Record
<1>6. NobodyForgotten' /\ Paused' /\ ClosedInOrder' /\ Untold'
  BY <1>1, <1>2, <1>4, TypeFacts DEF NobodyForgotten, Paused, ClosedInOrder, Untold, Undisturbed
<1> QED
  BY <1>5, <1>6

LEMMA NextKeepsIInv == ASSUME IInv, [Next]_vars PROVE IInv'
<1>1. CASE Timers
  BY <1>1, TickKeepsIInv, CloseAgainKeepsIInv, ReinitializeKeepsIInv,
     CheckAutoStartModulesKeepsIInv DEF Timers
<1>2. CASE ReinitializeFails
  BY <1>2, ReinitializeKeepsIInv
<1>3. CASE Commands
  BY <1>3, ModulesAssumption, StartModuleKeepsIInv, CloseModuleKeepsIInv, CloseForKeepsIInv
     DEF Commands
<1>4. CASE \E m \in Modules : Live(m) \/ Crash(m) \/ Hang(m) \/ GoOn(m)
  BY <1>4, ProcessesKeepIInv
<1>5. CASE UNCHANGED vars
  <2>1. UNCHANGED <<mods, server, action, timer, chains, pauses, returns, quit, orphans,
                    early, doubled, orderly, bounds>>
    BY <1>5 DEF vars, timers, ghosts
  <2>2. TypeOK'
    BY <2>1 DEF IInv, TypeOK
  <2> QED
    BY <2>1, <2>2 DEF IInv, NobodyForgotten, Paused, ClosedInOrder, Untold
<1> QED
  BY <1>1, <1>2, <1>3, <1>4, <1>5 DEF Next

-----------------------------------------------------------------------------
(* The theorems. *)

\* The invariant holds, and with it the others.
THEOREM Invariant == Spec => []IInv
<1>1. Init => IInv
  BY InitIInv
<1>2. IInv /\ [Next]_vars => IInv'
  BY NextKeepsIInv
<1> QED
  BY <1>1, <1>2, PTL DEF Spec

\* The table, the timers and the bounds have their types: so does what every pass
\* over the modules leaves, for any number of them in any order.
THEOREM TypeCorrect == Spec => []TypeOK
<1>1. IInv => TypeOK
  BY DEF IInv
<1> QED
  BY <1>1, Invariant, PTL

\* No process is lost track of unless a command has modules started while
\* reinitialize() is pending or a second close sequence ends meanwhile: otherwise
\* every path to initialize() - the restart, the timer, the timer again after a
\* server that does not open - finds the table without a process, because the
\* timer of the checks stays off until then (doCloseModules, closeAction,
\* reinitialize).
THEOREM NobodyIsForgotten == Spec => []NobodyForgotten
<1>1. IInv => NobodyForgotten
  BY DEF IInv
<1> QED
  BY <1>1, Invariant, PTL

\* Modules are told to close in the order of their priorities, for any priorities,
\* also by sequences that overlap, as long as no command has them checked meanwhile
\* (doCloseModules, closeModule, canTerminate).
THEOREM ModulesCloseInOrder == Spec => []ClosedInOrder
<1>1. IInv => ClosedInOrder
  BY DEF IInv
<1> QED
  BY <1>1, Invariant, PTL

=============================================================================
