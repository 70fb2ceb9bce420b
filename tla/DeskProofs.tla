------------------------------ MODULE DeskProofs ------------------------------
(***************************************************************************)
(* What Desk promises, for every value of its constants: of the settings,  *)
(* of the retirement of models and their votes, and of the alerts.         *)
(***************************************************************************)
EXTENDS Desk, TLAPS, FiniteSetTheorems, SequenceTheorems

-----------------------------------------------------------------------------
Row == [Fields -> Values]
Request == [pc : {"idle", "get", "commit", "apply"}, field : Fields, value : Values,
            seen : Row, base : Row]
Budget == [patches : Nat, trades : Nat, unretires : Nat, flips : Nat, moves : Nat,
           faults : Nat, misses : Nat, crashes : Nat, stops : Nat]

SettingsTyped ==
    /\ row \in Row /\ settings \in Row
    /\ requests \in [Executors -> Request]
    /\ scene \in Scene

\* The rows that the code builds are rows.
LEMMA RowsAreRows ==
    /\ NoRow \in Row /\ NewRow \in Row /\ Idle \in Request
    /\ \A r \in Row, s \in Row : Applied(r, s) \in Row
    /\ \A r \in Row, s \in Row, n \in Row : Update(r, s, n) \in Row
    /\ \A r \in Row, f \in Fields, v \in Values : [r EXCEPT ![f] = v] \in Row
<1>1. None \in Values /\ 0 \in Values /\ 50 \in Values
  BY DEF Values, None
<1>2. NoRow \in Row
  BY <1>1 DEF NoRow, Row
<1>3. NewRow \in Row
  BY <1>1 DEF NewRow, Row
<1>4. Idle \in Request
  BY <1>1, <1>2 DEF Idle, Request, Fields
<1>5. \A r \in Row, s \in Row : Applied(r, s) \in Row
  BY DEF Row, Applied
<1>6. \A r \in Row, s \in Row, n \in Row : Update(r, s, n) \in Row
  BY DEF Row, Update
<1>7. \A r \in Row, f \in Fields, v \in Values : [r EXCEPT ![f] = v] \in Row
  BY DEF Row
<1>8. QED
  BY <1>2, <1>3, <1>4, <1>5, <1>6, <1>7

\* A PATCH keeps the settings typed.
LEMMA TypedPatch ==
    ASSUME SettingsTyped, PatchSettings
    PROVE  row' \in Row /\ settings' \in Row /\ requests' \in [Executors -> Request]
<1>1. \A q : q \in Request <=> (q = [pc |-> q.pc, field |-> q.field, value |-> q.value,
                                    seen |-> q.seen, base |-> q.base]
                               /\ q.pc \in {"idle", "get", "commit", "apply"} /\ q.field \in Fields
                               /\ q.value \in Values /\ q.seen \in Row /\ q.base \in Row)
  BY DEF Request
<1>2. ASSUME NEW e \in Executors, NEW ask \in scene.asks, PatchArrives(e, ask[1], ask[2])
      PROVE  row' \in Row /\ settings' \in Row /\ requests' \in [Executors -> Request]
  <2>1. ask[1] \in Fields /\ ask[2] \in Values
    BY <1>2 DEF SettingsTyped, Scene
  <2>2. settings' \in Row
    <3>1. [settings EXCEPT ![ask[1]] = ask[2]] \in Row
      BY <2>1, RowsAreRows DEF SettingsTyped
    <3>2. QED
      BY <1>2, <3>1 DEF PatchArrives, SettingsTyped
  <2>3. [pc |-> "get", field |-> ask[1], value |-> ask[2], seen |-> row, base |-> NoRow] \in Request
    BY <2>1, RowsAreRows DEF Request, SettingsTyped
  <2>4. QED
    BY <1>2, <2>2, <2>3 DEF PatchArrives, SettingsTyped
<1>3. ASSUME NEW e \in Executors, GetAgain(e)
      PROVE  row' \in Row /\ settings' \in Row /\ requests' \in [Executors -> Request]
  <2> DEFINE b == IF requests[e].seen = NoRow THEN row ELSE requests[e].seen
             q == [requests[e] EXCEPT !.pc = "commit", !.base = b]
  <2>1. requests[e] \in Request
    BY DEF SettingsTyped
  <2>2. b \in Row
    BY <2>1 DEF Request, SettingsTyped
  <2>3. requests' = [requests EXCEPT ![e] = q]
    BY <1>3 DEF GetAgain, SettingsTyped
  <2> HIDE DEF b
  <2>4. q \in Request
    BY <2>1, <2>2 DEF Request
  <2> HIDE DEF q
  <2>5. QED
    BY ZenonT(60), <1>3, <2>3, <2>4 DEF GetAgain, SettingsTyped
<1>4. ASSUME NEW e \in Executors, CommitRow(e)
      PROVE  row' \in Row /\ settings' \in Row /\ requests' \in [Executors -> Request]
  <2> DEFINE q == requests[e]
             r == [q EXCEPT !.pc = "apply"]
  <2>1. q \in Request
    BY DEF SettingsTyped
  <2>2. r \in Request
    BY <2>1 DEF Request
  <2>3. Wanted(q) \in Row
    <3>1. q.field \in Fields /\ q.value \in Values /\ q.seen \in Row
      BY <2>1 DEF Request
    <3>2. CASE q.seen = NoRow
      BY <3>1, <3>2, RowsAreRows DEF Wanted
    <3>3. CASE q.seen # NoRow
      BY <3>1, <3>3, RowsAreRows DEF Wanted
    <3>4. QED
      BY <3>2, <3>3
  <2>4. Update(row, q.base, Wanted(q)) \in Row
    BY <2>1, <2>3, RowsAreRows DEF SettingsTyped, Request
  <2>5. row' \in Row
    BY <1>4, <2>3, <2>4 DEF CommitRow, SettingsTyped
  <2>6. requests' = [requests EXCEPT ![e] = r] \/ requests' = [requests EXCEPT ![e] = Idle]
    BY <1>4 DEF CommitRow
  <2> HIDE DEF r
  <2>7. QED
    BY <1>4, <2>2, <2>5, <2>6, RowsAreRows DEF CommitRow, SettingsTyped
<1>5. ASSUME NEW e \in Executors, ApplyPatch(e)
      PROVE  row' \in Row /\ settings' \in Row /\ requests' \in [Executors -> Request]
  BY <1>5, RowsAreRows DEF ApplyPatch, SettingsTyped
<1>6. QED
  BY <1>2, <1>3, <1>4, <1>5 DEF PatchSettings, PatchSteps

-----------------------------------------------------------------------------
\* A commit starts from the row that its request has read.
BasedOnSeen ==
    \A e \in Executors :
        requests[e].pc = "commit" /\ requests[e].seen # NoRow => requests[e].base = requests[e].seen

\* Only a PATCH changes the row, and only the settings' own steps change requests.
LEMMA SettingsSteps ==
    ASSUME SettingsTyped, [Next]_vars
    PROVE  \/ PatchSettings /\ scene' = scene
           \/ /\ row' = row /\ scene' = scene
              /\ settings' \in {settings, Applied(row, settings), Applied(row, Yaml)}
              /\ requests' = requests \/ requests' = [e \in Executors |-> Idle]
<1>1. ASSUME NEW i \in Intervals, TickStarts(i) \/ TickResumes(i)
      PROVE  /\ row' = row /\ scene' = scene
             /\ settings' \in {settings, Applied(row, settings)} /\ requests' = requests
  BY <1>1 DEF TickStarts, TickResumes, settingsVars, processVars
<1>3. CASE StartUp
  BY <1>3 DEF StartUp, SettingsStart
<1>4. CASE StopAsked
  BY <1>4 DEF StopAsked, settingsVars
<1>5. CASE JoinReturns \/ Crash
  BY <1>5 DEF JoinReturns, Crash, EndProcess, SettingsEnd
<1>6. CASE WorkerSteps
  BY <1>6 DEF WorkerSteps, Worker, settingsVars, processVars
<1>7. QED
  BY <1>1, <1>3, <1>4, <1>5, <1>6
     DEF Next, vars, settingsVars, processVars, Elsewhere

\* The settings keep their types.
LEMMA SettingsTypedStep ==
    ASSUME SettingsTyped, [Next]_vars
    PROVE  SettingsTyped'
<1>1. scene' \in Scene
  BY SettingsSteps DEF SettingsTyped
<1>2. Yaml \in Row
  BY DeskAssumption DEF Row
<1>3. row' \in Row /\ settings' \in Row /\ requests' \in [Executors -> Request]
  BY SettingsSteps, TypedPatch, RowsAreRows, <1>2 DEF SettingsTyped
<1>4. QED
  BY <1>1, <1>3 DEF SettingsTyped

\* At first the settings are those of the file and the environment.
LEMMA SettingsTypedInit ==
    ASSUME Init
    PROVE  SettingsTyped
<1>1. scene \in Scene
  BY DeskAssumption DEF Init
<1>2. row \in Row
  BY <1>1 DEF Init, SettingsInit, Scene, Row, Fields
<1>3. settings \in Row
  BY DeskAssumption DEF Init, SettingsInit, Row
<1>4. requests \in [Executors -> Request]
  BY RowsAreRows DEF Init, SettingsInit
<1>5. QED
  BY <1>1, <1>2, <1>3, <1>4 DEF SettingsTyped

\* Requests start from what they have read, whatever else goes on.
LEMMA BasedStep ==
    ASSUME SettingsTyped, BasedOnSeen, [Next]_vars
    PROVE  BasedOnSeen'
<1> SUFFICES ASSUME NEW e \in Executors, requests'[e].pc = "commit", requests'[e].seen # NoRow
             PROVE  requests'[e].base = requests'[e].seen
  BY DEF BasedOnSeen
<1>1. \A q \in Executors : requests[q] \in Request
  BY DEF SettingsTyped
<1>2. CASE requests'[e] = requests[e]
  BY <1>2 DEF BasedOnSeen
<1>3. ASSUME NEW q \in Executors, NEW ask \in scene.asks, PatchArrives(q, ask[1], ask[2])
      PROVE  requests'[e].base = requests'[e].seen
  BY <1>2, <1>3 DEF PatchArrives, SettingsTyped
<1>4. ASSUME NEW q \in Executors, GetAgain(q)
      PROVE  requests'[e].base = requests'[e].seen
  <2>1. CASE q = e
    <3> DEFINE b == IF requests[e].seen = NoRow THEN row ELSE requests[e].seen
    <3>1. requests'[e] = [requests[e] EXCEPT !.pc = "commit", !.base = b]
      BY <1>4, <2>1 DEF GetAgain, SettingsTyped
    <3>2. requests'[e].seen = requests[e].seen /\ requests'[e].base = b
      BY <1>1, <3>1 DEF Request
    <3>3. QED
      BY <3>2
  <2>2. CASE q # e
    BY <1>2, <1>4, <2>2 DEF GetAgain, SettingsTyped
  <2>3. QED
    BY <2>1, <2>2
<1>5. ASSUME NEW q \in Executors, CommitRow(q) \/ ApplyPatch(q)
      PROVE  requests'[e].base = requests'[e].seen
  <2>1. CASE q = e
    <3> DEFINE a == [requests[e] EXCEPT !.pc = "apply"]
    <3>1. requests'[e] = a \/ requests'[e] = Idle
      BY <1>5, <2>1 DEF CommitRow, ApplyPatch, SettingsTyped
    <3>2. a.pc = "apply"
      BY <1>1 DEF Request
    <3> HIDE DEF a
    <3>3. requests'[e].pc # "commit"
      BY <3>1, <3>2 DEF Idle
    <3>4. QED
      BY <3>3
  <2>2. CASE q # e
    BY <1>2, <1>5, <2>2 DEF CommitRow, ApplyPatch, SettingsTyped
  <2>3. QED
    BY <2>1, <2>2
<1>6. CASE PatchSettings
  BY <1>3, <1>4, <1>5, <1>6 DEF PatchSettings, PatchSteps
<1>7. CASE requests' = [q \in Executors |-> Idle]
  BY <1>7 DEF Idle
<1>8. QED
  BY SettingsSteps, <1>2, <1>6, <1>7

\* A commit changes one field, unless its request found no row.
LEMMA CommitChangesOneField ==
    ASSUME SettingsTyped, BasedOnSeen, [Next]_vars,
           NEW f \in Fields, row # NoRow, row'[f] # row[f]
    PROVE  \E e \in Executors : /\ Serving(e, "commit")
                                /\ requests[e].field = f \/ requests[e].seen = NoRow
<1>1. PatchSettings
  BY SettingsSteps
<1>2. PICK e \in Executors : CommitRow(e)
  BY <1>1 DEF PatchSettings, PatchSteps, PatchArrives, GetAgain, ApplyPatch
<1> DEFINE q == requests[e]
<1>3. Serving(e, "commit") /\ q.pc = "commit" /\ q \in Request
  BY <1>2 DEF CommitRow, Serving, SettingsTyped
<1>4. CASE q.seen = NoRow
  BY <1>3, <1>4
<1>5. CASE q.seen # NoRow
  <2>1. q.base = q.seen
    BY <1>3, <1>5 DEF BasedOnSeen
  <2>2. row' = Update(row, q.seen, Wanted(q))
    BY <1>2, <1>5, <2>1 DEF CommitRow
  <2>3. row \in Row /\ q.seen \in Row
    BY <1>3 DEF SettingsTyped, Request
  <2>4. Wanted(q)[f] = q.seen[f] \/ q.field = f
    BY <1>5, <2>3 DEF Wanted, Row
  <2>5. Wanted(q)[f] # q.seen[f]
    BY <2>2, <2>3 DEF Update, Row
  <2>6. QED
    BY <1>3, <2>4, <2>5
<1>6. QED
  BY <1>4, <1>5

\* NoLostSetting: no PATCH of the settings undoes another one, however they overlap
\* (PATCH /settings, PATCH /retirement/config, BotSettingsRepo.upsert).
THEOREM PatchesKeepEachOther == Spec => NoLostSetting
<1> DEFINE A == \A f \in Fields : row # NoRow /\ row'[f] # row[f] =>
        \E e \in Executors : /\ Serving(e, "commit")
                             /\ requests[e].field = f \/ requests[e].seen = NoRow
<1>1. Init => SettingsTyped /\ BasedOnSeen
  <2>1. Init => BasedOnSeen
    BY DEF Init, SettingsInit, BasedOnSeen, Idle
  <2>2. QED
    BY <2>1, SettingsTypedInit
<1>2. SettingsTyped /\ BasedOnSeen /\ [Next]_vars => (SettingsTyped /\ BasedOnSeen)'
  BY SettingsTypedStep, BasedStep
<1>3. SettingsTyped /\ BasedOnSeen /\ [Next]_vars => [A]_vars
  BY CommitChangesOneField
<1>4. QED
  BY <1>1, <1>2, <1>3, PTL DEF Spec, NoLostSetting

-----------------------------------------------------------------------------
Bounded == {"patches", "trades", "unretires", "flips", "moves", "faults", "misses", "crashes", "stops"}

Ticking == [pc : {"idle", "equity"}, fresh : BOOLEAN, kill : BOOLEAN, warn : BOOLEAN, halt : BOOLEAN]

Spent == scene.faults - budget.faults

\* A vote of a model that should have none was cast in a tick that did not
\* refresh the registry, or after a question that failed.
Voting ==
    /\ budget \in Budget /\ scene \in Scene /\ budget.faults <= scene.faults
    /\ ticks \in [Intervals -> Ticking] /\ halted \in BOOLEAN
    /\ overdue \in [Models -> Nat]
    /\ \A m \in Models : overdue[m] <= 2 * Spent + (IF ticks[IntervalOf[m]].fresh THEN 0 ELSE 1)

\* What a bounded event costs.
LEMMA Spending ==
    ASSUME budget \in Budget, NEW what \in Bounded, Spend(what)
    PROVE  /\ budget' \in Budget
           /\ what = "faults" => budget'.faults = budget.faults - 1 /\ budget.faults > 0
           /\ what # "faults" => budget'.faults = budget.faults
<1>1. budget[what] \in Nat
  BY DEF Budget, Bounded
<1>2. budget[what] - 1 \in Nat
  BY <1>1 DEF Spend
<1>3. budget' = [budget EXCEPT ![what] = budget[what] - 1]
  BY DEF Spend
<1>4. CASE what = "faults"
  BY <1>1, <1>2, <1>3, <1>4 DEF Budget, Spend
<1>5. CASE what # "faults"
  BY <1>2, <1>3, <1>5 DEF Budget, Bounded
<1>6. QED
  BY <1>4, <1>5

\* What a failure costs.
LEMMA FaultsSpent ==
    ASSUME budget \in Budget, Spend("faults")
    PROVE  budget' \in Budget /\ budget'.faults = budget.faults - 1 /\ budget.faults > 0
<1>1. "faults" \in Bounded
  BY DEF Bounded
<1>2. QED
  BY <1>1, Spending

\* What the parts of a tick and a start do to the ticks; nothing else touches them.
LEMMA TickSteps ==
    ASSUME budget \in Budget, [Next]_vars
    PROVE  \/ \E i \in Intervals : TickStarts(i) \/ TickResumes(i)
           \/ StartUp
           \/ /\ budget' \in Budget /\ budget'.faults \in {budget.faults, budget.faults - 1}
              /\ scene' = scene
              /\ UNCHANGED <<ticks, heard, told, overdue>> /\ halted' \in {halted, ~halted}
<1> DEFINE Other == /\ budget' \in Budget /\ budget'.faults \in {budget.faults, budget.faults - 1}
                    /\ scene' = scene
                    /\ UNCHANGED <<ticks, heard, told, overdue>> /\ halted' \in {halted, ~halted}
<1>1. ASSUME NEW what \in Bounded \ {"faults"}, Spend(what)
      PROVE  budget' \in Budget /\ budget'.faults = budget.faults
  BY <1>1, Spending
<1>2. ASSUME budget' = budget
      PROVE  budget' \in Budget /\ budget'.faults = budget.faults
  BY <1>2
<1>3. CASE PatchSettings /\ Elsewhere
  BY <1>1, <1>2, <1>3 DEF PatchSettings, Elsewhere, marketVars, tickVars, processVars, Bounded
<1>4. CASE SwitchModel /\ UNCHANGED <<marketVars, processVars>>
  BY <1>1, <1>4 DEF SwitchModel, marketVars, processVars, Bounded
<1>14. CASE Promoted /\ UNCHANGED <<marketVars, processVars>>
  BY <1>2, <1>14, FaultsSpent DEF Promoted, Rescan, marketVars, processVars
<1>5. CASE (Trades \/ Unretire) /\ Elsewhere
  BY <1>1, <1>2, <1>5 DEF Trades, Unretire, Elsewhere, marketVars, tickVars, processVars, Bounded
<1>6. CASE UNCHANGED budget /\ Elsewhere
  BY <1>2, <1>6 DEF Elsewhere, marketVars, tickVars, processVars
<1>7. CASE Market /\ UNCHANGED <<tickVars, processVars>>
  BY <1>1, <1>7 DEF Market, tickVars, processVars, Bounded
<1>8. CASE WorkerSteps
  BY <1>2, <1>8 DEF WorkerSteps, marketVars, tickVars, processVars
<1>9. CASE StopAsked
  BY <1>1, <1>9 DEF StopAsked, marketVars, tickVars, Bounded
<1>10. CASE JoinReturns
  BY <1>2, <1>10 DEF JoinReturns, EndProcess, marketVars, tickVars
<1>11. CASE Crash
  BY <1>1, <1>11 DEF Crash, EndProcess, marketVars, tickVars, Bounded
<1>12. CASE vars' = vars
  BY <1>2, <1>12 DEF vars, marketVars, tickVars, processVars
<1>13. QED
  BY <1>3, <1>4, <1>5, <1>6, <1>7, <1>8, <1>9, <1>10, <1>11, <1>12, <1>14 DEF Next, settingsVars

\* The votes of a tick that has picked its models.
LEMMA VotesOfTick ==
    ASSUME Voting, NEW i \in Intervals, NEW taking, NEW fresh \in BOOLEAN, TickTakes(i, taking, fresh)
    PROVE  /\ ticks' \in [Intervals -> Ticking] /\ ticks'[i].fresh = fresh
           /\ \A j \in Intervals \ {i} : ticks'[j] = ticks[j]
           /\ overdue' \in [Models -> Nat]
           /\ \A m \in Models : \/ IntervalOf[m] # i /\ overdue'[m] = overdue[m]
                                \/ IntervalOf[m] = i /\ overdue'[m] = 0
                                \/ /\ IntervalOf[m] = i /\ overdue'[m] = overdue[m] + 1
                                   /\ m \in taking /\ (Retired(m) \/ ~Enabled(m))
<1> DEFINE p == IF taking = {} THEN "idle" ELSE "equity"
           k == IF taking = {} THEN ticks[i].kill ELSE halted
           new == [ticks[i] EXCEPT !.fresh = fresh, !.pc = p, !.kill = k]
<1>1. ticks[i] \in Ticking
  BY DEF Voting
<1>2. ticks' = [ticks EXCEPT ![i] = new]
  BY DEF TickTakes, Voting
<1>3. p \in {"idle", "equity"} /\ k \in BOOLEAN
  BY <1>1 DEF Ticking, Voting
<1> HIDE DEF p, k
<1>4. new \in Ticking /\ new.fresh = fresh
  BY <1>1, <1>3 DEF Ticking
<1> HIDE DEF new
<1>5. /\ ticks' \in [Intervals -> Ticking] /\ ticks'[i].fresh = fresh
      /\ \A j \in Intervals \ {i} : ticks'[j] = ticks[j]
  BY <1>2, <1>4 DEF Voting
<1>6. overdue' = [m \in Models |->
           IF IntervalOf[m] # i THEN overdue[m]
           ELSE IF m \in taking /\ (Retired(m) \/ ~Enabled(m)) THEN overdue[m] + 1 ELSE 0]
  BY DEF TickTakes
<1>7. \A m \in Models : \/ IntervalOf[m] # i /\ overdue'[m] = overdue[m]
                        \/ IntervalOf[m] = i /\ overdue'[m] = 0
                        \/ /\ IntervalOf[m] = i /\ overdue'[m] = overdue[m] + 1
                           /\ m \in taking /\ (Retired(m) \/ ~Enabled(m))
  <2> TAKE m \in Models
  <2>1. CASE IntervalOf[m] # i
    BY <1>6, <2>1
  <2>2. CASE IntervalOf[m] = i /\ m \in taking /\ (Retired(m) \/ ~Enabled(m))
    BY <1>6, <2>2
  <2>3. CASE IntervalOf[m] = i /\ ~(m \in taking /\ (Retired(m) \/ ~Enabled(m)))
    BY <1>6, <2>3
  <2>4. QED
    BY <2>1, <2>2, <2>3
<1>8. overdue' \in [Models -> Nat]
  BY <1>6, <1>7 DEF Voting
<1>9. QED
  BY <1>5, <1>7, <1>8

\* The bound on votes is kept by the first part of a tick.
LEMMA VotingTickStarts ==
    ASSUME Voting, NEW i \in Intervals, TickStarts(i)
    PROVE  Voting'
<1>1. scene' = scene /\ halted' = halted
  BY DEF TickStarts, processVars, marketVars
<1>2. \A m \in Models : overdue[m] \in Nat /\ IntervalOf[m] \in Intervals
  BY DeskAssumption DEF Voting
<1>3. budget.faults \in Nat /\ scene.faults \in Nat /\ budget.faults <= scene.faults
  BY DEF Voting, Budget, Scene
<1>4. CASE ~Configured
  BY <1>1, <1>4 DEF TickStarts, Voting, Spent
<1>5. ASSUME UNCHANGED budget, loaded' = Refreshed({}),
             TickTakes(i, {m \in loaded' : IntervalOf[m] = i}, TRUE)
      PROVE  Voting'
  <2> DEFINE taking == {m \in loaded' : IntervalOf[m] = i}
  <2>1. \A m \in taking : ~Retired(m) /\ Enabled(m)
    BY <1>5 DEF Refreshed
  <2>2. TickTakes(i, taking, TRUE)
    BY <1>5
  <2> HIDE DEF taking
  <2>3. /\ ticks' \in [Intervals -> Ticking] /\ ticks'[i].fresh = TRUE
        /\ \A j \in Intervals \ {i} : ticks'[j] = ticks[j]
        /\ overdue' \in [Models -> Nat]
        /\ \A m \in Models : \/ IntervalOf[m] # i /\ overdue'[m] = overdue[m]
                             \/ IntervalOf[m] = i /\ overdue'[m] = 0
    BY <2>1, <2>2, VotesOfTick
  <2>4. ASSUME NEW m \in Models
        PROVE  overdue'[m] <= 2 * Spent + (IF ticks'[IntervalOf[m]].fresh THEN 0 ELSE 1)
    <3>1. CASE IntervalOf[m] # i /\ overdue'[m] = overdue[m]
      <4>1. ticks'[IntervalOf[m]] = ticks[IntervalOf[m]]
        BY <1>2, <2>3, <3>1
      <4>2. QED
        BY <3>1, <4>1 DEF Voting
    <3>2. CASE IntervalOf[m] = i /\ overdue'[m] = 0
      BY <1>3, <3>2 DEF Spent
    <3>3. QED
      BY <2>3, <3>1, <3>2
  <2>5. QED
    BY <1>1, <1>5, <2>3, <2>4 DEF Voting, Spent
<1>6. ASSUME UNCHANGED budget, ticks[i].fresh, NEW taking, TickTakes(i, taking, FALSE)
      PROVE  Voting'
  <2>1. /\ ticks' \in [Intervals -> Ticking] /\ ticks'[i].fresh = FALSE
        /\ \A j \in Intervals \ {i} : ticks'[j] = ticks[j]
        /\ overdue' \in [Models -> Nat]
        /\ \A m \in Models : \/ IntervalOf[m] # i /\ overdue'[m] = overdue[m]
                             \/ IntervalOf[m] = i /\ overdue'[m] <= overdue[m] + 1
    <3>1. \A m \in Models : \/ IntervalOf[m] # i /\ overdue'[m] = overdue[m]
                            \/ IntervalOf[m] = i /\ overdue'[m] = 0
                            \/ IntervalOf[m] = i /\ overdue'[m] = overdue[m] + 1
      BY ZenonT(60), <1>6, VotesOfTick
    <3>2. \A m \in Models : \/ IntervalOf[m] # i /\ overdue'[m] = overdue[m]
                            \/ IntervalOf[m] = i /\ overdue'[m] <= overdue[m] + 1
      BY <1>2, <3>1
    <3>3. /\ ticks' \in [Intervals -> Ticking] /\ ticks'[i].fresh = FALSE
          /\ \A j \in Intervals \ {i} : ticks'[j] = ticks[j]
          /\ overdue' \in [Models -> Nat]
      BY <1>6, VotesOfTick
    <3>4. QED
      BY <3>2, <3>3
  <2>2. ASSUME NEW m \in Models
        PROVE  overdue'[m] <= 2 * Spent + (IF ticks'[IntervalOf[m]].fresh THEN 0 ELSE 1)
    <3>1. CASE IntervalOf[m] # i /\ overdue'[m] = overdue[m]
      <4>1. ticks'[IntervalOf[m]] = ticks[IntervalOf[m]]
        BY <1>2, <2>1, <3>1
      <4>2. QED
        BY <3>1, <4>1 DEF Voting
    <3>2. CASE IntervalOf[m] = i /\ overdue'[m] <= overdue[m] + 1
      <4>1. overdue[m] <= 2 * Spent
        <5>1. ticks[IntervalOf[m]].fresh
          BY <1>6, <3>2
        <5>2. overdue[m] <= 2 * Spent + 0
          BY <5>1 DEF Voting
        <5>3. QED
          BY <1>3, <5>2 DEF Spent
      <4>2. overdue'[m] \in Nat
        BY <2>1
      <4>3. QED
        BY <1>2, <1>3, <2>1, <3>2, <4>1, <4>2 DEF Spent
    <3>3. QED
      BY <2>1, <3>1, <3>2
  <2>3. QED
    BY <1>1, <1>6, <2>1, <2>2 DEF Voting, Spent
<1>7. ASSUME Spend("faults"), NEW taking, TickTakes(i, taking, TRUE)
      PROVE  Voting'
  <2>1. /\ ticks' \in [Intervals -> Ticking] /\ ticks'[i].fresh = TRUE
        /\ \A j \in Intervals \ {i} : ticks'[j] = ticks[j]
        /\ overdue' \in [Models -> Nat]
        /\ \A m \in Models : \/ IntervalOf[m] # i /\ overdue'[m] = overdue[m]
                             \/ IntervalOf[m] = i /\ overdue'[m] <= overdue[m] + 1
    <3>1. \A m \in Models : \/ IntervalOf[m] # i /\ overdue'[m] = overdue[m]
                            \/ IntervalOf[m] = i /\ overdue'[m] = 0
                            \/ IntervalOf[m] = i /\ overdue'[m] = overdue[m] + 1
      BY ZenonT(60), <1>7, VotesOfTick
    <3>2. \A m \in Models : \/ IntervalOf[m] # i /\ overdue'[m] = overdue[m]
                            \/ IntervalOf[m] = i /\ overdue'[m] <= overdue[m] + 1
      BY <1>2, <3>1
    <3>3. /\ ticks' \in [Intervals -> Ticking] /\ ticks'[i].fresh = TRUE
          /\ \A j \in Intervals \ {i} : ticks'[j] = ticks[j]
          /\ overdue' \in [Models -> Nat]
      BY <1>7, VotesOfTick
    <3>4. QED
      BY <3>2, <3>3
  <2>2. budget' \in Budget /\ budget'.faults = budget.faults - 1
    <3>1. "faults" \in Bounded /\ budget \in Budget
      BY DEF Bounded, Voting
    <3>2. QED
      BY <1>7, <3>1, Spending
  <2>3. ASSUME NEW m \in Models
        PROVE  overdue'[m] <= 2 * (Spent + 1) + (IF ticks'[IntervalOf[m]].fresh THEN 0 ELSE 1)
    <3>1. overdue[m] <= 2 * Spent + 1 /\ Spent \in Nat
      BY <1>2, <1>3 DEF Voting, Spent
    <3>2. overdue'[m] <= overdue[m] + 1 /\ overdue'[m] \in Nat
      BY <1>2, <2>1
    <3>3. QED
      BY <1>2, <3>1, <3>2
  <2>4. Spent' = Spent + 1
    BY <1>1, <1>3, <2>2 DEF Spent
  <2>5. budget'.faults <= scene'.faults
    BY <1>1, <1>3, <2>2
  <2>6. QED
    BY <1>1, <2>1, <2>2, <2>3, <2>4, <2>5 DEF Voting
<1>8. CASE Spend("faults") /\ UNCHANGED <<ticks, overdue>>
  <2>1. budget' \in Budget /\ budget'.faults = budget.faults - 1 /\ budget.faults > 0
    BY <1>8, FaultsSpent DEF Voting
  <2>2. Spent' = Spent + 1 /\ Spent \in Nat
    BY <1>1, <1>3, <2>1 DEF Spent
  <2>3. ASSUME NEW m \in Models
        PROVE  overdue'[m] <= 2 * Spent' + (IF ticks'[IntervalOf[m]].fresh THEN 0 ELSE 1)
    <3>1. overdue[m] <= 2 * Spent + (IF ticks[IntervalOf[m]].fresh THEN 0 ELSE 1)
      BY DEF Voting
    <3>2. QED
      BY <1>2, <1>8, <2>2, <3>1
  <2>4. QED
    BY <1>1, <1>3, <1>8, <2>1, <2>3 DEF Voting
<1>9. QED
  BY <1>4, <1>5, <1>6, <1>7, <1>8 DEF TickStarts, Rescan

\* The bound on votes is kept by every step.
LEMMA VotingStep ==
    ASSUME Voting, [Next]_vars
    PROVE  Voting'
<1>1. budget.faults \in Nat /\ scene.faults \in Nat /\ budget.faults <= scene.faults
  BY DEF Voting, Budget, Scene
<1>2. ASSUME NEW i \in Intervals, TickResumes(i)
      PROVE  Voting'
  <2> DEFINE r(h, w) == [ticks[i] EXCEPT !.pc = "idle", !.halt = h, !.warn = w]
             s == [ticks[i] EXCEPT !.pc = "idle"]
  <2>1. ticks[i] \in Ticking /\ halted' \in BOOLEAN /\ scene' = scene /\ overdue' = overdue
    BY <1>2 DEF Voting, TickResumes, TickEnds, EquityFails, marketVars, processVars
  <2>2. \A h \in BOOLEAN, w \in BOOLEAN : r(h, w) \in Ticking /\ r(h, w).fresh = ticks[i].fresh
    BY <2>1 DEF Ticking
  <2>3. s \in Ticking /\ s.fresh = ticks[i].fresh
    BY <2>1 DEF Ticking
  <2>4. \/ s = s /\ ticks' = [ticks EXCEPT ![i] = s]
        \/ \E h \in BOOLEAN, w \in BOOLEAN : ticks' = [ticks EXCEPT ![i] = r(h, w)]
    BY <1>2 DEF TickResumes, TickEnds, EquityFails, Remembered
  <2> HIDE DEF r, s
  <2>5. ticks' \in [Intervals -> Ticking] /\ \A j \in Intervals : ticks'[j].fresh = ticks[j].fresh
    BY <2>1, <2>2, <2>3, <2>4 DEF Voting
  <2>6. budget' \in Budget /\ budget'.faults \in {budget.faults, budget.faults - 1}
    <3>1. "faults" \in Bounded /\ budget \in Budget
      BY DEF Bounded, Voting
    <3>2. CASE budget' = budget
      BY <3>1, <3>2
    <3>3. CASE Spend("faults")
      BY <3>1, <3>3, Spending
    <3>4. QED
      BY <1>2, <3>2, <3>3 DEF TickResumes, TickEnds, EquityFails
  <2>7. Spent' \in {Spent, Spent + 1} /\ budget'.faults <= scene'.faults /\ Spent \in Nat
    BY <1>1, <2>1, <2>6 DEF Spent
  <2>8. ASSUME NEW m \in Models
        PROVE  overdue'[m] <= 2 * Spent' + (IF ticks'[IntervalOf[m]].fresh THEN 0 ELSE 1)
    <3>1. IntervalOf[m] \in Intervals /\ overdue[m] \in Nat
      BY DeskAssumption DEF Voting
    <3>2. overdue[m] <= 2 * Spent + (IF ticks[IntervalOf[m]].fresh THEN 0 ELSE 1)
      BY DEF Voting
    <3>3. ticks'[IntervalOf[m]].fresh = ticks[IntervalOf[m]].fresh
      BY <2>5, <3>1
    <3>4. QED
      BY <2>1, <2>7, <3>1, <3>2, <3>3
  <2>9. QED
    BY <2>1, <2>5, <2>6, <2>7, <2>8 DEF Voting
<1>3. CASE StartUp
  <2>1. /\ scene' = scene /\ halted' = TRUE
        /\ ticks' = [i \in Intervals |-> NewTick] /\ overdue' = [m \in Models |-> 0]
    BY <1>3 DEF StartUp
  <2>2. NewTick \in Ticking
    BY DEF NewTick, Ticking
  <2>3. budget' \in Budget /\ budget'.faults \in {budget.faults, budget.faults - 1}
    BY <1>3, FaultsSpent DEF StartUp, Voting
  <2>4. Spent' \in Nat /\ budget'.faults <= scene'.faults
    BY <1>1, <2>1, <2>3 DEF Spent, Budget
  <2>6. \A m \in Models :
            overdue'[m] <= 2 * Spent' + (IF ticks'[IntervalOf[m]].fresh THEN 0 ELSE 1)
    <3> TAKE m \in Models
    <3>1. overdue'[m] = 0
      BY <2>1
    <3>2. \A n \in Nat, b \in BOOLEAN : 0 <= 2 * n + (IF b THEN 0 ELSE 1)
      OBVIOUS
    <3>3. ticks'[IntervalOf[m]].fresh = FALSE
      BY <2>1, DeskAssumption DEF NewTick
    <3>4. QED
      BY <2>4, <3>1, <3>2, <3>3
  <2>7. QED
    BY <2>1, <2>2, <2>3, <2>4, <2>6 DEF Voting
<1>4. CASE /\ budget' \in Budget /\ budget'.faults \in {budget.faults, budget.faults - 1}
           /\ scene' = scene
           /\ UNCHANGED <<ticks, heard, told, overdue>> /\ halted' \in {halted, ~halted}
  <2>1. Spent' \in {Spent, Spent + 1} /\ Spent \in Nat /\ budget'.faults <= scene'.faults
    BY <1>1, <1>4 DEF Spent
  <2>2. ASSUME NEW m \in Models
        PROVE  overdue'[m] <= 2 * Spent' + (IF ticks'[IntervalOf[m]].fresh THEN 0 ELSE 1)
    <3>1. overdue[m] <= 2 * Spent + (IF ticks[IntervalOf[m]].fresh THEN 0 ELSE 1)
          /\ overdue[m] \in Nat
      BY DEF Voting
    <3>2. QED
      BY <1>4, <2>1, <3>1
  <2>3. QED
    BY <1>4, <2>1, <2>2 DEF Voting
<1>5. budget \in Budget
  BY DEF Voting
<1>6. QED
  BY <1>2, <1>3, <1>4, <1>5, TickSteps, VotingTickStarts

\* At first nobody votes.
LEMMA VotingInit ==
    ASSUME Init
    PROVE  Voting
<1>1. scene \in Scene
  BY DeskAssumption DEF Init
<1>2. budget \in Budget /\ budget.faults = scene.faults /\ scene.faults \in Nat
  BY <1>1 DEF Init, Budget, Scene
<1>3. NewTick \in Ticking
  BY DEF NewTick, Ticking
<1>4. QED
  BY <1>1, <1>2, <1>3 DEF Init, Voting, Spent

\* VotesEnd: a retired or disabled model stops voting after one more tick at most,
\* and two more for each scan of the models or question for retirement that failed
\* (make_tick's throttled refresh, ModelRegistry.refresh, _on_promote).
THEOREM RetiredModelsStopVoting == Spec => []VotesEnd
<1>1. Voting => VotesEnd
  <2> SUFFICES ASSUME Voting, NEW m \in Models
               PROVE  overdue[m] <= 1 + 2 * (scene.faults - budget.faults)
    BY DEF VotesEnd
  <2>1. overdue[m] \in Nat /\ budget.faults \in Nat /\ scene.faults \in Nat
    BY DEF Voting, Budget, Scene
  <2>2. QED
    BY <2>1 DEF Voting, Spent
<1>2. QED
  BY <1>1, VotingInit, VotingStep, PTL DEF Spec

-----------------------------------------------------------------------------
Levels == {"none", "warn", "halt"}
LastOf(h) == IF h = <<>> THEN "none" ELSE h[Len(h)]

\* The places of h, up to the k-th, where an episode begins.
Episodes(h, k) == {j \in 1..k : h[j] # "none"}

\* t has the episodes of h, each once and in order.
Tells(t, h) ==
    /\ Len(t) = Cardinality(Episodes(h, Len(h)))
    /\ \A k \in Episodes(h, Len(h)) : t[Cardinality(Episodes(h, k))] = h[k]

\* The closure of a tick remembers which level it saw last.
Edges ==
    /\ ticks \in [Intervals -> Ticking]
    /\ heard \in [Intervals -> Seq(Levels)] /\ told \in [Intervals -> Seq(Levels)]
    /\ \A i \in Intervals :
        /\ ticks[i].halt <=> LastOf(heard[i]) = "halt"
        /\ ticks[i].warn <=> LastOf(heard[i]) = "warn"
        /\ Tells(told[i], heard[i])

\* A level that is none or new leaves what is told true.
LEMMA TellsMore ==
    ASSUME NEW h \in Seq(Levels), NEW t \in Seq(Levels), NEW x \in Levels, Tells(t, h)
    PROVE  Tells(IF x = "none" THEN t ELSE Append(t, x), Append(h, x))
<1> DEFINE g == Append(h, x)
           n == Len(h)
<1>1. g \in Seq(Levels) /\ Len(g) = n + 1 /\ n \in Nat /\ g[n + 1] = x
      /\ \A k \in 1..n : g[k] = h[k]
  OBVIOUS
<1>2. \A k \in 0..n : Episodes(g, k) = Episodes(h, k)
  BY <1>1 DEF Episodes
<1>3. Episodes(g, n + 1) = IF x = "none" THEN Episodes(h, n) ELSE Episodes(h, n) \cup {n + 1}
  BY <1>1 DEF Episodes
<1>4. n + 1 \notin Episodes(h, n)
  BY <1>1 DEF Episodes
<1>5. \A k \in 0..n : /\ IsFiniteSet(Episodes(h, k))
                      /\ Cardinality(Episodes(h, k)) \in Nat
  <2> TAKE k \in 0..n
  <2>1. IsFiniteSet(1..k)
    BY <1>1, FS_Interval
  <2>2. Episodes(h, k) \in SUBSET (1..k)
    BY DEF Episodes
  <2>3. QED
    BY <2>1, <2>2, FS_Subset, FS_CardinalityType
<1>6. \A k \in Episodes(h, n) : Cardinality(Episodes(h, k)) \in 1..Len(t)
  <2> TAKE k \in Episodes(h, n)
  <2>1. k \in 1..n /\ k \in 0..n /\ n \in 0..n
    BY <1>1 DEF Episodes
  <2>2. Episodes(h, k) \in SUBSET Episodes(h, n) /\ k \in Episodes(h, k)
    BY <1>1, <2>1 DEF Episodes
  <2>3. Cardinality(Episodes(h, k)) <= Cardinality(Episodes(h, n))
    BY <1>5, <2>1, <2>2, FS_Subset
  <2>4. Cardinality(Episodes(h, k)) # 0
    BY <1>5, <2>1, <2>2, FS_EmptySet
  <2>5. QED
    BY <1>5, <2>1, <2>3, <2>4 DEF Tells
<1>7. CASE x = "none"
  <2>1. Episodes(g, n + 1) = Episodes(h, n)
    BY <1>3, <1>7
  <2>2. \A k \in Episodes(h, n) : k \in 0..n /\ k \in 1..n
    BY DEF Episodes
  <2>3. \A k \in Episodes(h, n) : t[Cardinality(Episodes(g, k))] = g[k]
    BY <1>1, <1>2, <2>2 DEF Tells
  <2>4. QED
    BY <1>1, <1>7, <2>1, <2>3 DEF Tells
<1>8. CASE x # "none"
  <2> DEFINE u == Append(t, x)
  <2>1. Episodes(g, n + 1) = Episodes(h, n) \cup {n + 1}
    BY <1>3, <1>8
  <2>2. Cardinality(Episodes(g, n + 1)) = Len(t) + 1
    <3>1. n \in 0..n
      BY <1>1
    <3>2. IsFiniteSet(Episodes(h, n))
      BY <1>5, <3>1
    <3>3. QED
      BY <1>4, <2>1, <3>2, FS_AddElement DEF Tells
  <2>3. Len(u) = Len(t) + 1 /\ u[Len(t) + 1] = x /\ \A k \in 1..Len(t) : u[k] = t[k]
    OBVIOUS
  <2> HIDE DEF u
  <2>4. \A k \in Episodes(h, n) : u[Cardinality(Episodes(g, k))] = g[k]
    <3> TAKE k \in Episodes(h, n)
    <3>1. k \in 1..n /\ k \in 0..n
      BY DEF Episodes
    <3>2. Cardinality(Episodes(h, k)) \in 1..Len(t) /\ Episodes(g, k) = Episodes(h, k)
      BY <1>2, <1>6, <3>1
    <3>3. u[Cardinality(Episodes(h, k))] = t[Cardinality(Episodes(h, k))]
      BY <2>3, <3>2
    <3>4. QED
      BY <1>1, <3>1, <3>2, <3>3 DEF Tells
  <2>5. u[Cardinality(Episodes(g, n + 1))] = g[n + 1]
    BY <1>1, <2>2, <2>3
  <2>6. \A k \in Episodes(g, Len(g)) : u[Cardinality(Episodes(g, k))] = g[k]
    BY <1>1, <2>1, <2>4, <2>5
  <2>7. Len(u) = Cardinality(Episodes(g, Len(g)))
    BY <1>1, <2>2, <2>3
  <2>8. Tells(u, g)
    BY <2>6, <2>7 DEF Tells
  <2>9. QED
    BY <1>8, <2>8 DEF u
<1>9. QED
  BY <1>7, <1>8

\* A tick that sees the equity remembers the level, and tells of it when it is new.
LEMMA EdgesTick ==
    ASSUME Edges, NEW i \in Intervals, TickEnds(i)
    PROVE  Edges'
<1> DEFINE level == Level(IF opened THEN loss ELSE 0)
           new == [ticks[i] EXCEPT !.pc = "idle", !.halt = level = "halt", !.warn = level = "warn"]
           h == heard[i]
           t == told[i]
<1>1. level \in Levels
  BY DEF Level, Levels
<1>2. ticks[i] \in Ticking /\ h \in Seq(Levels) /\ t \in Seq(Levels) /\ Tells(t, h)
  BY DEF Edges
<1>3. /\ ticks' = [ticks EXCEPT ![i] = new]
      /\ told' = IF Alarm(i, level) THEN [told EXCEPT ![i] = Append(t, level)] ELSE told
      /\ heard' = [heard EXCEPT ![i] = Heard(h, level)]
  BY DEF TickEnds, Remembered
<1>4. /\ level # "none" => (ticks[i][level] <=> LastOf(h) = level)
  <2>1. level = "halt" \/ level = "warn" \/ level = "none"
    BY <1>1 DEF Levels
  <2>2. QED
    BY <2>1 DEF Edges
<1> HIDE DEF level
<1>5. new \in Ticking /\ new.halt = (level = "halt") /\ new.warn = (level = "warn")
  BY <1>2 DEF Ticking
<1> HIDE DEF new
<1>6. /\ Heard(h, level) \in Seq(Levels)
      /\ LastOf(Heard(h, level)) = level
      /\ Heard(h, level) = IF LastOf(h) = level THEN h ELSE Append(h, level)
  <2>1. Append(h, level) \in Seq(Levels) /\ Append(h, level) # <<>>
        /\ Append(h, level)[Len(Append(h, level))] = level
    BY <1>1, <1>2
  <2>2. CASE LastOf(h) = level
    BY <1>2, <2>2 DEF Heard, LastOf
  <2>3. CASE LastOf(h) # level
    <3>1. Heard(h, level) = Append(h, level)
      BY <2>3 DEF Heard, LastOf
    <3>2. QED
      BY <2>1, <2>3, <3>1 DEF LastOf
  <2>4. QED
    BY <2>2, <2>3
<1>7. /\ told'[i] = IF LastOf(h) # level /\ level # "none" THEN Append(t, level) ELSE t
      /\ told' \in [Intervals -> Seq(Levels)]
      /\ \A j \in Intervals \ {i} : told'[j] = told[j]
  BY <1>1, <1>2, <1>3, <1>4 DEF Alarm, Edges
<1>8. Tells(told'[i], Heard(h, level))
  <2>1. CASE LastOf(h) = level
    BY <1>2, <1>6, <1>7, <2>1
  <2>2. CASE LastOf(h) # level /\ level = "none"
    BY <1>1, <1>2, <1>6, <1>7, <2>2, TellsMore
  <2>3. CASE LastOf(h) # level /\ level # "none"
    BY <1>1, <1>2, <1>6, <1>7, <2>3, TellsMore
  <2>4. QED
    BY <2>1, <2>2, <2>3
<1>9. /\ heard' \in [Intervals -> Seq(Levels)] /\ heard'[i] = Heard(h, level)
      /\ \A j \in Intervals \ {i} : heard'[j] = heard[j]
  BY <1>3, <1>6 DEF Edges
<1>10. /\ ticks' \in [Intervals -> Ticking] /\ ticks'[i] = new
       /\ \A j \in Intervals \ {i} : ticks'[j] = ticks[j]
  BY <1>3, <1>5 DEF Edges
<1>11. ASSUME NEW j \in Intervals
       PROVE  /\ ticks'[j].halt <=> LastOf(heard'[j]) = "halt"
              /\ ticks'[j].warn <=> LastOf(heard'[j]) = "warn"
              /\ Tells(told'[j], heard'[j])
  <2>1. CASE j = i
    BY <1>5, <1>6, <1>8, <1>9, <1>10, <2>1
  <2>2. CASE j # i
    BY <1>7, <1>9, <1>10, <2>2 DEF Edges
  <2>3. QED
    BY <2>1, <2>2
<1>12. QED
  BY <1>7, <1>9, <1>10, <1>11 DEF Edges, Tells, LastOf, Episodes

\* Whatever else happens to the ticks leaves what they remember.
LEMMA EdgesTold ==
    ASSUME Edges, heard' = heard, told' = told, ticks' \in [Intervals -> Ticking],
           \A i \in Intervals : ticks'[i].halt = ticks[i].halt /\ ticks'[i].warn = ticks[i].warn
    PROVE  Edges'
<1>1. ASSUME NEW i \in Intervals
      PROVE  /\ ticks'[i].halt <=> LastOf(heard'[i]) = "halt"
             /\ ticks'[i].warn <=> LastOf(heard'[i]) = "warn"
             /\ Tells(told'[i], heard'[i])
  BY DEF Edges
<1>2. QED
  BY <1>1 DEF Edges, Tells, LastOf, Episodes

\* Every step keeps what the ticks remember and have told.
LEMMA EdgesStep ==
    ASSUME Edges, halted \in BOOLEAN, budget \in Budget, [Next]_vars
    PROVE  Edges'
<1>1. ASSUME NEW i \in Intervals, TickStarts(i)
      PROVE  Edges'
  <2>1. heard' = heard /\ told' = told
    BY <1>1 DEF TickStarts
  <2>2. CASE ticks' = ticks
    BY <2>1, <2>2, EdgesTold DEF Edges
  <2>3. ASSUME NEW taking, NEW fresh \in BOOLEAN, TickTakes(i, taking, fresh)
        PROVE  Edges'
    <3> DEFINE p == IF taking = {} THEN "idle" ELSE "equity"
               k == IF taking = {} THEN ticks[i].kill ELSE halted
               new == [ticks[i] EXCEPT !.fresh = fresh, !.pc = p, !.kill = k]
    <3>1. ticks[i] \in Ticking
      BY DEF Edges
    <3>2. ticks' = [ticks EXCEPT ![i] = new]
      BY <2>3 DEF TickTakes, Edges
    <3>3. p \in {"idle", "equity"} /\ k \in BOOLEAN
      BY <3>1 DEF Ticking
    <3> HIDE DEF p, k
    <3>4. new \in Ticking /\ new.halt = ticks[i].halt /\ new.warn = ticks[i].warn
      BY <3>1, <3>3 DEF Ticking
    <3> HIDE DEF new
    <3>5. ticks' \in [Intervals -> Ticking]
          /\ \A j \in Intervals : ticks'[j].halt = ticks[j].halt /\ ticks'[j].warn = ticks[j].warn
      BY <3>2, <3>4 DEF Edges
    <3>6. QED
      BY <2>1, <3>5, EdgesTold
  <2>4. QED
    BY <1>1, <2>2, <2>3 DEF TickStarts
<1>2. ASSUME NEW i \in Intervals, EquityFails(i)
      PROVE  Edges'
  <2> DEFINE new == [ticks[i] EXCEPT !.pc = "idle"]
  <2>1. ticks[i] \in Ticking
    BY DEF Edges
  <2>2. ticks' = [ticks EXCEPT ![i] = new] /\ heard' = heard /\ told' = told
    BY <1>2 DEF EquityFails, Edges
  <2>3. new \in Ticking /\ new.halt = ticks[i].halt /\ new.warn = ticks[i].warn
    BY <2>1 DEF Ticking
  <2> HIDE DEF new
  <2>4. ticks' \in [Intervals -> Ticking]
        /\ \A j \in Intervals : ticks'[j].halt = ticks[j].halt /\ ticks'[j].warn = ticks[j].warn
    BY <2>2, <2>3 DEF Edges
  <2>5. QED
    BY <2>2, <2>4, EdgesTold
<1>3. ASSUME ticks' = [i \in Intervals |-> NewTick], heard' = [i \in Intervals |-> <<>>], told' = heard'
      PROVE  Edges'
  <2>1. NewTick \in Ticking /\ NewTick.halt = FALSE /\ NewTick.warn = FALSE
    BY DEF NewTick, Ticking
  <2>2. Tells(<<>>, <<>>)
    <3>1. Episodes(<<>>, 0) = {}
      BY DEF Episodes
    <3>2. QED
      BY <3>1, FS_EmptySet DEF Tells
  <2>3. LastOf(<<>>) = "none"
    BY DEF LastOf
  <2>4. \A i \in Intervals : /\ ticks'[i] = NewTick /\ heard'[i] = <<>> /\ told'[i] = <<>>
    BY <1>3
  <2>5. /\ ticks' \in [Intervals -> Ticking]
        /\ heard' \in [Intervals -> Seq(Levels)] /\ told' \in [Intervals -> Seq(Levels)]
    BY <1>3, <2>1
  <2>6. \A i \in Intervals : /\ ticks'[i].halt <=> LastOf(heard'[i]) = "halt"
                             /\ ticks'[i].warn <=> LastOf(heard'[i]) = "warn"
                             /\ Tells(told'[i], heard'[i])
    BY <2>1, <2>2, <2>3, <2>4
  <2>7. QED
    BY <2>5, <2>6 DEF Edges, Tells, LastOf, Episodes
<1>4. CASE UNCHANGED <<ticks, heard, told, overdue>>
  BY <1>4, EdgesTold DEF Edges
<1>5. CASE StartUp
  BY <1>3, <1>5 DEF StartUp
<1>6. QED
  BY <1>1, <1>2, <1>4, <1>5, TickSteps, EdgesTick DEF TickResumes

\* EpisodesTold: each interval raises one alert for each time its ticks see the loss
\* change into a level that is worth one (the edge triggers of make_tick).
THEOREM EpisodesAreTold == Spec => []EpisodesTold
<1>1. Init => Edges
  <2> SUFFICES ASSUME Init PROVE Edges
    OBVIOUS
  <2>1. NewTick \in Ticking /\ NewTick.halt = FALSE /\ NewTick.warn = FALSE
    BY DEF NewTick, Ticking
  <2>2. Tells(<<>>, <<>>)
    <3>1. Episodes(<<>>, 0) = {}
      BY DEF Episodes
    <3>2. QED
      BY <3>1, FS_EmptySet DEF Tells
  <2>3. QED
    BY <2>1, <2>2 DEF Init, Edges, LastOf
<1>2. Voting /\ Edges /\ [Next]_vars => (Voting /\ Edges)'
  BY VotingStep, EdgesStep DEF Voting
<1>3. Edges => EpisodesTold
  BY DEF Edges, EpisodesTold, Tells, Episodes
<1>4. QED
  BY <1>1, <1>2, <1>3, VotingInit, PTL DEF Spec

-----------------------------------------------------------------------------
PerfRow == [exists : BOOLEAN, window : Seq(Int), count : Nat, wins : Nat,
            first : {"none", "young", "old"}, retired : BOOLEAN]
Conf == [{"enabled", "lookback"} -> Nat]
Position == [open : BOOLEAN, watched : BOOLEAN, config : Conf]
Closure == [pc : {"none", "read", "record", "check", "retire", "tell"},
            model : Models \cup {"none"}, how : {"sale", "leg"}, pnl : Int,
            config : Conf, seen : PerfRow]
Resetting == [pc : {"idle", "commit"}, model : Models \cup {"none"}, seen : PerfRow]

RetirementTyped ==
    /\ perf \in [Models -> PerfRow]
    /\ held \in [Models -> Position]
    /\ closing \in Closure /\ (closing.pc # "none" => closing.model \in Models)
    /\ resets \in [Threads -> Resetting]
    /\ \A t \in Threads : resets[t].pc # "idle" => resets[t].model \in Models
    /\ since \in [Models -> Seq(Int)]

\* The constants of the retirement have the types of what they fill.
LEMMA Blank ==
    /\ Unborn \in PerfRow /\ DefaultConfig \in Conf /\ NoPosition \in Position
    /\ NoClosing \in Closure /\ NoReset \in Resetting
<1>1. Unborn \in PerfRow
  BY DEF Unborn, PerfRow
<1>2. DefaultConfig \in Conf
  BY DEF DefaultConfig, Conf
<1>3. NoPosition \in Position
  BY <1>2 DEF NoPosition, Position
<1>4. NoClosing \in Closure
  BY <1>1, <1>2 DEF NoClosing, Closure
<1>5. NoReset \in Resetting
  BY <1>1 DEF NoReset, Resetting
<1>6. QED
  BY <1>1, <1>2, <1>3, <1>4, <1>5

\* An UPDATE of a performance row is one, field by field.
LEMMA UpdatedPerf ==
    ASSUME NEW p \in PerfRow, NEW q \in PerfRow, NEW n \in PerfRow
    PROVE  /\ Update(p, q, n) \in PerfRow
           /\ \A f \in {"exists", "window", "count", "wins", "first", "retired"} :
                  Update(p, q, n)[f] = IF n[f] = q[f] THEN p[f] ELSE n[f]
<1> DEFINE u == Update(p, q, n)
           F == {"exists", "window", "count", "wins", "first", "retired"}
<1>1. DOMAIN p = F
  BY DEF PerfRow
<1>2. u = [f \in F |-> IF n[f] = q[f] THEN p[f] ELSE n[f]]
  BY <1>1 DEF Update
<1>3. u = [exists |-> u.exists, window |-> u.window, count |-> u.count, wins |-> u.wins,
           first |-> u.first, retired |-> u.retired]
  BY <1>2
<1> HIDE DEF u
<1>4. \A f \in F : u[f] = IF n[f] = q[f] THEN p[f] ELSE n[f]
  BY <1>2
<1>5. u.exists \in BOOLEAN
  BY <1>4 DEF PerfRow
<1>6. u.window \in Seq(Int)
  BY <1>4 DEF PerfRow
<1>7. u.count \in Nat /\ u.wins \in Nat
  BY <1>4 DEF PerfRow
<1>8. u.first \in {"none", "young", "old"}
  BY <1>4 DEF PerfRow
<1>9. u.retired \in BOOLEAN
  BY <1>4 DEF PerfRow
<1>10. u \in PerfRow
  BY <1>3, <1>5, <1>6, <1>7, <1>8, <1>9 DEF PerfRow
<1>11. QED
  BY <1>4, <1>10 DEF u

\* What the end of a list from its i-th element on is.
LEMMA EndOfList ==
    ASSUME NEW u \in Seq(Int), NEW i \in 0..Len(u)
    PROVE  /\ SubSeq(u, i + 1, Len(u)) \in Seq(Int)
           /\ i + Len(SubSeq(u, i + 1, Len(u))) = Len(u)
           /\ \A j \in 1..Len(SubSeq(u, i + 1, Len(u))) : SubSeq(u, i + 1, Len(u))[j] = u[i + j]
OBVIOUS

\* The last n of a list are its end, and some of a list that has any.
LEMMA LastIsEnd ==
    ASSUME NEW w \in Seq(Int), NEW n \in Nat
    PROVE  /\ Last(w, n) \in Seq(Int)
           /\ \E k \in 0..Len(w) : Last(w, n) = SubSeq(w, k + 1, Len(w))
           /\ w # <<>> => Last(w, n) # <<>>
<1>1. CASE n > 0 /\ Len(w) > n
  <2>1. Last(w, n) = SubSeq(w, Len(w) - n + 1, Len(w))
    BY <1>1 DEF Last
  <2> DEFINE k == Len(w) - n
  <2>2. k \in 0..Len(w) /\ k + 1 \in 1..Len(w)
    BY <1>1
  <2>3. Last(w, n) = SubSeq(w, k + 1, Len(w))
    BY <2>1
  <2> HIDE DEF k
  <2>4. SubSeq(w, k + 1, Len(w)) \in Seq(Int) /\ SubSeq(w, k + 1, Len(w)) # <<>>
    <3> DEFINE e == SubSeq(w, k + 1, Len(w))
    <3>1. e \in Seq(Int) /\ k + Len(e) = Len(w)
      BY <2>2, EndOfList
    <3> HIDE DEF e
    <3>2. Len(e) # 0
      BY <2>2, <3>1
    <3>3. e # <<>>
      BY <3>2
    <3>4. QED
      BY <3>1, <3>3 DEF e
  <2>5. QED
    BY <2>2, <2>3, <2>4
<1>2. CASE ~(n > 0 /\ Len(w) > n)
  <2>1. Last(w, n) = w
    BY <1>2 DEF Last
  <2>2. w = SubSeq(w, 0 + 1, Len(w)) /\ 0 \in 0..Len(w)
    OBVIOUS
  <2>3. QED
    BY <2>1, <2>2
<1>3. QED
  BY <1>1, <1>2

\* The end of the end of a list is an end of it, also when both grow.
LEMMA EndsGrow ==
    ASSUME NEW w \in Seq(Int), NEW s \in Seq(Int), NEW x \in Int, NEW n \in Nat, EndOf(w, s)
    PROVE  EndOf(Last(Append(w, x), n), Append(s, x)) /\ Last(Append(w, x), n) # <<>>
<1> DEFINE v == Append(w, x)
           u == Append(s, x)
<1>1. PICK k \in 0..Len(s) : w = SubSeq(s, k + 1, Len(s))
  BY DEF EndOf
<1>2. /\ u \in Seq(Int) /\ Len(u) = Len(s) + 1 /\ u[Len(s) + 1] = x
      /\ \A j \in 1..Len(s) : u[j] = s[j]
  BY AppendProperties
<1>3. /\ v \in Seq(Int) /\ Len(v) = Len(w) + 1 /\ v[Len(w) + 1] = x /\ v # <<>>
      /\ \A j \in 1..Len(w) : v[j] = w[j]
  BY SMTT(60), AppendProperties
<1>4. k + Len(w) = Len(s) /\ \A j \in 1..Len(w) : w[j] = s[k + j]
  BY <1>1
<1>5. Last(v, n) # <<>>
  BY <1>3, LastIsEnd
<1>6. PICK l \in 0..Len(v) : Last(v, n) = SubSeq(v, l + 1, Len(v))
  BY <1>3, LastIsEnd
<1> HIDE DEF u, v
<1>7. k + l \in 0..Len(u) /\ k + Len(v) = Len(u)
  BY SMTT(60), <1>2, <1>3, <1>4
<1>8. \A j \in 1..Len(v) : v[j] = u[k + j]
  <2> TAKE j \in 1..Len(v)
  <2>1. CASE j \in 1..Len(w)
    <3>1. k + j \in 1..Len(s)
      BY <1>4, <2>1
    <3>2. QED
      BY <1>2, <1>3, <1>4, <2>1, <3>1
  <2>2. CASE j = Len(w) + 1
    <3>1. k + j = Len(s) + 1
      BY <1>1, <1>4, <2>2
    <3>2. QED
      BY <1>2, <1>3, <2>2, <3>1
  <2>3. QED
    BY <1>3, <2>1, <2>2
<1>9. SubSeq(v, l + 1, Len(v)) = SubSeq(u, k + l + 1, Len(u))
  <2> DEFINE a == SubSeq(v, l + 1, Len(v))
             b == SubSeq(u, k + l + 1, Len(u))
  <2>1. a \in Seq(Int) /\ l + Len(a) = Len(v) /\ \A j \in 1..Len(a) : a[j] = v[l + j]
    BY <1>3
  <2>2. b \in Seq(Int) /\ k + l + Len(b) = Len(u) /\ \A j \in 1..Len(b) : b[j] = u[k + l + j]
    <3> DEFINE i == k + l
    <3>1. i \in 0..Len(u) /\ b = SubSeq(u, i + 1, Len(u))
      BY <1>7
    <3> HIDE DEF i, b
    <3>2. b \in Seq(Int) /\ i + Len(b) = Len(u) /\ \A j \in 1..Len(b) : b[j] = u[i + j]
      BY <1>2, <3>1, EndOfList
    <3>3. QED
      BY <3>2 DEF i
  <2> HIDE DEF a, b
  <2>3. Len(a) = Len(b)
    BY SMTT(60), <1>7, <2>1, <2>2
  <2>4. \A j \in 1..Len(a) : a[j] = b[j]
    <3> TAKE j \in 1..Len(a)
    <3>1. l + j \in 1..Len(v) /\ k + (l + j) = k + l + j
      BY <1>3, <2>1
    <3>2. QED
      BY <1>8, <2>1, <2>2, <2>3, <3>1
  <2>5. a = b
    BY <2>1, <2>2, <2>3, <2>4, SeqEqual
  <2>6. QED
    BY <2>5 DEF a, b
<1>10. EndOf(Last(v, n), u)
  BY <1>6, <1>7, <1>9 DEF EndOf
<1>11. QED
  BY <1>5, <1>10 DEF u, v

\* Another outcome adds itself to the wins when it is one.
LEMMA WinsGrow ==
    ASSUME NEW s \in Seq(Int), NEW x \in Int
    PROVE  /\ Wins(s) \in Nat
           /\ Wins(Append(s, x)) = IF x > 0 THEN Wins(s) + 1 ELSE Wins(s)
<1> DEFINE W == {k \in DOMAIN s : s[k] > 0}
           V == {k \in DOMAIN Append(s, x) : Append(s, x)[k] > 0}
<1>1. IsFiniteSet(W) /\ Cardinality(W) \in Nat
  <2>1. IsFiniteSet(1..Len(s))
    BY FS_Interval
  <2>2. W \in SUBSET (1..Len(s))
    OBVIOUS
  <2>3. QED
    BY <2>1, <2>2, FS_Subset, FS_CardinalityType
<1>2. V = IF x > 0 THEN W \cup {Len(s) + 1} ELSE W
  OBVIOUS
<1>3. Len(s) + 1 \notin W
  OBVIOUS
<1> HIDE DEF W, V
<1>4. Cardinality(V) = IF x > 0 THEN Cardinality(W) + 1 ELSE Cardinality(W)
  BY <1>1, <1>2, <1>3, FS_AddElement
<1>5. QED
  BY <1>1, <1>4 DEF Wins, W, V

\* A recorded trade makes a performance row of one.
LEMMA RecordedIsPerf ==
    ASSUME NEW p \in PerfRow, NEW pnl \in Int, NEW config \in Conf
    PROVE  LET r == Recorded(p, pnl, config) IN
           /\ r \in PerfRow
           /\ r.window = Last(Append(p.window, pnl), config["lookback"])
           /\ r.count = p.count + 1
           /\ r.wins = (IF pnl > 0 THEN p.wins + 1 ELSE p.wins)
           /\ r.retired = p.retired /\ r.exists = p.exists
<1> DEFINE w == Last(Append(p.window, pnl), config["lookback"])
           f == IF p.count = 0 THEN "young" ELSE p.first
           g == IF pnl > 0 THEN p.wins + 1 ELSE p.wins
           r == [p EXCEPT !.window = w, !.count = p.count + 1, !.wins = g, !.first = f]
<1>1. Recorded(p, pnl, config) = r
  BY DEF Recorded, PerfRow
<1>2. w \in Seq(Int)
  <2>1. Append(p.window, pnl) \in Seq(Int) /\ config["lookback"] \in Nat
    BY DEF PerfRow, Conf
  <2>2. QED
    BY <2>1, LastIsEnd
<1>3. f \in {"none", "young", "old"} /\ g \in Nat /\ p.count + 1 \in Nat
  BY DEF PerfRow
<1> HIDE DEF w, f, g
<1>4. r \in PerfRow /\ r.window = w /\ r.count = p.count + 1 /\ r.wins = g
      /\ r.retired = p.retired /\ r.exists = p.exists
  BY <1>2, <1>3 DEF PerfRow
<1>5. QED
  BY <1>1, <1>4 DEF w, g

\* The steps that touch the retirement of models.
LEMMA RetirementSteps ==
    ASSUME [Next]_vars
    PROVE  \/ \E m \in Models : Opens(m)
           \/ /\ closing.pc = "none"
              /\ \E m \in Models, how \in {"sale", "leg"}, pnl \in scene.pnls : Closes(m, how, pnl)
           \/ RecordSteps \/ RecordFails \/ \E m \in Models : Ages(m)
           \/ \E t \in Threads, m \in Models : UnretireArrives(t, m)
           \/ \E t \in Threads : UnretireCommits(t)
           \/ Closing("tell") /\ ClosingDone /\ UNCHANGED <<perf, held, resets, since, excused>>
           \/ Rewatch \/ RetirementEnd
           \/ UNCHANGED retirementVars
<1>1. CASE \E i \in Intervals : TickStarts(i) \/ TickResumes(i)
  BY <1>1 DEF TickStarts, TickResumes
<1>2. CASE Trades
  BY <1>2 DEF Trades, LoopFree, Closing
<1>3. CASE Unretire
  BY <1>3 DEF Unretire
<1>4. CASE TellRetirement
  BY <1>4 DEF TellRetirement
<1>5. CASE WorkerSteps
  BY <1>5 DEF WorkerSteps
<1>6. CASE StartUp
  BY <1>6 DEF StartUp
<1>7. CASE StopAsked
  BY <1>7 DEF StopAsked
<1>8. CASE JoinReturns \/ Crash
  BY <1>8 DEF JoinReturns, Crash, EndProcess
<1>9. CASE UNCHANGED vars
  BY <1>9 DEF vars
<1>10. QED
  BY <1>1, <1>2, <1>3, <1>4, <1>5, <1>6, <1>7, <1>8, <1>9 DEF Next

\* The config of a model that validates is one.
LEMMA EffectiveConf ==
    ASSUME SettingsTyped, NEW m \in Models, Validates(m)
    PROVE  Effective(m) \in Conf
<1>1. \A f \in {"enabled", "lookback"} : Effective(m)[f] \in Values
  BY DeskAssumption DEF Effective, SettingsTyped, Row, Fields
<1>2. \A f \in {"enabled", "lookback"} : Effective(m)[f] \in Nat
  BY <1>1 DEF Validates, Values, None
<1>3. Effective(m) = [f \in {"enabled", "lookback"} |-> Effective(m)[f]]
  BY DEF Effective
<1>4. QED
  BY <1>2, <1>3 DEF Conf

\* Trades and their records keep the types.
LEMMA TypedTrades ==
    ASSUME SettingsTyped, RetirementTyped,
           \/ \E m \in Models : Opens(m)
           \/ \E m \in Models, how \in {"sale", "leg"}, pnl \in scene.pnls : Closes(m, how, pnl)
           \/ Rewatch
    PROVE  RetirementTyped'
<1>1. ASSUME NEW m \in Models, Opens(m)
      PROVE  RetirementTyped'
  <2> DEFINE c == IF Validates(m) THEN Effective(m) ELSE DefaultConfig
             h == [open |-> TRUE, watched |-> Validates(m), config |-> c]
  <2>1. c \in Conf
    BY EffectiveConf, Blank
  <2>2. Validates(m) \in BOOLEAN
    BY DEF Validates
  <2>3. held' = [held EXCEPT ![m] = h]
    BY <1>1 DEF Opens
  <2> HIDE DEF c
  <2>4. h \in Position
    BY <2>1, <2>2 DEF Position
  <2> HIDE DEF h
  <2>5. held' \in [Models -> Position]
    BY <2>3, <2>4 DEF RetirementTyped
  <2>6. QED
    BY <1>1, <2>5 DEF Opens, RetirementTyped
<1>2. ASSUME NEW m \in Models, NEW how \in {"sale", "leg"}, NEW pnl \in scene.pnls, Closes(m, how, pnl)
      PROVE  RetirementTyped'
  <2> DEFINE counted == how = "leg" \/ Validates(m)
             c == IF how = "leg" THEN held[m].config ELSE Effective(m)
             d == [NoClosing EXCEPT !.pc = "read", !.model = m, !.how = how, !.pnl = pnl, !.config = c]
  <2>1. pnl \in Int
    BY DEF SettingsTyped, Scene
  <2>2. held[m] \in Position /\ since[m] \in Seq(Int)
    BY DEF RetirementTyped
  <2>3. counted => c \in Conf
    BY <2>2, EffectiveConf DEF Position
  <2>4. /\ held' = [held EXCEPT ![m] = NoPosition]
        /\ since' = IF counted THEN [since EXCEPT ![m] = Append(since[m], pnl)] ELSE since
        /\ closing' = IF counted THEN d ELSE NoClosing
        /\ perf' = perf /\ resets' = resets
    BY <1>2 DEF Closes
  <2> HIDE DEF c
  <2>5. counted => d \in Closure /\ d.model = m
    BY <2>1, <2>3, Blank DEF Closure
  <2> HIDE DEF d, counted
  <2>6. closing' \in Closure /\ (closing'.pc # "none" => closing'.model \in Models)
    <3>1. NoClosing.pc = "none"
      BY DEF NoClosing
    <3>2. QED
      BY <2>4, <2>5, <3>1, Blank
  <2>7. held' \in [Models -> Position] /\ since' \in [Models -> Seq(Int)]
    <3>1. Append(since[m], pnl) \in Seq(Int)
      BY <2>1, <2>2
    <3>2. QED
      BY <2>4, <3>1, Blank DEF RetirementTyped
  <2>8. QED
    BY <2>4, <2>6, <2>7 DEF RetirementTyped
<1>3. CASE Rewatch
  <2> DEFINE h == [NoPosition EXCEPT !.open = TRUE, !.watched = TRUE]
  <2>1. h \in Position
    BY Blank DEF Position
  <2> HIDE DEF h
  <2>2. held' \in [Models -> Position]
    BY <1>3, <2>1, Blank DEF Rewatch, h
  <2>3. QED
    BY <1>3, <2>2 DEF Rewatch, RetirementTyped
<1>4. QED
  BY <1>1, <1>2, <1>3

\* What recording a trade makes of the row and of the record.
LEMMA TypedRecord ==
    ASSUME RetirementTyped, RecordSteps \/ \E m \in Models : Ages(m)
    PROVE  RetirementTyped'
<1>1. closing \in Closure /\ \A m \in Models : perf[m] \in PerfRow
  BY DEF RetirementTyped
<1>2. CASE ReadRow
  <2> DEFINE m == closing.model
             p == [perf[m] EXCEPT !.exists = TRUE]
             d == [closing EXCEPT !.pc = "record", !.seen = p]
  <2>1. m \in Models
    BY <1>2 DEF ReadRow, Closing, RetirementTyped
  <2>2. p \in PerfRow
    BY <1>1, <2>1 DEF PerfRow
  <2>3. perf' = [perf EXCEPT ![m] = p] /\ closing' = d /\ Kept
    BY <1>2, <2>1 DEF ReadRow, RetirementTyped
  <2> HIDE DEF p
  <2>4. d \in Closure /\ d.model = m
    BY <1>1, <2>2 DEF Closure
  <2> HIDE DEF d, m
  <2>5. QED
    BY <2>1, <2>2, <2>3, <2>4 DEF Kept, RetirementTyped
<1>3. CASE RecordTrade
  <2> DEFINE m == closing.model
             p == Update(perf[m], closing.seen, Recorded(closing.seen, closing.pnl, closing.config))
             d == [closing EXCEPT !.pc = "check"]
  <2>1. m \in Models
    BY <1>3 DEF RecordTrade, Closing, RetirementTyped
  <2>2. p \in PerfRow
    <3>1. closing.seen \in PerfRow /\ closing.pnl \in Int /\ closing.config \in Conf
      BY <1>1 DEF Closure
    <3>2. Recorded(closing.seen, closing.pnl, closing.config) \in PerfRow
      BY <3>1, RecordedIsPerf
    <3>3. QED
      BY <1>1, <2>1, <3>1, <3>2, UpdatedPerf
  <2>3. perf' = [perf EXCEPT ![m] = p] /\ closing' = d /\ Kept
    BY <1>3, <2>1 DEF RecordTrade, RetirementTyped
  <2> HIDE DEF p
  <2>4. d \in Closure /\ d.model = m
    BY <1>1 DEF Closure
  <2> HIDE DEF d, m
  <2>5. QED
    BY <2>1, <2>2, <2>3, <2>4 DEF Kept, RetirementTyped
<1>4. CASE CheckRetirement
  <2> DEFINE m == closing.model
             d == [closing EXCEPT !.pc = "tell"]
             e == [closing EXCEPT !.pc = "retire", !.seen = perf[m]]
  <2>1. m \in Models
    BY <1>4 DEF CheckRetirement, Closing, RetirementTyped
  <2>2. closing' \in {NoClosing, d, e}
    BY <1>4 DEF CheckRetirement
  <2>3. d \in Closure /\ d.model = m /\ e \in Closure /\ e.model = m
    BY <1>1, <2>1 DEF Closure
  <2>4. NoClosing \in Closure /\ NoClosing.pc = "none"
    BY Blank DEF NoClosing
  <2> HIDE DEF d, e, m
  <2>5. QED
    BY <1>4, <2>1, <2>2, <2>3, <2>4 DEF CheckRetirement, Kept, RetirementTyped
<1>5. CASE Retire
  <2> DEFINE m == closing.model
             n == [closing.seen EXCEPT !.retired = TRUE]
             p == Update(perf[m], closing.seen, n)
             d == [closing EXCEPT !.pc = "tell"]
  <2>1. m \in Models
    BY <1>5 DEF Retire, Closing, RetirementTyped
  <2>2. p \in PerfRow
    <3>1. closing.seen \in PerfRow
      BY <1>1 DEF Closure
    <3>2. n \in PerfRow
      BY <3>1 DEF PerfRow
    <3>3. QED
      BY <1>1, <2>1, <3>1, <3>2, UpdatedPerf
  <2>3. perf' = [perf EXCEPT ![m] = p] /\ closing' = d /\ Kept
    BY <1>5, <2>1 DEF Retire, RetirementTyped
  <2> HIDE DEF p
  <2>4. d \in Closure /\ d.model = m
    BY <1>1 DEF Closure
  <2> HIDE DEF d, m
  <2>5. QED
    BY <2>1, <2>2, <2>3, <2>4 DEF Kept, RetirementTyped
<1>6. ASSUME NEW m \in Models, Ages(m)
      PROVE  RetirementTyped'
  <2> DEFINE p == [perf[m] EXCEPT !.first = "old"]
  <2>1. p \in PerfRow
    BY <1>1 DEF PerfRow
  <2>2. perf' = [perf EXCEPT ![m] = p]
    BY <1>6 DEF Ages, RetirementTyped
  <2> HIDE DEF p
  <2>3. QED
    BY <1>6, <2>1, <2>2 DEF Ages, Kept, RetirementTyped
<1>7. QED
  BY <1>2, <1>3, <1>4, <1>5, <1>6 DEF RecordSteps

\* Of the outcomes of the model whose record ends the last one is dropped, unless it is
\* in the row.
LEMMA LeftOutDrops ==
    ASSUME RetirementTyped
    PROVE  /\ LeftOut \in [Models -> Seq(Int)]
           /\ \A m \in Models : closing.model # m \/ closing.pc \notin {"read", "record"} =>
                  LeftOut[m] = since[m]
           /\ \A m \in Models, b \in Seq(Int), x \in Int :
                  closing.model = m /\ closing.pc \in {"read", "record"} /\ since[m] = Append(b, x) =>
                      LeftOut[m] = b
<1>1. \A m \in Models : since[m] \in Seq(Int)
  BY DEF RetirementTyped
<1>2. \A w \in Seq(Int) : w # <<>> => SubSeq(w, 1, Len(w) - 1) \in Seq(Int)
  OBVIOUS
<1>3. LeftOut \in [Models -> Seq(Int)]
  BY <1>1, <1>2 DEF LeftOut
<1>4. \A m \in Models : closing.model # m \/ closing.pc \notin {"read", "record"} =>
          LeftOut[m] = since[m]
  BY DEF LeftOut
<1>5. ASSUME NEW b \in Seq(Int), NEW x \in Int
      PROVE  Append(b, x) # <<>> /\ SubSeq(Append(b, x), 1, Len(Append(b, x)) - 1) = b
  <2> DEFINE a == SubSeq(Append(b, x), 1, Len(Append(b, x)) - 1)
  <2>1. a \in Seq(Int) /\ Len(a) = Len(b) /\ \A i \in 1..Len(b) : a[i] = b[i]
    OBVIOUS
  <2>2. Append(b, x) # <<>>
    BY AppendProperties
  <2> HIDE DEF a
  <2>3. a = b
    BY <2>1, SeqEqual
  <2>4. QED
    BY <2>2, <2>3 DEF a
<1>6. \A m \in Models, b \in Seq(Int), x \in Int :
          closing.model = m /\ closing.pc \in {"read", "record"} /\ since[m] = Append(b, x) =>
              LeftOut[m] = b
  BY <1>5 DEF LeftOut
<1>7. QED
  BY <1>3, <1>4, <1>6

\* An unretire, a record that fails and the end of the process keep the types.
LEMMA TypedUnretire ==
    ASSUME RetirementTyped,
           \/ \E t \in Threads, m \in Models : UnretireArrives(t, m)
           \/ \E t \in Threads : UnretireCommits(t)
           \/ RecordFails
           \/ RetirementEnd
    PROVE  RetirementTyped'
<1>1. ASSUME NEW t \in Threads, NEW m \in Models, UnretireArrives(t, m)
      PROVE  RetirementTyped'
  <2> DEFINE r == [pc |-> "commit", model |-> m, seen |-> perf[m]]
  <2>1. r \in Resetting /\ r.model = m
    BY DEF Resetting, RetirementTyped
  <2>2. /\ resets' = [resets EXCEPT ![t] = r]
        /\ UNCHANGED <<perf, held, closing, since, excused>>
    BY <1>1 DEF UnretireArrives
  <2> HIDE DEF r
  <2>3. QED
    BY <2>1, <2>2 DEF RetirementTyped
<1>2. ASSUME NEW t \in Threads, UnretireCommits(t)
      PROVE  RetirementTyped'
  <2> DEFINE m == resets[t].model
             seen == resets[t].seen
             p == Update(perf[m], seen, Reset(seen))
  <2>1. resets[t] \in Resetting /\ resets[t].pc = "commit"
    BY <1>2 DEF UnretireCommits, RetirementTyped
  <2>2. m \in Models /\ seen \in PerfRow
    BY <2>1 DEF RetirementTyped, Resetting
  <2>3. p \in PerfRow
    <3>1. Reset(seen) \in PerfRow
      BY <2>2, Blank DEF Reset, PerfRow
    <3>2. perf[m] \in PerfRow
      BY <2>2 DEF RetirementTyped
    <3>3. QED
      BY <2>2, <3>1, <3>2, UpdatedPerf
  <2>4. /\ perf' = [perf EXCEPT ![m] = p] /\ since' = [since EXCEPT ![m] = <<>>]
        /\ resets' = [resets EXCEPT ![t] = NoReset] /\ held' = held /\ closing' = closing
    BY <1>2 DEF UnretireCommits
  <2> HIDE DEF p, m
  <2>5. perf' \in [Models -> PerfRow] /\ since' \in [Models -> Seq(Int)]
    BY <2>2, <2>3, <2>4 DEF RetirementTyped
  <2>6. resets' \in [Threads -> Resetting] /\ NoReset.pc = "idle"
    BY <2>4, Blank DEF RetirementTyped, NoReset
  <2>7. QED
    BY <2>4, <2>5, <2>6 DEF RetirementTyped
<1>3. CASE RetirementEnd
  <2>1. NoClosing.pc = "none" /\ NoReset.pc = "idle"
    BY DEF NoClosing, NoReset
  <2>2. QED
    BY <1>3, <2>1, Blank, LeftOutDrops DEF RetirementEnd, RetirementTyped
<1>4. CASE RecordFails
  <2>1. closing' \in Closure /\ closing'.pc = "none"
    BY <1>4, Blank DEF RecordFails, ClosingDone, NoClosing
  <2>2. QED
    BY <1>4, <2>1, LeftOutDrops DEF RecordFails, RetirementTyped
<1>5. QED
  BY <1>1, <1>2, <1>3, <1>4

\* The types of the retirement are kept by every step.
LEMMA RetirementTypedStep ==
    ASSUME SettingsTyped, RetirementTyped, [Next]_vars
    PROVE  RetirementTyped'
<1>1. CASE Closing("tell") /\ ClosingDone /\ UNCHANGED <<perf, held, resets, since, excused>>
  <2>1. closing' \in Closure /\ closing'.pc = "none"
    BY <1>1, Blank DEF ClosingDone, NoClosing
  <2>2. QED
    BY <1>1, <2>1 DEF RetirementTyped
<1>2. CASE UNCHANGED retirementVars
  BY <1>2 DEF retirementVars, RetirementTyped
<1>3. QED
  BY <1>1, <1>2, RetirementSteps, TypedTrades, TypedRecord, TypedUnretire

\* At first there is no performance.
LEMMA RetirementTypedInit ==
    ASSUME Init
    PROVE  RetirementTyped
BY Blank DEF Init, RetirementInit, RetirementTyped, NoClosing, NoReset

-----------------------------------------------------------------------------
\* p is what is in the database of a row that was read as q: only its age may differ.
Agrees(p, q) ==
    /\ p.window = q.window /\ p.count = q.count /\ p.wins = q.wins /\ p.retired = q.retired
    /\ p.first = q.first \/ (q.first = "young" /\ p.first = "old")

\* p is the row of a model whose trades since it was unretired are s.
Journal(p, s) ==
    /\ EndOf(p.window, s) /\ (s # <<>> => p.window # <<>>)
    /\ p.count = Len(s) /\ p.wins = Wins(s)

\* The row p of m is that of its trades s, of which the trade that is being
\* recorded may be missing.
Noted(m, c, p, s) ==
    IF c.model = m /\ c.pc \in {"read", "record"}
    THEN \E b \in Seq(Int) :
            /\ s = Append(b, c.pnl)
            /\ c.pc = "read" => Journal(p, b)
            /\ c.pc = "record" => Agrees(p, c.seen) /\ Journal(c.seen, b)
    ELSE Journal(p, s)

\* What is known of a model that is judged by the row c.seen.
Judged(c, p, s) ==
    /\ c.pc \in {"check", "retire"} => s # <<>>
    /\ c.pc = "retire" => Agrees(p, c.seen)

Recording ==
    /\ \A m \in Models \ excused : Noted(m, closing, perf[m], since[m])
    /\ closing.pc # "none" /\ closing.model \notin excused =>
           Judged(closing, perf[closing.model], since[closing.model])
    /\ closing.pc = "retire" => Due(closing.seen) /\ Unfit(closing.seen.window)

\* What is to be shown of the state after a step.
LEMMA RecordingNext ==
    ASSUME \A n \in Models \ excused' : Noted(n, closing', perf'[n], since'[n]),
           closing'.pc # "none" /\ closing'.model \notin excused' =>
               Judged(closing', perf'[closing'.model], since'[closing'.model]),
           closing'.pc = "retire" => Due(closing'.seen) /\ Unfit(closing'.seen.window)
    PROVE  Recording'
BY DEF Recording, Noted, Judged, Journal, Agrees, EndOf, Wins, Due, Unfit, Sum

\* A journal is that of a row with the same window and the same counters.
LEMMA SameJournal ==
    ASSUME NEW p, NEW q, NEW s, p.window = q.window, p.count = q.count, p.wins = q.wins
    PROVE  Journal(p, s) <=> Journal(q, s)
BY DEF Journal

\* Another trade that is recorded is another trade of the journal.
LEMMA JournalGrows ==
    ASSUME NEW q \in PerfRow, NEW s \in Seq(Int), NEW x \in Int, NEW config \in Conf,
           NEW p \in PerfRow, Agrees(p, q), Journal(q, s)
    PROVE  /\ Journal(Update(p, q, Recorded(q, x, config)), Append(s, x))
           /\ Append(s, x) # <<>>
<1> DEFINE r == Recorded(q, x, config)
           u == Update(p, q, r)
<1>1. /\ r \in PerfRow
      /\ r.window = Last(Append(q.window, x), config["lookback"])
      /\ r.count = q.count + 1
      /\ r.wins = (IF x > 0 THEN q.wins + 1 ELSE q.wins)
  BY RecordedIsPerf
<1> HIDE DEF r
<1>2. \A f \in {"exists", "window", "count", "wins", "first", "retired"} :
          u[f] = IF r[f] = q[f] THEN p[f] ELSE r[f]
  BY <1>1, UpdatedPerf
<1> HIDE DEF u
<1>3. u.window = r.window /\ u.count = r.count /\ u.wins = r.wins
  BY <1>2 DEF Agrees
<1>4. q.window \in Seq(Int) /\ config["lookback"] \in Nat
  BY DEF PerfRow, Conf
<1>5. EndOf(r.window, Append(s, x)) /\ r.window # <<>>
  BY <1>1, <1>4, EndsGrow DEF Journal
<1>6. r.count = Len(Append(s, x))
  BY <1>1 DEF Journal
<1>7. r.wins = Wins(Append(s, x))
  BY <1>1, WinsGrow DEF Journal
<1>8. Append(s, x) # <<>>
  BY AppendProperties
<1>9. Journal(u, Append(s, x))
  BY <1>3, <1>5, <1>6, <1>7 DEF Journal
<1>10. QED
  BY <1>8, <1>9 DEF u, r

\* A position that closes leaves the rows; its trade is yet to be recorded.
LEMMA RecordingCloses ==
    ASSUME RetirementTyped, SettingsTyped, Recording, closing.pc = "none",
           NEW m \in Models, NEW how \in {"sale", "leg"}, NEW pnl \in scene.pnls, Closes(m, how, pnl)
    PROVE  Recording'
<1> DEFINE counted == how = "leg" \/ Validates(m)
           c == IF how = "leg" THEN held[m].config ELSE Effective(m)
           d == [NoClosing EXCEPT !.pc = "read", !.model = m, !.how = how, !.pnl = pnl, !.config = c]
<1>1. /\ since' = IF counted THEN [since EXCEPT ![m] = Append(since[m], pnl)] ELSE since
      /\ closing' = IF counted THEN d ELSE NoClosing
      /\ excused' = excused
      /\ perf' = perf
  BY DEF Closes
<1>2. d.pc = "read" /\ d.model = m /\ d.pnl = pnl
  BY DEF NoClosing
<1>3. NoClosing.pc = "none"
  BY DEF NoClosing
<1> HIDE DEF c, d, counted
<1>4. ASSUME NEW n \in Models \ excused'
      PROVE  Noted(n, closing', perf'[n], since'[n])
  <2>1. n \in Models /\ n \notin excused /\ Noted(n, closing, perf[n], since[n])
    BY <1>1, <1>4 DEF Recording
  <2>2. Journal(perf[n], since[n])
    BY <2>1 DEF Noted
  <2>5. CASE ~counted
    BY <1>1, <1>3, <2>2, <2>5 DEF Noted
  <2>3. CASE counted /\ n = m
    <3>1. closing' = d
      BY <1>1, <2>3
    <3>2. since'[n] = Append(since[n], pnl) /\ since[n] \in Seq(Int)
      BY <1>1, <2>3 DEF RetirementTyped
    <3>3. QED
      BY <1>1, <1>2, <2>2, <2>3, <3>1, <3>2 DEF Noted
  <2>4. CASE n # m
    <3>1. since'[n] = since[n]
      BY <1>1, <2>1, <2>4 DEF RetirementTyped
    <3>2. ~(closing'.model = n /\ closing'.pc \in {"read", "record"})
      BY <1>1, <1>2, <1>3, <2>4
    <3>3. QED
      BY <1>1, <2>2, <3>1, <3>2 DEF Noted
  <2>6. QED
    BY <2>3, <2>4, <2>5
<1>5. closing'.pc \in {"read", "none"}
  BY <1>1, <1>2, <1>3
<1>6. closing'.pc # "none" /\ closing'.model \notin excused' =>
           Judged(closing', perf'[closing'.model], since'[closing'.model])
  BY <1>5 DEF Judged
<1>7. QED
  BY <1>4, <1>5, <1>6, RecordingNext

\* What a step shows of a model that it leaves alone.
LEMMA NotedStays ==
    ASSUME NEW m, NEW c, NEW d, NEW p, NEW s, Noted(m, c, p, s),
           c.model # m \/ c.pc \notin {"read", "record"},
           d.model # m \/ d.pc \notin {"read", "record"}
    PROVE  Noted(m, d, p, s)
BY DEF Noted

\* The record of a trade, one commit after the other.
LEMMA RecordingRecords ==
    ASSUME RetirementTyped, Recording, RecordSteps
    PROVE  Recording'
<1> DEFINE m == closing.model
<1>1. closing \in Closure /\ closing.pc # "none" /\ m \in Models
  BY DEF RecordSteps, ReadRow, RecordTrade, CheckRetirement, Retire, Closing, RetirementTyped
<1>2. perf[m] \in PerfRow /\ since[m] \in Seq(Int)
  BY <1>1 DEF RetirementTyped
<1>3. Kept
  BY DEF RecordSteps, ReadRow, RecordTrade, CheckRetirement, Retire
<1>4. since' = since /\ excused' = excused
  BY <1>3 DEF Kept
<1>5. ASSUME NEW p, NEW d, NEW n \in Models \ excused, n # m, d.model = m \/ d.pc = "none",
             perf' = [perf EXCEPT ![m] = p] \/ perf' = perf
      PROVE  Noted(n, d, perf'[n], since[n])
  <2>1. perf'[n] = perf[n]
    BY <1>5 DEF RetirementTyped
  <2>2. Noted(n, closing, perf[n], since[n])
    BY <1>5 DEF Recording
  <2>3. QED
    BY <1>5, <2>1, <2>2, NotedStays
<1>6. ASSUME NEW p, NEW d, perf' = [perf EXCEPT ![m] = p], closing' = d, d.model = m,
             m \notin excused => Noted(m, d, p, since[m]) /\ Judged(d, p, since[m]),
             d.pc # "retire"
      PROVE  Recording'
  <2>1. perf'[m] = p
    BY <1>1, <1>6 DEF RetirementTyped
  <2>2. \A n \in Models \ excused : Noted(n, d, perf'[n], since[n])
    <3> TAKE n \in Models \ excused
    <3>1. CASE n = m
      BY <1>6, <2>1, <3>1
    <3>2. CASE n # m
      BY <1>5, <1>6, <3>2
    <3>3. QED
      BY <3>1, <3>2
  <2>3. \A n \in Models \ excused' : Noted(n, closing', perf'[n], since'[n])
    BY <1>4, <1>6, <2>2
  <2>4. closing'.pc # "none" /\ closing'.model \notin excused' =>
           Judged(closing', perf'[closing'.model], since'[closing'.model])
    BY <1>4, <1>6, <2>1
  <2>5. closing'.pc # "retire"
    BY <1>6
  <2>6. QED
    BY <2>3, <2>4, <2>5, RecordingNext
<1>7. CASE ReadRow
  <2> DEFINE p == [perf[m] EXCEPT !.exists = TRUE]
             d == [closing EXCEPT !.pc = "record", !.seen = p]
  <2>1. perf' = [perf EXCEPT ![m] = p] /\ closing' = d /\ closing.pc = "read"
    BY <1>1, <1>7 DEF ReadRow, Closing, RetirementTyped
  <2>2. /\ p.window = perf[m].window /\ p.count = perf[m].count /\ p.wins = perf[m].wins
        /\ p.retired = perf[m].retired /\ p.first = perf[m].first
    BY <1>2 DEF PerfRow
  <2> HIDE DEF p
  <2>3. d.pc = "record" /\ d.seen = p /\ d.model = m /\ d.pnl = closing.pnl
    BY <1>1 DEF Closure
  <2> HIDE DEF d
  <2>4. ASSUME m \notin excused
        PROVE  Noted(m, d, p, since[m])
    <3>1. Noted(m, closing, perf[m], since[m])
      BY <1>1, <2>4 DEF Recording
    <3>2. PICK b \in Seq(Int) : since[m] = Append(b, closing.pnl) /\ Journal(perf[m], b)
      BY <2>1, <3>1 DEF Noted
    <3>3. Journal(p, b)
      BY <2>2, <3>2, SameJournal
    <3>4. Agrees(p, p)
      BY DEF Agrees
    <3>5. QED
      BY <2>3, <3>2, <3>3, <3>4 DEF Noted
  <2>5. Judged(d, p, since[m])
    BY <2>3 DEF Judged
  <2>6. QED
    BY <1>6, <2>1, <2>3, <2>4, <2>5
<1>8. CASE RecordTrade
  <2> DEFINE p == Update(perf[m], closing.seen, Recorded(closing.seen, closing.pnl, closing.config))
             d == [closing EXCEPT !.pc = "check"]
  <2>1. perf' = [perf EXCEPT ![m] = p] /\ closing' = d /\ closing.pc = "record"
    BY <1>1, <1>8 DEF RecordTrade, Closing, RetirementTyped
  <2>2. d.pc = "check" /\ d.model = m
    BY <1>1 DEF Closure
  <2> HIDE DEF d
  <2>3. ASSUME m \notin excused
        PROVE  Journal(p, since[m]) /\ since[m] # <<>>
    <3>1. Noted(m, closing, perf[m], since[m])
      BY <1>1, <2>3 DEF Recording
    <3>2. PICK b \in Seq(Int) : /\ since[m] = Append(b, closing.pnl)
                                /\ Agrees(perf[m], closing.seen) /\ Journal(closing.seen, b)
      BY <2>1, <3>1 DEF Noted
    <3>3. closing.seen \in PerfRow /\ closing.pnl \in Int /\ closing.config \in Conf
      BY <1>1 DEF Closure
    <3>4. QED
      BY <1>2, <3>2, <3>3, JournalGrows
  <2> HIDE DEF p
  <2>4. m \notin excused => Noted(m, d, p, since[m]) /\ Judged(d, p, since[m])
    BY <2>2, <2>3 DEF Noted, Judged
  <2>5. QED
    BY <1>6, <2>1, <2>2, <2>4
<1>9. CASE CheckRetirement
  <2> DEFINE p == perf[m]
             d == [closing EXCEPT !.pc = "tell"]
             e == [closing EXCEPT !.pc = "retire", !.seen = p]
  <2>1. perf' = perf /\ closing.pc = "check"
    BY <1>9 DEF CheckRetirement, Closing
  <2>2. closing' \in {NoClosing, d} \/ (closing' = e /\ Due(p) /\ Unfit(p.window))
    BY <1>9 DEF CheckRetirement
  <2>3. /\ d.pc = "tell" /\ d.model = m
        /\ e.pc = "retire" /\ e.model = m /\ e.seen = p
        /\ NoClosing.pc = "none"
    BY <1>1, <1>2 DEF Closure, NoClosing
  <2> HIDE DEF d, e
  <2>4. /\ closing'.model = m \/ closing'.pc = "none"
        /\ closing'.pc \in {"none", "tell", "retire"}
        /\ closing'.pc = "retire" => closing'.seen = p /\ Due(p) /\ Unfit(p.window)
    BY <2>2, <2>3
  <2>5. \A n \in Models \ excused' : Noted(n, closing', perf'[n], since'[n])
    <3> TAKE n \in Models \ excused'
    <3>1. Noted(n, closing, perf[n], since[n])
      BY <1>4 DEF Recording
    <3>2. Noted(n, closing', perf[n], since[n])
      BY <2>1, <2>4, <3>1, NotedStays
    <3>3. QED
      BY <1>4, <2>1, <3>2
  <2>6. closing'.pc # "none" /\ closing'.model \notin excused' =>
           Judged(closing', perf'[closing'.model], since'[closing'.model])
    <3> SUFFICES ASSUME closing'.pc # "none", m \notin excused, closing'.model = m
                 PROVE  Judged(closing', perf[m], since[m])
      BY <1>4, <2>1, <2>4
    <3>1. since[m] # <<>>
      BY <1>1, <2>1 DEF Recording, Judged
    <3>2. Agrees(p, p)
      BY DEF Agrees
    <3>3. QED
      BY <2>4, <3>1, <3>2 DEF Judged
  <2>7. closing'.pc = "retire" => Due(closing'.seen) /\ Unfit(closing'.seen.window)
    BY <2>4
  <2>8. QED
    BY <2>5, <2>6, <2>7, RecordingNext
<1>10. CASE Retire
  <2> DEFINE r == [closing.seen EXCEPT !.retired = TRUE]
             p == Update(perf[m], closing.seen, r)
             d == [closing EXCEPT !.pc = "tell"]
  <2>1. perf' = [perf EXCEPT ![m] = p] /\ closing' = d /\ closing.pc = "retire"
    BY <1>1, <1>10 DEF Retire, Closing, RetirementTyped
  <2>2. d.pc = "tell" /\ d.model = m
    BY <1>1 DEF Closure
  <2> HIDE DEF d
  <2>3. ASSUME m \notin excused
        PROVE  Noted(m, d, p, since[m])
    <3>1. Journal(perf[m], since[m])
      BY <1>1, <2>1, <2>3 DEF Recording, Noted
    <3>2. Agrees(perf[m], closing.seen)
      BY <1>1, <2>1, <2>3 DEF Recording, Judged
    <3>3. closing.seen \in PerfRow
      BY <1>1 DEF Closure
    <3>4. /\ r \in PerfRow /\ r.window = closing.seen.window /\ r.count = closing.seen.count
          /\ r.wins = closing.seen.wins
      BY <3>3 DEF PerfRow
    <3> HIDE DEF r
    <3>5. \A f \in {"exists", "window", "count", "wins", "first", "retired"} :
              p[f] = IF r[f] = closing.seen[f] THEN perf[m][f] ELSE r[f]
      BY <1>2, <3>3, <3>4, UpdatedPerf
    <3> HIDE DEF p
    <3>6. p.window = perf[m].window /\ p.count = perf[m].count /\ p.wins = perf[m].wins
      BY <3>4, <3>5
    <3>7. Journal(p, since[m])
      BY <3>1, <3>6, SameJournal
    <3>8. QED
      BY <2>2, <3>7 DEF Noted
  <2> HIDE DEF p
  <2>4. Judged(d, p, since[m])
    BY <2>2 DEF Judged
  <2>5. QED
    BY <1>6, <2>1, <2>2, <2>3, <2>4
<1>11. QED
  BY <1>7, <1>8, <1>9, <1>10 DEF RecordSteps

\* A model that grows old is judged by the same trades.
LEMMA RecordingAges ==
    ASSUME RetirementTyped, Recording, NEW m \in Models, Ages(m)
    PROVE  Recording'
<1> DEFINE p == [perf[m] EXCEPT !.first = "old"]
<1>1. perf[m] \in PerfRow /\ perf[m].first = "young"
  BY DEF RetirementTyped, Ages
<1>2. perf' = [perf EXCEPT ![m] = p] /\ closing' = closing /\ since' = since /\ excused' = excused
  BY DEF Ages, Kept, RetirementTyped
<1>3. /\ p.window = perf[m].window /\ p.count = perf[m].count /\ p.wins = perf[m].wins
      /\ p.retired = perf[m].retired /\ p.first = "old"
  BY <1>1 DEF PerfRow
<1> HIDE DEF p
<1>4. perf'[m] = p /\ \A n \in Models \ {m} : perf'[n] = perf[n]
  BY <1>2 DEF RetirementTyped
<1>5. \A q : Agrees(perf[m], q) => Agrees(p, q)
  BY <1>1, <1>3 DEF Agrees
<1>6. \A s : Journal(perf[m], s) => Journal(p, s)
  BY <1>3, SameJournal
<1>7. ASSUME NEW s, Noted(m, closing, perf[m], s)
      PROVE  Noted(m, closing, p, s)
  BY <1>5, <1>6, <1>7 DEF Noted
<1>8. \A n \in Models \ excused' : Noted(n, closing', perf'[n], since'[n])
  BY <1>2, <1>4, <1>7 DEF Recording
<1>9. ASSUME closing.pc # "none", closing.model \notin excused
      PROVE  Judged(closing, perf'[closing.model], since[closing.model])
  <2>1. closing.model \in Models /\ Judged(closing, perf[closing.model], since[closing.model])
    BY <1>9 DEF Recording, RetirementTyped
  <2>2. CASE closing.model = m
    BY <1>4, <1>5, <2>1, <2>2 DEF Judged
  <2>3. CASE closing.model # m
    BY <1>4, <2>1, <2>3
  <2>4. QED
    BY <2>2, <2>3
<1>10. closing.pc = "retire" => Due(closing.seen) /\ Unfit(closing.seen.window)
  BY DEF Recording
<1>11. QED
  BY <1>2, <1>8, <1>9, <1>10, RecordingNext

\* Nothing has been traded in an empty list.
LEMMA NothingTraded ==
    ASSUME NEW p, p.window = <<>>, p.count = 0, p.wins = 0
    PROVE  Journal(p, <<>>)
<1>1. Wins(<<>>) = 0
  <2>1. {k \in DOMAIN <<>> : <<>>[k] > 0} = {}
    OBVIOUS
  <2>2. QED
    BY <2>1, FS_EmptySet DEF Wins
<1>2. EndOf(<<>>, <<>>)
  <2>1. 0 \in 0..Len(<<>>) /\ <<>> = SubSeq(<<>>, 0 + 1, Len(<<>>))
    OBVIOUS
  <2>2. QED
    BY <2>1 DEF EndOf
<1>3. QED
  BY <1>1, <1>2 DEF Journal

\* A row of a model that was unretired undisturbed starts anew.
LEMMA RecordingUnretires ==
    ASSUME RetirementTyped, Recording, NEW t \in Threads, UnretireCommits(t)
    PROVE  Recording'
<1> DEFINE m == resets[t].model
           seen == resets[t].seen
           p == Update(perf[m], seen, Reset(seen))
           clean == [perf[m] EXCEPT !.first = seen.first] = seen /\ closing.model # m
<1>1. m \in Models /\ seen \in PerfRow /\ perf[m] \in PerfRow
  BY DEF UnretireCommits, RetirementTyped, Resetting
<1>2. /\ perf' = [perf EXCEPT ![m] = p] /\ since' = [since EXCEPT ![m] = <<>>]
      /\ excused' = IF clean THEN excused \ {m} ELSE excused \cup {m}
      /\ closing' = closing
  BY DEF UnretireCommits
<1>3. ASSUME clean
      PROVE  p.window = <<>> /\ p.count = 0 /\ p.wins = 0
  <2>1. /\ perf[m].window = seen.window /\ perf[m].count = seen.count /\ perf[m].wins = seen.wins
    BY <1>1, <1>3 DEF PerfRow
  <2>2. Reset(seen) \in PerfRow
    BY <1>1, Blank DEF Reset, PerfRow
  <2>3. Reset(seen).window = <<>> /\ Reset(seen).count = 0 /\ Reset(seen).wins = 0
    BY DEF Reset, Unborn
  <2>4. \A f \in {"exists", "window", "count", "wins", "first", "retired"} :
            p[f] = IF Reset(seen)[f] = seen[f] THEN perf[m][f] ELSE Reset(seen)[f]
    BY <1>1, <2>2, UpdatedPerf
  <2> HIDE DEF p
  <2>5. QED
    BY <2>1, <2>3, <2>4
<1> HIDE DEF p
<1>4. clean => closing.model # m
  OBVIOUS
<1> HIDE DEF clean, seen, m
<1>5. perf'[m] = p /\ since'[m] = <<>>
      /\ \A n \in Models \ {m} : perf'[n] = perf[n] /\ since'[n] = since[n]
  BY <1>1, <1>2 DEF RetirementTyped
<1>6. ASSUME NEW n \in Models \ excused'
      PROVE  Noted(n, closing, perf'[n], since'[n])
  <2>1. CASE n = m
    <3>1. clean
      BY <1>2, <1>6, <2>1
    <3>2. Journal(p, <<>>)
      BY <1>3, <3>1, NothingTraded
    <3>3. QED
      BY <1>4, <1>5, <2>1, <3>1, <3>2 DEF Noted
  <2>2. CASE n # m
    <3>1. n \notin excused
      BY <1>2, <1>6, <2>2
    <3>2. QED
      BY <1>5, <2>2, <3>1 DEF Recording
  <2>3. QED
    BY <2>1, <2>2
<1>7. ASSUME closing.pc # "none", closing.model \notin excused'
      PROVE  Judged(closing, perf'[closing.model], since'[closing.model])
  <2>1. closing.model # m
    BY <1>2, <1>4, <1>7
  <2>2. closing.model \in Models /\ closing.model \notin excused
    BY <1>2, <1>7, <2>1 DEF RetirementTyped
  <2>3. QED
    BY <1>5, <1>7, <2>1, <2>2 DEF Recording
<1>8. closing.pc = "retire" => Due(closing.seen) /\ Unfit(closing.seen.window)
  BY DEF Recording
<1>9. QED
  BY <1>2, <1>6, <1>7, <1>8, RecordingNext

\* When the record of a trade ends early the row is that of the other trades.
LEMMA RecordingEnds ==
    ASSUME RetirementTyped, Recording, closing' = NoClosing, perf' = perf, since' = LeftOut,
           excused' = excused
    PROVE  Recording'
<1>1. NoClosing.pc = "none"
  BY DEF NoClosing
<1>2. ASSUME NEW n \in Models \ excused
      PROVE  Noted(n, NoClosing, perf[n], LeftOut[n])
  <2>1. Noted(n, closing, perf[n], since[n])
    BY <1>2 DEF Recording
  <2>2. CASE closing.model # n \/ closing.pc \notin {"read", "record"}
    <3>1. LeftOut[n] = since[n]
      BY <1>2, <2>2, LeftOutDrops
    <3>2. QED
      BY <1>1, <2>1, <2>2, <3>1, NotedStays
  <2>3. CASE closing.model = n /\ closing.pc \in {"read", "record"}
    <3>1. PICK b \in Seq(Int) :
              /\ since[n] = Append(b, closing.pnl)
              /\ closing.pc = "read" => Journal(perf[n], b)
              /\ closing.pc = "record" => Agrees(perf[n], closing.seen) /\ Journal(closing.seen, b)
      BY <2>1, <2>3 DEF Noted
    <3>2. Journal(perf[n], b)
      BY <2>3, <3>1, SameJournal DEF Agrees
    <3>3. closing.pnl \in Int
      BY DEF RetirementTyped, Closure
    <3>4. LeftOut[n] = b
      BY <1>2, <2>3, <3>1, <3>3, LeftOutDrops
    <3>5. QED
      BY <1>1, <3>2, <3>4 DEF Noted
  <2>4. QED
    BY <2>2, <2>3
<1>3. QED
  BY <1>1, <1>2, RecordingNext

\* Every step keeps what the rows say of the trades.
LEMMA RecordingStep ==
    ASSUME SettingsTyped, RetirementTyped, Recording, [Next]_vars
    PROVE  Recording'
<1>1. CASE UNCHANGED <<perf, closing, since, excused>>
  BY <1>1, RecordingNext DEF Recording
<1>2. CASE \E m \in Models : Opens(m)
  BY <1>1, <1>2 DEF Opens
<1>3. CASE \E t \in Threads, m \in Models : UnretireArrives(t, m)
  BY <1>1, <1>3 DEF UnretireArrives
<1>4. CASE Rewatch
  BY <1>1, <1>4 DEF Rewatch
<1>5. CASE UNCHANGED retirementVars
  BY <1>1, <1>5 DEF retirementVars
<1>6. CASE Closing("tell") /\ ClosingDone /\ UNCHANGED <<perf, held, resets, since, excused>>
  <2>1. LeftOut \in [Models -> Seq(Int)] /\ \A m \in Models : LeftOut[m] = since[m]
    BY <1>6, LeftOutDrops DEF Closing
  <2>2. LeftOut = since
    BY <2>1 DEF RetirementTyped
  <2>3. QED
    BY <1>6, <2>2, RecordingEnds DEF ClosingDone
<1>7. CASE RetirementEnd \/ RecordFails
  BY <1>7, RecordingEnds DEF RetirementEnd, RecordFails, ClosingDone
<1>8. QED
  BY <1>2, <1>3, <1>4, <1>5, <1>6, <1>7,
     RetirementSteps, RecordingCloses, RecordingRecords, RecordingAges, RecordingUnretires

\* At first nothing is traded and nothing is recorded.
LEMMA RecordingInit ==
    ASSUME Init
    PROVE  Recording
<1>1. /\ perf = [m \in Models |-> Unborn] /\ since = [m \in Models |-> <<>>]
      /\ closing = NoClosing /\ NoClosing.pc = "none"
  BY DEF Init, RetirementInit, NoClosing
<1>2. Journal(Unborn, <<>>)
  <2>1. Unborn.window = <<>> /\ Unborn.count = 0 /\ Unborn.wins = 0
    BY DEF Unborn
  <2>2. QED
    BY <2>1, NothingTraded
<1>3. QED
  BY <1>1, <1>2 DEF Recording, Noted

\* WindowIsJournal: the row of a model is that of its journal but for the trades whose own
\* record failed, was cut off or was refused, whichever trades, failures, crashes and
\* undisturbed unretires come before and after (record_trade, its callers' except,
\* unretire_model).
THEOREM RowsFollowJournal == Spec => []WindowIsJournal
<1>1. Init => SettingsTyped /\ RetirementTyped /\ Recording
  BY SettingsTypedInit, RetirementTypedInit, RecordingInit
<1>2. SettingsTyped /\ RetirementTyped /\ Recording /\ [Next]_vars
          => (SettingsTyped /\ RetirementTyped /\ Recording)'
  BY SettingsTypedStep, RetirementTypedStep, RecordingStep
<1>3. Recording => WindowIsJournal
  BY DEF Recording, Noted, Journal, WindowIsJournal
<1>4. QED
  BY <1>1, <1>2, <1>3, PTL DEF Spec

\* Only the step that retires makes a model retired.
LEMMA OnlyRetireRetires ==
    ASSUME SettingsTyped, RetirementTyped, [Next]_vars, NEW m \in Models,
           perf'[m].retired, ~perf[m].retired
    PROVE  Retire /\ m = closing.model
<1>1. perf[m] \in PerfRow /\ perf' # perf
  BY DEF RetirementTyped
<1>2. CASE RecordSteps
  <2> DEFINE n == closing.model
  <2>1. closing \in Closure /\ n \in Models /\ closing.seen \in PerfRow /\ perf[n] \in PerfRow
        /\ closing.pnl \in Int /\ closing.config \in Conf
    BY <1>2 DEF RecordSteps, ReadRow, RecordTrade, CheckRetirement, Retire, Closing,
               RetirementTyped, Closure
  <2>2. CASE ReadRow
    <3> DEFINE p == [perf[n] EXCEPT !.exists = TRUE]
    <3>1. perf' = [perf EXCEPT ![n] = p]
      BY <2>1, <2>2 DEF ReadRow, RetirementTyped
    <3>2. p.retired = perf[n].retired
      BY <2>1 DEF PerfRow
    <3> HIDE DEF p
    <3>3. QED
      BY <2>1, <3>1, <3>2 DEF RetirementTyped
  <2>3. CASE RecordTrade
    <3> DEFINE r == Recorded(closing.seen, closing.pnl, closing.config)
               p == Update(perf[n], closing.seen, r)
    <3>1. perf' = [perf EXCEPT ![n] = p]
      BY <2>3 DEF RecordTrade
    <3>2. r \in PerfRow /\ r.retired = closing.seen.retired
      BY <2>1, RecordedIsPerf
    <3> HIDE DEF r
    <3>3. p["retired"] = IF r["retired"] = closing.seen["retired"] THEN perf[n]["retired"] ELSE r["retired"]
      BY <2>1, <3>2, UpdatedPerf
    <3> HIDE DEF p
    <3>4. p.retired = perf[n].retired
      BY <3>2, <3>3
    <3>5. QED
      BY <2>1, <3>1, <3>4 DEF RetirementTyped
  <2>4. CASE CheckRetirement
    BY <1>1, <2>4 DEF CheckRetirement
  <2>5. CASE Retire
    <3>1. CASE m # n
      BY <2>5, <3>1 DEF Retire, RetirementTyped
    <3>2. QED
      BY <2>5, <3>1
  <2>6. QED
    BY <1>2, <2>2, <2>3, <2>4, <2>5 DEF RecordSteps
<1>3. ASSUME NEW n \in Models, Ages(n)
      PROVE  FALSE
  <2> DEFINE p == [perf[n] EXCEPT !.first = "old"]
  <2>1. perf' = [perf EXCEPT ![n] = p] /\ perf[n] \in PerfRow
    BY <1>3 DEF Ages, RetirementTyped
  <2>2. p.retired = perf[n].retired
    BY <2>1 DEF PerfRow
  <2> HIDE DEF p
  <2>3. QED
    BY <2>1, <2>2 DEF RetirementTyped
<1>4. ASSUME NEW t \in Threads, UnretireCommits(t)
      PROVE  FALSE
  <2> DEFINE n == resets[t].model
             seen == resets[t].seen
             p == Update(perf[n], seen, Reset(seen))
  <2>1. n \in Models /\ seen \in PerfRow /\ perf[n] \in PerfRow
    BY <1>4 DEF UnretireCommits, RetirementTyped, Resetting
  <2>2. perf' = [perf EXCEPT ![n] = p]
    BY <1>4 DEF UnretireCommits
  <2>3. Reset(seen) \in PerfRow /\ Reset(seen).retired = FALSE
    BY <2>1, Blank DEF Reset, PerfRow, Unborn
  <2>4. p["retired"] = IF Reset(seen)["retired"] = seen["retired"] THEN perf[n]["retired"]
                       ELSE Reset(seen)["retired"]
    BY <2>1, <2>3, UpdatedPerf
  <2> HIDE DEF p
  <2>5. p.retired => perf[n].retired
    BY <2>3, <2>4
  <2> HIDE DEF n
  <2>6. QED
    BY <2>1, <2>2, <2>5 DEF RetirementTyped
<1>5. CASE UNCHANGED perf
  BY <1>1, <1>5
<1>6. QED
  BY <1>2, <1>3, <1>4, <1>5, RetirementSteps
     DEF Opens, Closes, RecordFails, UnretireArrives, Rewatch, RetirementEnd, retirementVars

\* RetiredForCause: a model is retired for what its row shows, unless it is unretired at
\* the same time (check_retirement).
THEOREM RetirementHasCause == Spec => RetiredForCause
<1> DEFINE A == \A m \in Models \ excused' :
        perf'[m].retired /\ ~perf[m].retired =>
            /\ perf'[m].first = "old" \/ perf'[m].count >= MinTrades
            /\ \/ 2 * Wins(perf'[m].window) < Len(perf'[m].window)
               \/ Sum(perf'[m].window) < MinPnl
<1>1. Init => SettingsTyped /\ RetirementTyped /\ Recording
  BY SettingsTypedInit, RetirementTypedInit, RecordingInit
<1>2. SettingsTyped /\ RetirementTyped /\ Recording /\ [Next]_vars
          => (SettingsTyped /\ RetirementTyped /\ Recording)'
  BY SettingsTypedStep, RetirementTypedStep, RecordingStep
<1>3. SettingsTyped /\ RetirementTyped /\ Recording /\ [Next]_vars => [A]_vars
  <2> SUFFICES ASSUME SettingsTyped, RetirementTyped, Recording, [Next]_vars,
                      NEW m \in Models, m \notin excused', perf'[m].retired, ~perf[m].retired
               PROVE  /\ perf'[m].first = "old" \/ perf'[m].count >= MinTrades
                      /\ \/ 2 * Wins(perf'[m].window) < Len(perf'[m].window)
                         \/ Sum(perf'[m].window) < MinPnl
    OBVIOUS
  <2> DEFINE r == [closing.seen EXCEPT !.retired = TRUE]
             p == Update(perf[m], closing.seen, r)
  <2>1. Retire /\ m = closing.model
    BY OnlyRetireRetires
  <2>2. closing.pc = "retire" /\ m \notin excused /\ closing \in Closure
    BY <2>1 DEF Retire, Closing, Kept, RetirementTyped
  <2>3. perf'[m] = p
    BY <2>1 DEF Retire, RetirementTyped
  <2>4. closing.seen \in PerfRow /\ perf[m] \in PerfRow
    BY <2>2 DEF Closure, RetirementTyped
  <2>5. /\ r \in PerfRow /\ r.window = closing.seen.window /\ r.count = closing.seen.count
        /\ r.first = closing.seen.first
    BY <2>4 DEF PerfRow
  <2> HIDE DEF r
  <2>6. \A f \in {"exists", "window", "count", "wins", "first", "retired"} :
            p[f] = IF r[f] = closing.seen[f] THEN perf[m][f] ELSE r[f]
    BY <2>4, <2>5, UpdatedPerf
  <2> HIDE DEF p
  <2>7. p.window = perf[m].window /\ p.count = perf[m].count /\ p.first = perf[m].first
    BY <2>5, <2>6
  <2>8. /\ Agrees(perf[m], closing.seen) /\ Journal(perf[m], since[m]) /\ since[m] # <<>>
    BY <2>1, <2>2 DEF Recording, Judged, Noted
  <2>9. Due(closing.seen) /\ Unfit(closing.seen.window)
    BY <2>2 DEF Recording
  <2>10. p.first = "old" \/ p.count >= MinTrades
    BY <2>7, <2>8, <2>9 DEF Due, Agrees
  <2>11. p.window = closing.seen.window /\ p.window # <<>>
    BY <2>7, <2>8 DEF Agrees, Journal
  <2>12. 2 * Wins(p.window) < Len(p.window) \/ Sum(p.window) < MinPnl
    BY <2>9, <2>11 DEF Unfit
  <2>13. QED
    BY <2>3, <2>10, <2>12
<1>4. QED
  BY <1>1, <1>2, <1>3, PTL DEF Spec, RetiredForCause

-----------------------------------------------------------------------------
Notice == [what : {"kill", "warn", "halt", "retired"}, level : {WARNING, CRITICAL}]
Item == Notice \cup {Sentinel}
Manager == [queue : Seq(Item), hand : Notice \cup {Nothing}, mailing : BOOLEAN, ended : BOOLEAN,
            accepted : Seq(Notice), dispatched : Seq(Notice)]

\* What has been dispatched, is being dispatched and waits, in order.
InHand(a) == IF a.hand = Nothing THEN <<>> ELSE <<a.hand>>
Line(a) == (a.dispatched \o InHand(a)) \o a.queue

\* Open: nothing else has been put into the queue than what was accepted.
\* Stopped: after all of it, the sentinel.  Over: all of it has been dispatched.
Open(a) == ~a.ended /\ a.accepted = Line(a)
Stopped(a) == ~a.ended /\ Append(a.accepted, Sentinel) = Line(a)
Over(a) == a.ended /\ a.hand = Nothing /\ a.accepted = a.dispatched

Conveyed ==
    /\ alerts \in Manager /\ (alerts.mailing => alerts.hand # Nothing)
    /\ phase = "run" => Open(alerts)
    /\ Open(alerts) \/ Stopped(alerts) \/ Over(alerts)
    /\ phase # "run" => closing.pc = "none"
    /\ phase = "down" /\ ending = "clean" => alerts.ended

\* A notice is none of the marks.
LEMMA Marks == Sentinel \notin Notice /\ Nothing \notin Notice /\ Nothing # Sentinel
BY DEF Notice, Sentinel, Nothing

\* The sequences of a manager are sequences of items.
LEMMA LineOfItems ==
    ASSUME NEW a \in Manager
    PROVE  /\ a.dispatched \in Seq(Item) /\ InHand(a) \in Seq(Item) /\ a.queue \in Seq(Item)
           /\ a.accepted \in Seq(Item) /\ Line(a) \in Seq(Item)
           /\ a.dispatched \in Seq(Notice) /\ a.accepted \in Seq(Notice)
<1>1. /\ a.dispatched \in Seq(Notice) /\ a.accepted \in Seq(Notice) /\ a.queue \in Seq(Item)
      /\ a.hand \in Notice \cup {Nothing}
  BY DEF Manager
<1>2. a.dispatched \in Seq(Item) /\ a.accepted \in Seq(Item)
  <2>1. Notice \subseteq Item
    BY DEF Item
  <2>2. QED
    BY <1>1, <2>1, SeqMonotonic
<1>3. InHand(a) \in Seq(Item)
  <2>1. CASE a.hand = Nothing
    <3>1. InHand(a) = <<>>
      BY <2>1 DEF InHand
    <3>2. QED
      BY <3>1, EmptySeq
  <2>2. CASE a.hand # Nothing
    <3>1. InHand(a) = <<a.hand>> /\ a.hand \in Item
      BY <1>1, <2>2 DEF InHand, Item
    <3>2. QED
      BY <3>1
  <2>3. QED
    BY <2>1, <2>2
<1>4. a.dispatched \o InHand(a) \in Seq(Item)
  BY <1>2, <1>3, ConcatProperties
<1>5. Line(a) \in Seq(Item)
  BY <1>1, <1>4, ConcatProperties DEF Line
<1>6. QED
  BY <1>1, <1>2, <1>3, <1>5

\* An item appended to the second of two sequences is at the end of both.
LEMMA AppendedEnd ==
    ASSUME NEW S, NEW d \in Seq(S), NEW q \in Seq(S), NEW x \in S
    PROVE  d \o Append(q, x) = Append(d \o q, x)
<1>1. d \o q \in Seq(S) /\ <<x>> \in Seq(S)
  BY ConcatProperties
<1>2. Append(q, x) = q \o <<x>> /\ Append(d \o q, x) = (d \o q) \o <<x>>
  BY <1>1, AppendIsConcat
<1>3. (d \o q) \o <<x>> = d \o (q \o <<x>>)
  BY <1>1, ConcatAssociative
<1>4. QED
  BY <1>2, <1>3

\* What is put at the end of the queue is at the end of the line.
LEMMA LineGrows ==
    ASSUME NEW a \in Manager, NEW b \in Manager, NEW item \in Item,
           b.queue = Append(a.queue, item), b.hand = a.hand, b.dispatched = a.dispatched
    PROVE  Line(b) = Append(Line(a), item)
<1> DEFINE d == a.dispatched \o InHand(a)
           q == a.queue
<1>1. a.dispatched \in Seq(Item) /\ InHand(a) \in Seq(Item) /\ q \in Seq(Item)
  BY LineOfItems
<1>2. d \in Seq(Item) /\ <<item>> \in Seq(Item)
  BY <1>1, ConcatProperties
<1>3. Line(b) = d \o Append(q, item) /\ Line(a) = d \o q
  BY DEF Line, InHand
<1> HIDE DEF d, q
<1>4. d \o Append(q, item) = Append(d \o q, item)
  BY SMTT(60), <1>1, <1>2, AppendedEnd
<1>5. QED
  BY <1>3, <1>4

\* Taking a notice from the queue into the hand leaves the line.
LEMMA LineTaken ==
    ASSUME NEW a \in Manager, NEW b \in Manager, a.hand = Nothing, a.queue # <<>>,
           Head(a.queue) \in Notice,
           b.queue = Tail(a.queue), b.hand = Head(a.queue), b.dispatched = a.dispatched
    PROVE  Line(b) = Line(a)
<1> DEFINE d == a.dispatched
           q == a.queue
           h == <<Head(q)>>
<1>1. d \in Seq(Item) /\ q \in Seq(Item) /\ Tail(q) \in Seq(Item) /\ h \in Seq(Item)
  <2>1. d \in Seq(Item) /\ q \in Seq(Item)
    BY LineOfItems
  <2>2. Tail(q) \in Seq(Item) /\ h \in Seq(Item)
    BY <2>1, HeadTailProperties DEF Item
  <2>3. QED
    BY <2>1, <2>2
<1>2. Line(a) = (d \o <<>>) \o q
  BY DEF Line, InHand
<1>3. Line(b) = (d \o h) \o Tail(q)
  BY Marks DEF Line, InHand
<1>4. q = h \o Tail(q)
  <2>1. Len(h) = 1 /\ h[1] = Head(q)
    OBVIOUS
  <2>2. Len(h \o Tail(q)) = Len(q) /\ \A i \in 1..Len(q) : (h \o Tail(q))[i] = q[i]
    BY <1>1
  <2>3. h \o Tail(q) \in Seq(Item)
    BY <1>1, ConcatProperties
  <2>4. QED
    BY <1>1, <2>2, <2>3, SeqEqual
<1>5. d \o <<>> = d
  BY <1>1, ConcatEmptySeq
<1> HIDE DEF d, q, h
<1>6. (d \o h) \o Tail(q) = d \o (h \o Tail(q))
  BY SMTT(60), <1>1, ConcatAssociative
<1>7. QED
  BY <1>2, <1>3, <1>4, <1>5, <1>6

\* Dispatching what is in the hand leaves the line.
LEMMA LineDispatched ==
    ASSUME NEW a \in Manager, NEW b \in Manager, a.hand # Nothing,
           b.queue = a.queue, b.hand = Nothing, b.dispatched = Append(a.dispatched, a.hand)
    PROVE  Line(b) = Line(a)
<1> DEFINE d == a.dispatched
           x == a.hand
<1>1. d \in Seq(Notice) /\ x \in Notice
  BY LineOfItems DEF Manager
<1>2. Append(d, x) = d \o <<x>>
  BY <1>1, AppendIsConcat
<1>3. Append(d, x) \in Seq(Notice)
  BY <1>1
<1>4. Append(d, x) \o <<>> = Append(d, x)
  BY <1>3, ConcatEmptySeq
<1>5. Line(b) = (Append(d, x) \o <<>>) \o a.queue /\ Line(a) = (d \o <<x>>) \o a.queue
  BY DEF Line, InHand
<1>6. QED
  BY <1>2, <1>4, <1>5

\* The place after the first of two sequences is that of the head of the second.
LEMMA JointOfConcat ==
    ASSUME NEW S, NEW d \in Seq(S), NEW q \in Seq(S), Len(q) >= 1
    PROVE  /\ Len(d \o q) = Len(d) + Len(q)
           /\ \A i \in 1..Len(d) : (d \o q)[i] = d[i]
           /\ (d \o q)[Len(d) + 1] = q[1]
<1> DEFINE m == Len(d)
           n == Len(q)
           c == d \o q
<1>1. m \in Nat /\ n \in Nat /\ n >= 1
  OBVIOUS
<1>2. Len(c) = m + n /\ \A i \in 1 .. m + n : c[i] = IF i <= m THEN d[i] ELSE q[i - m]
  BY ConcatProperties
<1> HIDE DEF m, n, c
<1>3. m + 1 \in 1 .. m + n /\ (m + 1) - m = 1 /\ ~(m + 1 <= m)
  BY <1>1
<1>4. c[m + 1] = q[(m + 1) - m]
  BY <1>2, <1>3
<1>5. c[m + 1] = q[1]
  BY <1>3, <1>4
<1>6. \A i \in 1..m : c[i] = d[i]
  <2> TAKE i \in 1..m
  <2>1. i \in 1 .. m + n /\ i <= m
    BY <1>1
  <2>2. QED
    BY <1>2, <2>1
<1>7. QED
  BY <1>2, <1>5, <1>6 DEF m, n, c

\* A sentinel at the head of a line that ends with it is all that is left.
LEMMA SentinelIsLast ==
    ASSUME NEW a \in Manager, Stopped(a), a.hand = Nothing, a.queue # <<>>, Head(a.queue) = Sentinel
    PROVE  a.accepted = a.dispatched
<1> DEFINE d == a.dispatched
           c == a.accepted
           q == a.queue
           l == Append(c, Sentinel)
<1>1. d \in Seq(Notice) /\ c \in Seq(Notice) /\ d \in Seq(Item) /\ c \in Seq(Item) /\ q \in Seq(Item)
  BY LineOfItems
<1>2. l = d \o q
  <2>1. l = (d \o <<>>) \o q
    BY DEF Stopped, Line, InHand
  <2>2. d \o <<>> = d
    BY <1>1, ConcatEmptySeq
  <2>3. QED
    BY <2>1, <2>2
<1>3. Len(q) >= 1 /\ q[1] = Sentinel /\ Len(q) \in Nat /\ Len(d) \in Nat /\ Len(c) \in Nat
  BY <1>1
<1>4. /\ Len(d \o q) = Len(d) + Len(q)
      /\ \A i \in 1..Len(d) : (d \o q)[i] = d[i]
      /\ (d \o q)[Len(d) + 1] = Sentinel
  BY ZenonT(60), <1>1, <1>3, JointOfConcat
<1>5. Len(l) = Len(c) + 1 /\ \A i \in 1..Len(c) : l[i] = c[i] /\ l[i] \in Notice
  BY <1>1, ElementOfSeq
<1> HIDE DEF d, c, q, l
<1>6. Len(d) + 1 \notin 1..Len(c)
  BY <1>2, <1>4, <1>5, Marks
<1>7. Len(c) <= Len(d)
  BY <1>3, <1>6
<1>8. Len(d) = Len(c)
  BY <1>2, <1>3, <1>4, <1>5, <1>7
<1>9. \A i \in 1..Len(c) : c[i] = d[i]
  BY <1>2, <1>4, <1>5, <1>8
<1>10. c = d
  BY <1>1, <1>8, <1>9, SeqEqual
<1>11. QED
  BY <1>10 DEF c, d

\* As long as nobody stops the manager its queue has notices only.
LEMMA OpenHasNotices ==
    ASSUME NEW a \in Manager, Open(a), a.hand = Nothing, a.queue # <<>>
    PROVE  Head(a.queue) \in Notice
<1> DEFINE d == a.dispatched
           c == a.accepted
           q == a.queue
<1>1. d \in Seq(Notice) /\ c \in Seq(Notice) /\ d \in Seq(Item) /\ c \in Seq(Item) /\ q \in Seq(Item)
  BY LineOfItems
<1>2. c = d \o q
  <2>1. c = (d \o <<>>) \o q
    BY DEF Open, Line, InHand
  <2>2. d \o <<>> = d
    BY <1>1, ConcatEmptySeq
  <2>3. QED
    BY <2>1, <2>2
<1>3. Len(q) >= 1 /\ Head(q) = q[1] /\ Len(q) \in Nat /\ Len(d) \in Nat
  BY <1>1
<1>4. Len(d \o q) = Len(d) + Len(q) /\ (d \o q)[Len(d) + 1] = q[1]
  BY ZenonT(60), <1>1, <1>3, JointOfConcat
<1> HIDE DEF d, c, q
<1>6. c[Len(d) + 1] = q[1] /\ Len(d) + 1 \in 1..Len(c)
  BY <1>2, <1>3, <1>4
<1>7. c[Len(d) + 1] \in Notice
  BY <1>1, <1>6, ElementOfSeq
<1>8. QED
  BY <1>3, <1>6, <1>7 DEF q

\* The manager after it has accepted an item.
Accepted(a, item) == [a EXCEPT !.queue = Append(@, item), !.accepted = Append(@, item)]

\* What notify does.
LEMMA NotifiedAccepts ==
    ASSUME alerts \in Manager, NEW what \in {"kill", "warn", "halt", "retired"},
           NEW level \in {WARNING, CRITICAL}, alerts' = Notified(alerts, what, level)
    PROVE  alerts' = alerts \/ \E item \in Notice : alerts' = Accepted(alerts, item)
<1> DEFINE item == [what |-> what, level |-> level]
           b == [alerts EXCEPT !.queue = Append(alerts.queue, item)]
<1>1. item \in Notice
  BY DEF Notice
<1> HIDE DEF item
<1>2. Enqueued(alerts, item) = b
  BY DEF Enqueued
<1>3. Accepted(alerts, item) = [b EXCEPT !.accepted = Append(b.accepted, item)]
  BY DEF Accepted, Manager
<1>4. alerts' = alerts \/ alerts' = [Enqueued(alerts, item) EXCEPT !.accepted = Append(@, item)]
  BY DEF Notified, item
<1> HIDE DEF b
<1>5. alerts' = alerts \/ alerts' = Accepted(alerts, item)
  BY <1>2, <1>3, <1>4
<1>6. QED
  BY <1>1, <1>5

\* What the steps do to the alerts and to the phase.
LEMMA AlertSteps ==
    ASSUME Conveyed, [Next]_vars
    PROVE  \/ /\ phase = "run" /\ UNCHANGED <<phase, ending>>
              /\ alerts' = alerts \/ \E item \in Notice : alerts' = Accepted(alerts, item)
           \/ WorkerSteps
           \/ StartUp \/ StopAsked \/ JoinReturns \/ Crash
           \/ UNCHANGED <<phase, ending, alerts>> /\ (phase = "run" \/ closing' = closing)
<1>1. alerts \in Manager
  BY DEF Conveyed
<1>2. ASSUME NEW i \in Intervals, TickStarts(i)
      PROVE  /\ phase = "run" /\ UNCHANGED <<phase, ending>>
             /\ alerts' = alerts \/ \E item \in Notice : alerts' = Accepted(alerts, item)
  <2>1. phase = "run" /\ UNCHANGED <<phase, ending>>
    BY <1>2 DEF TickStarts, LoopFree, processVars
  <2>2. alerts' = alerts \/ alerts' = Notified(alerts, "kill", CRITICAL)
    BY <1>2 DEF TickStarts, TickTakes
  <2>3. QED
    BY <1>1, <2>1, <2>2, NotifiedAccepts
<1>3. ASSUME NEW i \in Intervals, TickResumes(i)
      PROVE  /\ phase = "run" /\ UNCHANGED <<phase, ending>>
             /\ alerts' = alerts \/ \E item \in Notice : alerts' = Accepted(alerts, item)
  <2> DEFINE level == Level(IF opened THEN loss ELSE 0)
  <2>1. phase = "run" /\ UNCHANGED <<phase, ending>>
    BY <1>3 DEF TickResumes, LoopFree, processVars
  <2>2. level \in {"none", "warn", "halt"}
    BY DEF Level
  <2>3. alerts' = alerts \/ (level # "none" /\ alerts' = Notified(alerts, level, WARNING))
    BY <1>3 DEF TickResumes, TickEnds, EquityFails, Alarm
  <2> HIDE DEF level
  <2>4. QED
    BY <1>1, <2>1, <2>2, <2>3, NotifiedAccepts
<1>4. ASSUME TellRetirement, Elsewhere
      PROVE  /\ phase = "run" /\ UNCHANGED <<phase, ending>>
             /\ alerts' = alerts \/ \E item \in Notice : alerts' = Accepted(alerts, item)
  <2>1. phase = "run" /\ UNCHANGED <<phase, ending>>
    BY <1>4 DEF TellRetirement, Closing, Conveyed, Elsewhere, processVars
  <2>2. alerts' = alerts \/ alerts' = Notified(alerts, "retired", WARNING)
    BY <1>4 DEF TellRetirement
  <2>3. QED
    BY <1>1, <2>1, <2>2, NotifiedAccepts
<1>5. CASE PatchSettings /\ UNCHANGED <<retirementVars, alerts>> /\ Elsewhere
  BY <1>5 DEF Elsewhere, processVars, retirementVars
<1>6. CASE /\ SwitchModel \/ Promoted
           /\ UNCHANGED <<settingsVars, retirementVars, alerts, marketVars, processVars>>
  BY <1>6 DEF processVars, retirementVars
<1>7. CASE (Trades \/ Unretire) /\ UNCHANGED <<settingsVars, alerts>> /\ Elsewhere
  BY <1>7 DEF Trades, Unretire, LoopFree, AtWork, Elsewhere, processVars
<1>8. CASE Market /\ UNCHANGED <<settingsVars, retirementVars, alerts, tickVars, processVars>>
  BY <1>8 DEF processVars, retirementVars
<1>9. CASE UNCHANGED vars
  BY <1>9 DEF vars, processVars, retirementVars
<1>10. QED
  BY <1>2, <1>3, <1>4, <1>5, <1>6, <1>7, <1>8, <1>9 DEF Next

\* Accepting a notice keeps a manager open.
LEMMA AcceptingKeepsOpen ==
    ASSUME NEW a \in Manager, NEW item \in Notice, Open(a)
    PROVE  /\ Accepted(a, item) \in Manager /\ Open(Accepted(a, item))
           /\ Accepted(a, item).hand = a.hand /\ Accepted(a, item).mailing = a.mailing
<1> DEFINE q == Append(a.queue, item)
           c == Append(a.accepted, item)
           b == [a EXCEPT !.queue = q, !.accepted = c]
<1>1. b = Accepted(a, item)
  BY DEF Accepted
<1>2. q \in Seq(Item) /\ c \in Seq(Notice) /\ item \in Item
  BY LineOfItems DEF Item
<1> HIDE DEF q, c
<1>3. /\ b \in Manager /\ b.queue = q /\ b.accepted = c /\ b.hand = a.hand
      /\ b.dispatched = a.dispatched /\ b.ended = a.ended /\ b.mailing = a.mailing
  BY <1>2 DEF Manager
<1> HIDE DEF b
<1>4. Line(b) = Append(Line(a), item)
  BY <1>2, <1>3, LineGrows DEF q
<1>5. Open(b)
  BY <1>3, <1>4 DEF Open, c
<1>6. QED
  BY <1>1, <1>3, <1>5

\* The sentinel follows what has been accepted.
LEMMA SentinelFollows ==
    ASSUME alerts \in Manager, Open(alerts), PutSentinel
    PROVE  /\ alerts' \in Manager /\ alerts'.hand = alerts.hand /\ alerts'.mailing = alerts.mailing
           /\ Open(alerts') \/ Stopped(alerts')
<1> DEFINE q == Append(alerts.queue, Sentinel)
           b == [alerts EXCEPT !.queue = q]
<1>1. alerts' = alerts \/ alerts' = b
  BY DEF PutSentinel, Enqueued
<1>2. q \in Seq(Item) /\ Sentinel \in Item
  BY LineOfItems DEF Item
<1> HIDE DEF q
<1>3. /\ b \in Manager /\ b.queue = q /\ b.accepted = alerts.accepted /\ b.hand = alerts.hand
      /\ b.dispatched = alerts.dispatched /\ b.ended = alerts.ended /\ b.mailing = alerts.mailing
  BY <1>2 DEF Manager
<1> HIDE DEF b
<1>4. Line(b) = Append(Line(alerts), Sentinel)
  BY <1>2, <1>3, LineGrows DEF q
<1>5. Stopped(b)
  BY <1>3, <1>4 DEF Open, Stopped
<1>6. QED
  BY <1>1, <1>3, <1>5

\* The worker moves the line on, and ends at the sentinel only.
LEMMA WorkerConveys ==
    ASSUME alerts \in Manager, alerts.mailing => alerts.hand # Nothing,
           Open(alerts) \/ Stopped(alerts) \/ Over(alerts), Worker
    PROVE  /\ alerts' \in Manager /\ (alerts'.mailing => alerts'.hand # Nothing)
           /\ Open(alerts) => Open(alerts')
           /\ Open(alerts') \/ Stopped(alerts') \/ Over(alerts')
           /\ alerts.ended => alerts'.ended
<1> DEFINE a == alerts
<1>1. CASE TakeHead
  <2> DEFINE item == Head(a.queue)
             h == IF item = Sentinel THEN a.hand ELSE item
             e == item = Sentinel
             b == [a EXCEPT !.queue = Tail(a.queue), !.hand = h, !.ended = e]
  <2>1. a.hand = Nothing /\ ~a.ended /\ a.queue # <<>> /\ alerts' = b
    BY <1>1 DEF TakeHead, Waiting
  <2>2. item \in Item /\ Tail(a.queue) \in Seq(Item)
    BY <2>1, LineOfItems, HeadTailProperties
  <2>3. h \in Notice \cup {Nothing} /\ e \in BOOLEAN
    BY <2>1, <2>2 DEF Item
  <2> HIDE DEF h, e
  <2>4. /\ b \in Manager /\ b.queue = Tail(a.queue) /\ b.hand = h /\ b.ended = e
        /\ b.accepted = a.accepted /\ b.dispatched = a.dispatched /\ b.mailing = a.mailing
    BY <2>2, <2>3 DEF Manager
  <2> HIDE DEF b
  <2>5. CASE item # Sentinel
    <3>1. item \in Notice /\ b.hand = item /\ ~b.ended
      BY <2>2, <2>4, <2>5 DEF Item, h, e
    <3>2. Line(b) = Line(a)
      BY <2>1, <2>4, <3>1, LineTaken
    <3>3. (Open(a) => Open(b)) /\ (Stopped(a) => Stopped(b))
      BY <2>1, <2>4, <3>1, <3>2 DEF Open, Stopped
    <3>4. ~Over(a)
      BY <2>1 DEF Over
    <3>5. ~b.mailing
      BY <2>1, <2>4
    <3>6. QED
      BY <2>1, <2>4, <3>3, <3>4, <3>5
  <2>6. CASE item = Sentinel
    <3>1. b.hand = Nothing /\ b.ended /\ ~b.mailing
      BY <2>1, <2>4, <2>6 DEF h, e
    <3>2. ~Open(a) /\ ~Over(a)
      BY <2>1, <2>6, OpenHasNotices, Marks DEF Over
    <3>3. a.accepted = a.dispatched
      BY <2>1, <2>6, <3>2, SentinelIsLast
    <3>4. Over(b)
      BY <2>4, <3>1, <3>3 DEF Over
    <3>5. QED
      BY <2>1, <2>4, <3>1, <3>2, <3>4
  <2>7. QED
    BY <2>5, <2>6
<1>2. ASSUME alerts' = HandedOut, a.hand # Nothing
      PROVE  /\ alerts' \in Manager /\ (alerts'.mailing => alerts'.hand # Nothing)
             /\ Open(alerts) => Open(alerts')
             /\ Open(alerts') \/ Stopped(alerts') \/ Over(alerts')
             /\ alerts.ended => alerts'.ended
  <2> DEFINE d == Append(a.dispatched, a.hand)
             b == [a EXCEPT !.hand = Nothing, !.mailing = FALSE, !.dispatched = d]
  <2>1. alerts' = b
    BY <1>2 DEF HandedOut
  <2>2. a.hand \in Notice
    BY <1>2 DEF Manager
  <2>3. d \in Seq(Notice)
    BY <2>2, LineOfItems
  <2> HIDE DEF d
  <2>4. /\ b \in Manager /\ b.queue = a.queue /\ b.hand = Nothing /\ b.ended = a.ended
        /\ b.accepted = a.accepted /\ b.dispatched = d /\ b.mailing = FALSE
    BY <2>3 DEF Manager
  <2> HIDE DEF b
  <2>5. Line(b) = Line(a)
    BY <1>2, <2>4, LineDispatched DEF d
  <2>6. (Open(a) => Open(b)) /\ (Stopped(a) => Stopped(b)) /\ ~Over(a)
    BY <1>2, <2>4, <2>5 DEF Open, Stopped, Over
  <2>7. QED
    BY <2>1, <2>4, <2>6
<1>3. CASE Dispatch
  <2> DEFINE b == [a EXCEPT !.mailing = TRUE]
  <2>1. a.hand # Nothing /\ (alerts' = HandedOut \/ alerts' = b)
    BY <1>3 DEF Dispatch
  <2>2. /\ b \in Manager /\ b.queue = a.queue /\ b.hand = a.hand /\ b.ended = a.ended
        /\ b.accepted = a.accepted /\ b.dispatched = a.dispatched
    BY DEF Manager
  <2> HIDE DEF b
  <2>3. (Open(a) => Open(b)) /\ (Stopped(a) => Stopped(b)) /\ ~Over(a)
    BY <2>1, <2>2 DEF Open, Stopped, Over, Line, InHand
  <2>4. CASE alerts' = b
    BY <2>1, <2>2, <2>3, <2>4
  <2>5. QED
    BY <1>2, <2>1, <2>4
<1>4. CASE MailSent
  BY <1>2, <1>4 DEF MailSent
<1>5. QED
  BY <1>1, <1>3, <1>4 DEF Worker

\* Every step keeps what the manager conveys.
LEMMA ConveyedStep ==
    ASSUME Conveyed, [Next]_vars
    PROVE  Conveyed'
<1>1. alerts \in Manager /\ (alerts.mailing => alerts.hand # Nothing)
  BY SMTT(60) DEF Conveyed
<1> DEFINE Says == /\ alerts' \in Manager /\ (alerts'.mailing => alerts'.hand # Nothing)
                   /\ phase' = "run" => Open(alerts')
                   /\ Open(alerts') \/ Stopped(alerts') \/ Over(alerts')
                   /\ phase' # "run" => closing'.pc = "none"
                   /\ phase' = "down" /\ ending' = "clean" => alerts'.ended
<1>2. CASE /\ phase = "run" /\ UNCHANGED <<phase, ending>>
           /\ alerts' = alerts \/ \E item \in Notice : alerts' = Accepted(alerts, item)
  <2>1. Open(alerts)
    BY <1>2 DEF Conveyed
  <2>2. ASSUME alerts' = alerts
        PROVE  Says
    BY <1>1, <1>2, <2>1, <2>2
  <2>3. ASSUME NEW item \in Notice, alerts' = Accepted(alerts, item)
        PROVE  Says
    BY <1>1, <1>2, <2>1, <2>3, AcceptingKeepsOpen
  <2>4. Says
    BY <1>2, <2>2, <2>3
  <2>5. QED
    BY <2>4 DEF Conveyed, Open, Stopped, Over, Line, InHand
<1>3. CASE WorkerSteps
  <2>1. phase # "down" /\ UNCHANGED <<phase, ending, closing>> /\ Worker
    BY <1>3 DEF WorkerSteps, processVars, retirementVars
  <2>2. Says
    BY <1>1, <2>1, WorkerConveys DEF Conveyed
  <2>3. QED
    BY <2>2 DEF Conveyed, Open, Stopped, Over, Line, InHand
<1>4. CASE StartUp
  <2>1. phase' = "run" /\ alerts' = NewManager
    BY <1>4 DEF StartUp
  <2>2. NewManager \in Manager /\ Open(NewManager) /\ ~NewManager.mailing
    <3>1. NewManager \in Manager
      BY DEF NewManager, Manager
    <3>2. /\ NewManager.dispatched = <<>> /\ NewManager.queue = <<>> /\ NewManager.accepted = <<>>
          /\ NewManager.hand = Nothing /\ ~NewManager.ended /\ ~NewManager.mailing
      BY DEF NewManager
    <3>3. Line(NewManager) = <<>>
      BY <3>2, ConcatEmptySeq, EmptySeq DEF Line, InHand
    <3>4. QED
      BY <3>1, <3>2, <3>3 DEF Open
  <2>3. Says
    BY <2>1, <2>2
  <2>4. QED
    BY <2>3 DEF Conveyed, Open, Stopped, Over, Line, InHand
<1>5. CASE StopAsked
  <2>1. phase = "run" /\ phase' = "closing" /\ closing.pc = "none" /\ closing' = closing /\ PutSentinel
    BY <1>5 DEF StopAsked, LoopFree, Closing, retirementVars
  <2>2. Says
    BY <1>1, <2>1, SentinelFollows DEF Conveyed
  <2>3. QED
    BY <2>2 DEF Conveyed, Open, Stopped, Over, Line, InHand
<1>6. CASE JoinReturns \/ Crash
  <2>1. /\ phase' = "down" /\ closing' = NoClosing /\ alerts' = alerts
        /\ ending' = "clean" => alerts.ended
    BY <1>6 DEF JoinReturns, Crash, EndProcess, RetirementEnd
  <2>2. Says
    BY <1>1, <2>1 DEF Conveyed, NoClosing
  <2>3. QED
    BY <2>2 DEF Conveyed, Open, Stopped, Over, Line, InHand
<1>7. CASE UNCHANGED <<phase, ending, alerts>> /\ (phase = "run" \/ closing' = closing)
  <2>1. Says
    BY <1>7 DEF Conveyed
  <2>2. QED
    BY <2>1 DEF Conveyed, Open, Stopped, Over, Line, InHand
<1>8. QED
  BY <1>2, <1>3, <1>4, <1>5, <1>6, <1>7, AlertSteps

\* After a clean end nothing is left behind of what was accepted.
NothingLeftBehind == phase = "down" /\ ending = "clean" => alerts.dispatched = alerts.accepted

\* A shutdown that does not give up waiting leaves no accepted alert behind: the safety
\* part of AlertsGoOut (notify, _worker, shutdown).
THEOREM CleanEndDispatchesAll == Spec => []NothingLeftBehind
<1>1. Init => Conveyed
  <2> SUFFICES ASSUME Init PROVE Conveyed
    OBVIOUS
  <2>1. phase = "down" /\ ending = "none" /\ closing = NoClosing /\ alerts = NewManager
    BY DEF Init, RetirementInit
  <2>2. NewManager \in Manager
    BY DEF NewManager, Manager
  <2>3. /\ NewManager.dispatched = <<>> /\ NewManager.queue = <<>> /\ NewManager.accepted = <<>>
        /\ NewManager.hand = Nothing /\ ~NewManager.ended /\ ~NewManager.mailing
    BY DEF NewManager
  <2>4. Line(NewManager) = <<>>
    BY <2>3, ConcatEmptySeq, EmptySeq DEF Line, InHand
  <2>5. QED
    BY <2>1, <2>2, <2>3, <2>4 DEF Conveyed, Open, NoClosing
<1>2. Conveyed /\ [Next]_vars => Conveyed'
  BY ConveyedStep
<1>3. Conveyed => NothingLeftBehind
  BY DEF Conveyed, NothingLeftBehind, Open, Stopped, Over
<1>4. QED
  BY <1>1, <1>2, <1>3, PTL DEF Spec

=============================================================================
