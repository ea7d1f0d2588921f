-------------------------- MODULE DataStoreProofs ---------------------------
(***************************************************************************)
(* What a browser tab's snapshot is worth, for any number of parcels,      *)
(* writes, failed requests, lost messages and reloads.                     *)
(*                                                                         *)
(* None of the properties of DataStore says enough of the answers still on *)
(* their way to be inductive: Sound says of every row in flight (the       *)
(* cache, a load, a refresh, a PATCH's answer) what is promised of those   *)
(* on screen, and of every live message that it was published; Loads says  *)
(* where a load stands.                                                    *)
(***************************************************************************)
EXTENDS DataStore, TLAPS

Dated(r) == r.status = "DELIVERED" => r.dated

\* The server gave a parcel this status, or the engine announced it.
Known == log \cup published
Told(p, status, known) == \E e \in known : e.package = p /\ e.status = status

Good(rows, known) ==
    \A p \in Package : rows[p] # Nothing => Told(p, rows[p].status, known) /\ Dated(rows[p])

ServerSound == \A p \in Package : Told(p, row[p].status, Known) /\ Dated(row[p])
PageSound == Good(packages, Known)
CacheSound == cache # Nothing => Good(cache.rows, Known)
LoadSound == loading # Nothing => Good(loading.rows, Known)
RefreshSound == refresh # Nothing => Good(refresh.rows, Known)
PatchSound ==
    patch # Nothing /\ patch.answer # Nothing =>
        Told(patch.package, patch.answer.status, Known) /\ Dated(patch.answer)
WireSound == \A i \in 1 .. Len(wire) : wire[i] \in published

Sound ==
    /\ ServerSound /\ PageSound /\ CacheSound /\ LoadSound /\ RefreshSound
    /\ PatchSound /\ WireSound

Loads ==
    loading # Nothing =>
        /\ loading.core => ~tab.partial
        /\ ~loading.core => tab.status = "ready"

----------------------------------------------------------------------------
\* What the operators make of rows and messages.

LEMMA MovedIsRow ==
    ASSUME NEW r \in Row, NEW status \in PackageStatus, NEW at \in Nat
    PROVE  /\ Moved(r, status, at) \in Row
           /\ Moved(r, status, at).status = status
           /\ Dated(r) => Dated(Moved(r, status, at))
           /\ Dated(Moved(r, status, at))
BY DEF Moved, Row, Dated

LEMMA PatchedRows ==
    ASSUME NEW parcels \in Rows, NEW update \in Message
    PROVE  /\ Patched(parcels, update) \in Rows
           /\ \A p \in Package : p # update.package => Patched(parcels, update)[p] = parcels[p]
           /\ \/ Patched(parcels, update) = parcels
              \/ /\ parcels[update.package] # Nothing
                 /\ Patched(parcels, update)[update.package]
                      = Moved(parcels[update.package], update.status, update.at)
<1>1. CASE Ignored(parcels, update)
  BY <1>1 DEF Patched
<1>2. CASE ~Ignored(parcels, update)
  <2>1. update.package \in Package /\ update.status \in PackageStatus /\ update.at \in Nat
    BY DEF Message
  <2>2. parcels[update.package] # Nothing /\ parcels[update.package] \in Row
    BY <1>2, <2>1 DEF Ignored, Rows
  <2>3. Moved(parcels[update.package], update.status, update.at) \in Row
    BY <2>1, <2>2, MovedIsRow
  <2> QED BY <1>2, <2>1, <2>2, <2>3 DEF Patched, Rows
<1> QED BY <1>1, <1>2

LEMMA StoriedEvents ==
    ASSUME NEW parcels, NEW story \in SUBSET Event, NEW update \in Message
    PROVE  Storied(parcels, story, update) \in SUBSET Event
<1>1. [package |-> update.package, status |-> update.status, at |-> update.at, live |-> TRUE]
        \in Event
  BY DEF Event, Message
<1> QED BY <1>1 DEF Storied

LEMMA UnreadRows == Unread \in Rows /\ (\A p \in Package : Unread[p] = Nothing)
BY DEF Unread, Rows

LEMMA AskedIsAnswer == Asked \in Answer /\ Asked.rows = Unread /\ Asked.core = TRUE
BY UnreadRows DEF Asked, Answer

----------------------------------------------------------------------------
\* Types.

TabType ==
    [status : {"idle", "loading", "ready", "error"}, stale : BOOLEAN, partial : BOOLEAN,
     refreshing : BOOLEAN, timer : BOOLEAN]

LEMMA InitType == Init => TypeOK
<1> SUFFICES ASSUME Init PROVE TypeOK
  OBVIOUS
<1>1. row \in [Package -> Row]
  BY StartAssumption DEF Init, Row
<1>2. log \in SUBSET Event
  <2>1. \A p \in Package :
          [package |-> p, status |-> Start[p], at |-> 0, live |-> FALSE] \in Event
    BY StartAssumption DEF Event
  <2> QED BY <2>1 DEF Init
<1>3. wire \in Seq(Message) /\ packages \in Rows /\ tab = Opened
  BY UnreadRows DEF Init
<1>4. tab \in TabType
  BY <1>3 DEF Opened, TabType
<1> QED BY <1>1, <1>2, <1>3, <1>4 DEF Init, TypeOK, TabType

LEMMA AcceptType ==
    ASSUME TypeOK, NEW p \in Package, NEW status \in PackageStatus, Accept(p, status)
    PROVE  /\ row' \in [Package -> Row] /\ log' \in SUBSET Event /\ now' \in Nat
           /\ UNCHANGED <<tick, published>>
<1>1. row[p] \in Row /\ now + 1 \in Nat
  BY DEF TypeOK
<1>2. Moved(row[p], status, now + 1) \in Row
  BY <1>1, MovedIsRow
<1>3. [package |-> p, status |-> status, at |-> now + 1, live |-> FALSE] \in Event
  BY <1>1 DEF Event
<1> QED BY <1>1, <1>2, <1>3 DEF Accept, TypeOK

LEMMA StepType == TypeOK /\ [Next]_vars => TypeOK'
<1> SUFFICES ASSUME TypeOK, [Next]_vars PROVE TypeOK'
  OBVIOUS
<1> USE DEF server, view, budget
<1>1. ASSUME NEW p \in Package, NEW status \in Target, NEW lost \in BOOLEAN,
             EnginePublish(p, status, lost)
      PROVE  TypeOK'
  <2> DEFINE message == [package |-> p, status |-> status, at |-> now + 2]
  <2>1. status \in PackageStatus /\ now + 1 \in Nat /\ now + 2 \in Nat
    BY TargetAssumption DEF TypeOK
  <2>2. message \in Message /\ [package |-> p, status |-> status, at |-> now + 1] \in Message
    BY <2>1 DEF Message
  <2>3. wire' \in Seq(Message)
    BY <1>1, <2>2 DEF EnginePublish, TypeOK
  <2>4. tick' \in Message /\ published' \in SUBSET Message
    BY <1>1, <2>2 DEF EnginePublish, TypeOK
  <2>5. faults' \in Nat /\ now' \in Nat
    BY <1>1, <2>1 DEF EnginePublish, TypeOK
  <2> QED BY <1>1, <2>3, <2>4, <2>5 DEF EnginePublish, TypeOK
<1>2. ASSUME NEW p \in Package, NEW status \in Target, PatchShipment(p, status)
      PROVE  TypeOK'
  <2>1. status \in PackageStatus
    BY TargetAssumption
  <2> QED BY <1>2, <2>1 DEF PatchShipment, TypeOK
<1>3. ASSUME NEW p \in Package, NEW status \in Target, PatchElsewhere(p, status)
      PROVE  TypeOK'
  <2>1. status \in PackageStatus /\ Accept(p, status)
    BY <1>3, TargetAssumption DEF PatchElsewhere
  <2> QED BY <1>3, <2>1, AcceptType DEF PatchElsewhere, TypeOK
<1>4. CASE EngineCommit
  <2>1. /\ tick.package \in Package /\ tick.status \in PackageStatus
        /\ tick.at \in Nat /\ tick.at + 1 \in Nat
    BY <1>4 DEF EngineCommit, TypeOK, Message
  <2>2. Moved(row[tick.package], tick.status, tick.at) \in Row
    BY <2>1, MovedIsRow DEF TypeOK
  <2>3. [package |-> tick.package, status |-> tick.status, at |-> tick.at + 1, live |-> FALSE]
          \in Event
    BY <2>1 DEF Event
  <2>4. row' \in [Package -> Row] /\ log' \in SUBSET Event /\ tick' = Nothing
    BY <1>4, <2>1, <2>2, <2>3 DEF EngineCommit, TypeOK
  <2> QED BY <1>4, <2>4 DEF EngineCommit, TypeOK
<1>5. CASE EngineRollback
  BY <1>5 DEF EngineRollback, TypeOK
<1>6. CASE Receive
  <2>1. Head(wire) \in Message /\ Tail(wire) \in Seq(Message)
    BY <1>6 DEF Receive, TypeOK
  <2>2. Patched(packages, Head(wire)) \in Rows
    BY <2>1, PatchedRows DEF TypeOK
  <2>3. Storied(packages, events, Head(wire)) \in SUBSET Event
    BY <2>1, StoriedEvents DEF TypeOK
  <2> QED BY <1>6, <2>1, <2>2, <2>3 DEF Receive, TypeOK
<1>7. CASE LoadFromCache
  <2>1. cache.rows \in Rows /\ cache.events \in SUBSET Event
    BY <1>7 DEF LoadFromCache, TypeOK
  <2>2. Asked \in Answer
    BY AskedIsAnswer
  <2> QED BY <1>7, <2>1, <2>2 DEF LoadFromCache, Painted, TypeOK
<1>8. CASE LoadAfresh
  BY <1>8, AskedIsAnswer DEF LoadAfresh, TypeOK
<1>9. CASE CoreLoaded
  <2>1. loading \in Answer
    BY <1>9 DEF CoreLoaded, TypeOK
  <2>2. [core |-> FALSE, rows |-> Unread, events |-> Nothing] \in Answer
    BY UnreadRows DEF Answer
  <2>3. loading.rows \in Rows
    BY <2>1 DEF Answer
  <2>4. tab' \in TabType
    BY <1>9 DEF CoreLoaded, TypeOK, TabType
  <2> QED BY <1>9, <2>2, <2>3, <2>4 DEF CoreLoaded, TypeOK, TabType
<1>10. CASE HistoryLoaded
  <2>1. loading \in Answer
    BY <1>10 DEF HistoryLoaded, TypeOK
  <2>2. loading.events \in SUBSET Event
    BY <1>10, <2>1 DEF HistoryLoaded, Answer
  <2> QED BY <1>10, <2>2 DEF HistoryLoaded, WriteCache, TypeOK
<1>11. CASE LoadFails
  <2>1. tab' \in TabType
    BY <1>11 DEF LoadFails, AfterFailure, TypeOK, TabType
  <2>2. faults' \in Nat
    BY <1>11 DEF LoadFails, TypeOK
  <2> QED BY <1>11, <2>1, <2>2 DEF LoadFails, TypeOK, TabType
<1>12. ASSUME NEW p \in Package, LoadReadsPage(p)
       PROVE  TypeOK'
  <2>1. loading \in Answer /\ row[p] \in Row
    BY <1>12 DEF LoadReadsPage, TypeOK
  <2>2. [loading EXCEPT !.rows[p] = row[p]] \in Answer
    BY <2>1 DEF Answer, Rows
  <2> QED BY <1>12, <2>2 DEF LoadReadsPage, TypeOK
<1>13. ASSUME NEW p \in Package, RefreshReadsPage(p)
       PROVE  TypeOK'
  <2>1. refresh \in Answer /\ row[p] \in Row
    BY <1>13 DEF RefreshReadsPage, TypeOK
  <2>2. [refresh EXCEPT !.rows[p] = row[p]] \in Answer
    BY <2>1 DEF Answer, Rows
  <2> QED BY <1>13, <2>2 DEF RefreshReadsPage, TypeOK
<1>14. ASSUME NEW failed \in BOOLEAN, LoadReadsEvents(failed)
       PROVE  TypeOK'
  <2>1. loading \in Answer /\ Story(failed) \in SUBSET Event
    BY <1>14 DEF LoadReadsEvents, Story, TypeOK
  <2>2. [loading EXCEPT !.events = Story(failed)] \in Answer
    BY <2>1 DEF Answer
  <2> QED BY <1>14, <2>2 DEF LoadReadsEvents, TypeOK
<1>15. ASSUME NEW failed \in BOOLEAN, RefreshReadsEvents(failed)
       PROVE  TypeOK'
  <2>1. refresh \in Answer /\ Story(failed) \in SUBSET Event
    BY <1>15 DEF RefreshReadsEvents, Story, TypeOK
  <2>2. [refresh EXCEPT !.events = Story(failed)] \in Answer
    BY <2>1 DEF Answer
  <2> QED BY <1>15, <2>2 DEF RefreshReadsEvents, TypeOK
<1>16. CASE Refresh
  BY <1>16, AskedIsAnswer DEF Refresh, TypeOK
<1>17. CASE Refreshed
  <2>1. refresh \in Answer
    BY <1>17 DEF Refreshed, TypeOK
  <2>2. refresh.rows \in Rows /\ refresh.events \in SUBSET Event
    BY <1>17, <2>1 DEF Refreshed, Answer
  <2>3. tab' \in TabType
    BY <1>17 DEF Refreshed, TypeOK, TabType
  <2>4. cache' \in [rows : Rows, events : SUBSET Event] /\ packages' \in Rows
    BY <1>17, <2>2 DEF Refreshed, WriteCache, Merged
  <2> QED BY <1>17, <2>2, <2>3, <2>4 DEF Refreshed, TypeOK, TabType
<1>18. CASE RefreshFails
  <2>1. tab' \in TabType
    BY <1>18 DEF RefreshFails, TypeOK, TabType
  <2>2. faults' \in Nat
    BY <1>18 DEF RefreshFails, TypeOK
  <2> QED BY <1>18, <2>1, <2>2 DEF RefreshFails, TypeOK, TabType
<1>19. CASE PatchAccepted
  <2>1. patch.package \in Package /\ patch.status \in PackageStatus
    BY <1>19 DEF PatchAccepted, TypeOK
  <2>2. /\ row' \in [Package -> Row] /\ log' \in SUBSET Event /\ now' \in Nat
        /\ UNCHANGED <<tick, published>>
    BY <1>19, <2>1, AcceptType DEF PatchAccepted
  <2>3. patch' \in [package : Package, status : PackageStatus, answer : Row \cup {Nothing}]
    BY <1>19, <2>1, <2>2 DEF PatchAccepted, TypeOK
  <2> QED BY <1>19, <2>2, <2>3 DEF PatchAccepted, TypeOK
<1>20. CASE PatchFails
  BY <1>20 DEF PatchFails, TypeOK
<1>21. CASE PatchAnswered
  <2> DEFINE patched == [packages EXCEPT ![patch.package] = patch.answer]
  <2> DEFINE update == [package |-> patch.package, status |-> patch.answer.status,
                        at |-> patch.answer.at]
  <2>1. patch.package \in Package /\ patch.answer \in Row
    BY <1>21 DEF PatchAnswered, TypeOK
  <2>2. update \in Message
    BY <2>1 DEF Message, Row
  <2>3. patched \in Rows
    BY <2>1 DEF TypeOK, Rows
  <2>4. Patched(patched, update) \in Rows
    BY <2>2, <2>3, PatchedRows
  <2>5. Storied(patched, events, update) \in SUBSET Event
    BY <2>2, StoriedEvents DEF TypeOK
  <2>6. /\ packages' \in Rows /\ events' \in SUBSET Event /\ tab' = tab /\ patch' = Nothing
        /\ UNCHANGED <<server, wire, cache, fetched, loading, refresh, budget>>
    BY <1>21, <2>4, <2>5 DEF PatchAnswered
  <2> HIDE DEF patched, update
  <2> QED BY <2>6 DEF TypeOK
<1>22. CASE Reload
  <2>1. tab' \in TabType
    BY <1>22 DEF Reload, Opened, TabType
  <2>2. packages' \in Rows /\ events' \in SUBSET Event /\ wire' \in Seq(Message)
    BY <1>22, UnreadRows DEF Reload
  <2>3. reloads' \in Nat
    BY <1>22 DEF Reload, TypeOK
  <2> QED BY <1>22, <2>1, <2>2, <2>3 DEF Reload, TypeOK, TabType
<1>23. CASE UNCHANGED vars
  BY <1>23 DEF vars, TypeOK
<1> QED
  BY <1>1, <1>2, <1>3, <1>4, <1>5, <1>6, <1>7, <1>8, <1>9, <1>10, <1>11, <1>12, <1>13, <1>14,
     <1>15, <1>16, <1>17, <1>18, <1>19, <1>20, <1>21, <1>22, <1>23 DEF Next

\* The type invariant of the snapshot, the answers in flight and the server
\* (store.ts, actions.ts), for any parcels and bounds.
THEOREM TypeCorrect == Spec => []TypeOK
  BY InitType, StepType, PTL DEF Spec

----------------------------------------------------------------------------
\* What the tab says of its own freshness.

\* Only a load or a refresh that the server has answered takes "stale" away.
LEMMA StepFresh == TypeOK /\ FreshMeansFetched /\ [Next]_vars => FreshMeansFetched'
<1> SUFFICES ASSUME TypeOK, FreshMeansFetched, [Next]_vars PROVE FreshMeansFetched'
  OBVIOUS
<1> USE DEF view, budget
<1>1. CASE UNCHANGED <<tab, fetched>>
  BY <1>1 DEF FreshMeansFetched
<1>2. CASE LoadFromCache
  BY <1>2 DEF LoadFromCache, Painted, FreshMeansFetched, TypeOK
<1>3. CASE LoadAfresh
  BY <1>3 DEF LoadAfresh, FreshMeansFetched, TypeOK
<1>4. CASE CoreLoaded \/ Refreshed
  BY <1>4 DEF CoreLoaded, Refreshed, FreshMeansFetched
<1>5. CASE HistoryLoaded
  BY <1>5 DEF HistoryLoaded, FreshMeansFetched, TypeOK
<1>6. CASE LoadFails
  BY <1>6 DEF LoadFails, AfterFailure, FreshMeansFetched, TypeOK
<1>7. CASE Refresh
  BY <1>7 DEF Refresh, FreshMeansFetched, TypeOK
<1>8. CASE RefreshFails
  BY <1>8 DEF RefreshFails, FreshMeansFetched, TypeOK
<1>9. CASE Reload
  BY <1>9 DEF Reload, Opened, FreshMeansFetched
<1> QED
  BY <1>1, <1>2, <1>3, <1>4, <1>5, <1>6, <1>7, <1>8, <1>9
  DEF Next, vars, EnginePublish, PatchShipment, PatchElsewhere, EngineCommit, EngineRollback,
      Receive, LoadReadsPage, RefreshReadsPage, LoadReadsEvents, RefreshReadsEvents,
      PatchAccepted, PatchFails, PatchAnswered

\* What is not called stale came from the server since the page was opened
\* (store.ts:169-216), through failed loads, caches and reloads.
THEOREM FreshnessIsEarned == Spec => []FreshMeansFetched
<1>1. Init => FreshMeansFetched
  BY DEF Init, Opened, FreshMeansFetched
<1> QED BY <1>1, StepFresh, TypeCorrect, PTL DEF Spec

----------------------------------------------------------------------------
\* The figures.

LEMMA StepDerived == TypeOK /\ DerivedIsCurrent /\ [Next]_vars => DerivedIsCurrent'
<1> SUFFICES ASSUME TypeOK, DerivedIsCurrent, [Next]_vars PROVE DerivedIsCurrent'
  OBVIOUS
<1> USE DEF view, budget
<1>1. CASE UNCHANGED <<tab, view>>
  BY <1>1 DEF DerivedIsCurrent, Derive
<1>2. CASE Receive
  BY <1>2 DEF Receive, Patched, Storied, Rederive, DerivedIsCurrent, Derive
<1>3. CASE LoadFromCache \/ CoreLoaded \/ HistoryLoaded \/ Refreshed \/ PatchAnswered
  BY <1>3
  DEF LoadFromCache, CoreLoaded, HistoryLoaded, Refreshed, PatchAnswered, Rederive,
      DerivedIsCurrent, Derive
<1>4. CASE LoadAfresh
  BY <1>4 DEF LoadAfresh, CanLoad, DerivedIsCurrent, Derive, TypeOK
<1>5. CASE LoadFails
  BY <1>5 DEF LoadFails, AfterFailure, DerivedIsCurrent, Derive, TypeOK
<1>6. CASE Refresh
  BY <1>6 DEF Refresh, DerivedIsCurrent, Derive, TypeOK
<1>7. CASE RefreshFails
  BY <1>7 DEF RefreshFails, DerivedIsCurrent, Derive, TypeOK
<1>8. CASE Reload
  BY <1>8 DEF Reload, Opened, DerivedIsCurrent, Derive
<1> QED
  BY <1>1, <1>2, <1>3, <1>4, <1>5, <1>6, <1>7, <1>8
  DEF Next, vars, EnginePublish, PatchShipment, PatchElsewhere, EngineCommit, EngineRollback,
      LoadReadsPage, RefreshReadsPage, LoadReadsEvents, RefreshReadsEvents, PatchAccepted,
      PatchFails

\* No change of the parcels or of their events escapes the version that the
\* figures on screen depend on (provider.tsx:33).
THEOREM FiguresAreCurrent == Spec => []DerivedIsCurrent
<1>1. Init => DerivedIsCurrent
  BY DEF Init, Opened, DerivedIsCurrent, Derive
<1> QED BY <1>1, StepDerived, TypeCorrect, PTL DEF Spec

----------------------------------------------------------------------------
\* The flags.

LEMMA InAnswer == Asked # Nothing /\ (\A a \in Answer : a # Nothing)
BY AskedIsAnswer, AnswerAssumption

LEMMA StepFlags == TypeOK /\ FlagsMeanWork /\ Loads /\ [Next]_vars => (FlagsMeanWork /\ Loads)'
<1> SUFFICES ASSUME TypeOK, FlagsMeanWork, Loads, [Next]_vars PROVE (FlagsMeanWork /\ Loads)'
  OBVIOUS
<1> USE DEF view, budget
<1>1. CASE UNCHANGED <<tab, loading, refresh>>
  BY <1>1 DEF FlagsMeanWork, Loads
<1>2. CASE LoadFromCache
  BY <1>2, InAnswer, AskedIsAnswer
  DEF LoadFromCache, CanLoad, Painted, FlagsMeanWork, Loads, TypeOK
<1>3. CASE LoadAfresh
  BY <1>3, InAnswer, AskedIsAnswer DEF LoadAfresh, CanLoad, FlagsMeanWork, Loads, TypeOK
<1>4. CASE CoreLoaded
  <2>1. loading' # Nothing /\ ~loading'.core
    BY <1>4, UnreadRows, InAnswer DEF CoreLoaded, Answer
  <2> QED BY <1>4, <2>1 DEF CoreLoaded, FlagsMeanWork, Loads, TypeOK
<1>5. CASE HistoryLoaded
  BY <1>5 DEF HistoryLoaded, FlagsMeanWork, Loads, TypeOK
<1>6. CASE LoadFails
  BY <1>6 DEF LoadFails, AfterFailure, FlagsMeanWork, Loads, TypeOK
<1>7. ASSUME NEW p \in Package, LoadReadsPage(p) PROVE (FlagsMeanWork /\ Loads)'
  <2>1. loading \in Answer
    BY <1>7 DEF LoadReadsPage, TypeOK
  <2>2. loading'.core = loading.core
    BY <1>7, <2>1 DEF LoadReadsPage, Answer
  <2> QED BY <1>7, <2>2 DEF LoadReadsPage, FlagsMeanWork, Loads
<1>8. ASSUME NEW failed \in BOOLEAN, LoadReadsEvents(failed) PROVE (FlagsMeanWork /\ Loads)'
  <2>1. loading \in Answer /\ Story(failed) \in SUBSET Event
    BY <1>8 DEF LoadReadsEvents, Story, TypeOK
  <2>2. loading' \in Answer /\ loading'.core = loading.core
    BY <1>8, <2>1 DEF LoadReadsEvents, Answer
  <2> QED BY <1>8, <2>2, InAnswer DEF LoadReadsEvents, FlagsMeanWork, Loads
<1>9. ASSUME NEW p \in Package, RefreshReadsPage(p) PROVE (FlagsMeanWork /\ Loads)'
  <2>1. refresh \in Answer /\ row[p] \in Row
    BY <1>9 DEF RefreshReadsPage, TypeOK
  <2>2. refresh' \in Answer
    BY <1>9, <2>1 DEF RefreshReadsPage, Answer, Rows
  <2> QED BY <1>9, <2>2, InAnswer DEF RefreshReadsPage, FlagsMeanWork, Loads
<1>10. ASSUME NEW failed \in BOOLEAN, RefreshReadsEvents(failed) PROVE (FlagsMeanWork /\ Loads)'
  <2>1. refresh \in Answer /\ Story(failed) \in SUBSET Event
    BY <1>10 DEF RefreshReadsEvents, Story, TypeOK
  <2>2. refresh' \in Answer
    BY <1>10, <2>1 DEF RefreshReadsEvents, Answer
  <2> QED BY <1>10, <2>2, InAnswer DEF RefreshReadsEvents, FlagsMeanWork, Loads
<1>11. CASE Refresh
  BY <1>11, InAnswer DEF Refresh, FlagsMeanWork, Loads, TypeOK
<1>12. CASE Refreshed
  BY <1>12 DEF Refreshed, FlagsMeanWork, Loads, TypeOK
<1>13. CASE RefreshFails
  BY <1>13 DEF RefreshFails, FlagsMeanWork, Loads, TypeOK
<1>14. CASE Reload
  BY <1>14 DEF Reload, Opened, FlagsMeanWork, Loads
<1> QED
  BY <1>1, <1>2, <1>3, <1>4, <1>5, <1>6, <1>7, <1>8, <1>9, <1>10, <1>11, <1>12, <1>13, <1>14
  DEF Next, vars, EnginePublish, PatchShipment, PatchElsewhere, EngineCommit, EngineRollback,
      Receive, PatchAccepted, PatchFails, PatchAnswered

\* "Still arriving" and the spinner are shown exactly while something is on
\* its way, the timer runs on pages that can refresh, and what is not called
\* stale was fetched (store.ts:169-216).
THEOREM FlagsAreTrue == Spec => []FlagsAreHonest
<1>1. Init => FlagsMeanWork /\ Loads
  BY DEF Init, Opened, FlagsMeanWork, Loads
<1>2. FlagsMeanWork /\ FreshMeansFetched => FlagsAreHonest
  BY DEF FlagsAreHonest
<1> QED BY <1>1, <1>2, StepFlags, TypeCorrect, FreshnessIsEarned, PTL DEF Spec

----------------------------------------------------------------------------
\* What is shown.

LEMMA GoodGrows ==
    ASSUME NEW known, NEW more, known \subseteq more
    PROVE  /\ \A rows : Good(rows, known) => Good(rows, more)
           /\ \A p, status : Told(p, status, known) => Told(p, status, more)
BY DEF Good, Told

LEMMA StepKnown == [Next]_vars => Known \subseteq Known'
BY DEF Next, vars, server, Known, EnginePublish, PatchShipment, PatchElsewhere, Accept,
       EngineCommit, EngineRollback, Receive, LoadFromCache, LoadAfresh, CoreLoaded,
       HistoryLoaded, LoadFails, LoadReadsPage, RefreshReadsPage, LoadReadsEvents,
       RefreshReadsEvents, Refresh, Refreshed, RefreshFails, PatchAccepted, PatchFails,
       PatchAnswered, Reload

LEMMA RowIsNotNothing == Nothing \notin Row
BY NothingAssumption DEF Row

LEMMA AcceptSound ==
    ASSUME TypeOK, ServerSound, NEW p \in Package, NEW status \in PackageStatus,
           Accept(p, status)
    PROVE  ServerSound' /\ row'[p] \in Row
<1>1. row[p] \in Row /\ now + 1 \in Nat
  BY DEF TypeOK
<1>2. /\ Moved(row[p], status, now + 1) \in Row
      /\ Moved(row[p], status, now + 1).status = status
      /\ Dated(Moved(row[p], status, now + 1))
  BY <1>1, MovedIsRow
<1>3. Told(p, status, Known')
  <2> DEFINE told == [package |-> p, status |-> status, at |-> now + 1, live |-> FALSE]
  <2>1. told \in Known'
    BY DEF Accept, Known
  <2>2. told.package = p /\ told.status = status
    OBVIOUS
  <2> HIDE DEF told
  <2> QED BY <2>1, <2>2 DEF Told
<1>4. row' = [row EXCEPT ![p] = Moved(row[p], status, now + 1)] /\ Known \subseteq Known'
  BY DEF Accept, Known
<1>5. row \in [Package -> Row]
  BY DEF TypeOK
<1>6. row'[p] = Moved(row[p], status, now + 1)
  BY <1>4, <1>5
<1>7. ASSUME NEW q \in Package PROVE Told(q, row'[q].status, Known') /\ Dated(row'[q])
  <2>1. CASE q = p
    BY <2>1, <1>2, <1>3, <1>6
  <2>2. CASE q # p
    <3>1. row'[q] = row[q]
      BY <2>2, <1>4, <1>5
    <3> QED BY <3>1, <1>4, GoodGrows DEF ServerSound
  <2> QED BY <2>1, <2>2
<1> QED BY <1>2, <1>6, <1>7 DEF ServerSound

LEMMA StepServer == TypeOK /\ Sound /\ [Next]_vars => ServerSound'
<1> SUFFICES ASSUME TypeOK, Sound, [Next]_vars PROVE ServerSound'
  OBVIOUS
<1>1. CASE UNCHANGED row
  BY <1>1, StepKnown, GoodGrows DEF Sound, ServerSound
<1>2. ASSUME NEW p \in Package, NEW status \in Target, PatchElsewhere(p, status)
      PROVE  ServerSound'
  BY <1>2, AcceptSound, TargetAssumption DEF PatchElsewhere, Sound
<1>3. CASE PatchAccepted
  BY <1>3, AcceptSound DEF PatchAccepted, Sound, TypeOK
<1>4. CASE EngineCommit
  <2>1. tick.package \in Package /\ tick.status \in PackageStatus /\ tick.at \in Nat
    BY <1>4 DEF EngineCommit, TypeOK, Message
  <2>2. row[tick.package] \in Row /\ row \in [Package -> Row]
    BY <2>1 DEF TypeOK
  <2>3. /\ Moved(row[tick.package], tick.status, tick.at).status = tick.status
        /\ Dated(Moved(row[tick.package], tick.status, tick.at))
    BY <2>1, <2>2, MovedIsRow
  <2>4. Told(tick.package, tick.status, Known')
    <3> DEFINE told == [package |-> tick.package, status |-> tick.status, at |-> tick.at + 1,
                        live |-> FALSE]
    <3>1. told \in Known'
      BY <1>4 DEF EngineCommit, Known
    <3>2. told.package = tick.package /\ told.status = tick.status
      OBVIOUS
    <3> HIDE DEF told
    <3> QED BY <3>1, <3>2 DEF Told
  <2>5. row' = [row EXCEPT ![tick.package] = Moved(row[tick.package], tick.status, tick.at)]
    BY <1>4 DEF EngineCommit
  <2>6. ASSUME NEW q \in Package PROVE Told(q, row'[q].status, Known') /\ Dated(row'[q])
    <3>1. CASE q = tick.package
      BY <3>1, <2>2, <2>3, <2>4, <2>5
    <3>2. CASE q # tick.package
      <4>1. row'[q] = row[q]
        BY <3>2, <2>2, <2>5
      <4> QED BY <4>1, StepKnown, GoodGrows DEF Sound, ServerSound
    <3> QED BY <3>1, <3>2
  <2> QED BY <2>6 DEF ServerSound
<1> QED
  BY <1>1, <1>2, <1>3, <1>4
  DEF Next, vars, server, EnginePublish, PatchShipment, EngineRollback, Receive, LoadFromCache,
      LoadAfresh, CoreLoaded, HistoryLoaded, LoadFails, LoadReadsPage, RefreshReadsPage,
      LoadReadsEvents, RefreshReadsEvents, Refresh, Refreshed, RefreshFails, PatchFails,
      PatchAnswered, Reload

LEMMA UnreadGood == \A known : Good(Unread, known) /\ Good(Asked.rows, known)
BY UnreadRows, AskedIsAnswer DEF Good

\* A message the server sent keeps the rows it is applied to good.
LEMMA PatchedGood ==
    ASSUME NEW known, NEW parcels \in Rows, Good(parcels, known), NEW update \in Message,
           Told(update.package, update.status, known)
    PROVE  Good(Patched(parcels, update), known)
<1> DEFINE u == update.package
<1>1. u \in Package /\ update.status \in PackageStatus /\ update.at \in Nat
  BY DEF Message
<1>2. ASSUME NEW p \in Package, p # u, Patched(parcels, update)[p] # Nothing
      PROVE  /\ Told(p, Patched(parcels, update)[p].status, known)
             /\ Dated(Patched(parcels, update)[p])
  <2>1. Patched(parcels, update)[p] = parcels[p]
    BY <1>2, PatchedRows
  <2> QED BY <1>2, <2>1 DEF Good
<1>3. ASSUME Patched(parcels, update)[u] # Nothing
      PROVE  /\ Told(u, Patched(parcels, update)[u].status, known)
             /\ Dated(Patched(parcels, update)[u])
  <2>1. CASE Patched(parcels, update) = parcels
    BY <1>1, <1>3, <2>1 DEF Good
  <2>2. CASE /\ parcels[u] # Nothing
             /\ Patched(parcels, update)[u] = Moved(parcels[u], update.status, update.at)
    <3>1. parcels[u] \in Row
      BY <1>1, <2>2 DEF Rows
    <3>2. /\ Moved(parcels[u], update.status, update.at).status = update.status
          /\ Dated(Moved(parcels[u], update.status, update.at))
      BY <1>1, <3>1, MovedIsRow
    <3> QED BY <2>2, <3>2
  <2> QED BY <2>1, <2>2, PatchedRows
<1> QED BY <1>2, <1>3 DEF Good

LEMMA StepPage == TypeOK /\ Sound /\ [Next]_vars => PageSound'
<1> SUFFICES ASSUME TypeOK, Sound, [Next]_vars PROVE PageSound'
  OBVIOUS
<1> USE DEF view
<1>1. CASE UNCHANGED packages
  BY <1>1, StepKnown, GoodGrows DEF Sound, PageSound
<1>2. CASE Receive
  <2>1. Head(wire) \in Message /\ Head(wire) \in published
    BY <1>2 DEF Receive, TypeOK, Sound, WireSound
  <2>2. Told(Head(wire).package, Head(wire).status, Known)
    BY <2>1 DEF Told, Known
  <2>3. Good(Patched(packages, Head(wire)), Known)
    BY <2>1, <2>2, PatchedGood DEF Sound, PageSound, TypeOK
  <2> QED BY <1>2, <2>3, StepKnown, GoodGrows DEF Receive, PageSound
<1>3. CASE LoadFromCache
  BY <1>3, StepKnown, GoodGrows DEF LoadFromCache, Sound, CacheSound, PageSound
<1>4. CASE CoreLoaded
  BY <1>4, StepKnown, GoodGrows DEF CoreLoaded, Sound, LoadSound, PageSound
<1>5. CASE Refreshed
  BY <1>5, StepKnown, GoodGrows DEF Refreshed, Merged, Sound, RefreshSound, PageSound
<1>6. CASE PatchAnswered
  <2> DEFINE patched == [packages EXCEPT ![patch.package] = patch.answer]
  <2> DEFINE update == [package |-> patch.package, status |-> patch.answer.status,
                        at |-> patch.answer.at]
  <2>1. patch.package \in Package /\ patch.answer \in Row
    BY <1>6 DEF PatchAnswered, TypeOK
  <2>2. update \in Message
    BY <2>1 DEF Message, Row
  <2>3. patched \in Rows
    BY <2>1 DEF TypeOK, Rows
  <2>4. Told(patch.package, patch.answer.status, Known) /\ Dated(patch.answer)
    BY <1>6 DEF PatchAnswered, Sound, PatchSound
  <2>5. Good(patched, Known)
    BY <2>1, <2>4 DEF Sound, PageSound, Good, TypeOK, Rows
  <2>6. Good(Patched(patched, update), Known)
    BY <2>2, <2>3, <2>4, <2>5, PatchedGood
  <2> QED BY <1>6, <2>6, StepKnown, GoodGrows DEF PatchAnswered, PageSound
<1>7. CASE Reload
  BY <1>7, UnreadGood DEF Reload, PageSound
<1> QED
  BY <1>1, <1>2, <1>3, <1>4, <1>5, <1>6, <1>7
  DEF Next, vars, EnginePublish, PatchShipment, PatchElsewhere, EngineCommit, EngineRollback,
      LoadAfresh, HistoryLoaded, LoadFails, LoadReadsPage, RefreshReadsPage, LoadReadsEvents,
      RefreshReadsEvents, Refresh, RefreshFails, PatchAccepted, PatchFails

LEMMA StepCache == TypeOK /\ Sound /\ [Next]_vars => CacheSound'
<1> SUFFICES ASSUME TypeOK, Sound, [Next]_vars PROVE CacheSound'
  OBVIOUS
<1>1. CASE UNCHANGED cache
  BY <1>1, StepKnown, GoodGrows DEF Sound, CacheSound
<1>2. CASE HistoryLoaded
  <2>1. cache'.rows = packages
    BY <1>2 DEF HistoryLoaded, WriteCache
  <2> QED BY <2>1, StepKnown, GoodGrows DEF Sound, PageSound, CacheSound
<1>3. CASE Refreshed
  <2>1. cache'.rows = refresh.rows /\ refresh # Nothing
    BY <1>3 DEF Refreshed, WriteCache, Merged
  <2> QED BY <2>1, StepKnown, GoodGrows DEF Sound, RefreshSound, CacheSound
<1> QED
  BY <1>1, <1>2, <1>3
  DEF Next, vars, EnginePublish, PatchShipment, PatchElsewhere, EngineCommit, EngineRollback,
      Receive, LoadFromCache, LoadAfresh, CoreLoaded, LoadFails, LoadReadsPage,
      RefreshReadsPage, LoadReadsEvents, RefreshReadsEvents, Refresh, RefreshFails,
      PatchAccepted, PatchFails, PatchAnswered, Reload

\* Another row of the server's joins an answer.
LEMMA ReadPage ==
    ASSUME TypeOK, ServerSound, NEW answer \in Answer, Good(answer.rows, Known),
           NEW p \in Package
    PROVE  Good([answer EXCEPT !.rows[p] = row[p]].rows, Known)
<1>1. [answer EXCEPT !.rows[p] = row[p]].rows = [answer.rows EXCEPT ![p] = row[p]]
  BY DEF Answer
<1>2. answer.rows \in Rows
  BY DEF Answer
<1>3. Good([answer.rows EXCEPT ![p] = row[p]], Known)
  BY <1>2 DEF ServerSound, Good, Rows
<1> QED BY <1>1, <1>3

LEMMA StepLoad == TypeOK /\ Sound /\ [Next]_vars => LoadSound'
<1> SUFFICES ASSUME TypeOK, Sound, [Next]_vars PROVE LoadSound'
  OBVIOUS
<1>1. CASE UNCHANGED loading
  BY <1>1, StepKnown, GoodGrows DEF Sound, LoadSound
<1>2. CASE LoadFromCache \/ LoadAfresh
  BY <1>2, UnreadGood DEF LoadFromCache, LoadAfresh, LoadSound
<1>3. ASSUME NEW p \in Package, LoadReadsPage(p) PROVE LoadSound'
  <2>1. loading \in Answer /\ Good(loading.rows, Known)
    BY <1>3 DEF LoadReadsPage, TypeOK, Sound, LoadSound
  <2>2. Good(loading'.rows, Known)
    BY <1>3, <2>1, ReadPage DEF LoadReadsPage, Sound
  <2> QED BY <2>2, StepKnown, GoodGrows DEF LoadSound
<1>4. CASE CoreLoaded
  <2>1. loading'.rows = Unread
    BY <1>4 DEF CoreLoaded
  <2> QED BY <2>1, UnreadGood DEF LoadSound
<1>5. ASSUME NEW failed \in BOOLEAN, LoadReadsEvents(failed) PROVE LoadSound'
  <2>1. loading \in Answer /\ Good(loading.rows, Known)
    BY <1>5 DEF LoadReadsEvents, TypeOK, Sound, LoadSound
  <2>2. loading'.rows = loading.rows
    BY <1>5, <2>1 DEF LoadReadsEvents, Answer
  <2> QED BY <2>1, <2>2, StepKnown, GoodGrows DEF LoadSound
<1>6. CASE HistoryLoaded \/ LoadFails \/ Reload
  BY <1>6 DEF HistoryLoaded, LoadFails, Reload, LoadSound
<1> QED
  BY <1>1, <1>2, <1>3, <1>4, <1>5, <1>6
  DEF Next, vars, EnginePublish, PatchShipment, PatchElsewhere, EngineCommit, EngineRollback,
      Receive, RefreshReadsPage, RefreshReadsEvents, Refresh, Refreshed, RefreshFails,
      PatchAccepted, PatchFails, PatchAnswered

LEMMA StepRefresh == TypeOK /\ Sound /\ [Next]_vars => RefreshSound'
<1> SUFFICES ASSUME TypeOK, Sound, [Next]_vars PROVE RefreshSound'
  OBVIOUS
<1>1. CASE UNCHANGED refresh
  BY <1>1, StepKnown, GoodGrows DEF Sound, RefreshSound
<1>2. CASE Refresh
  BY <1>2, UnreadGood DEF Refresh, RefreshSound
<1>3. ASSUME NEW p \in Package, RefreshReadsPage(p) PROVE RefreshSound'
  <2>1. refresh \in Answer /\ Good(refresh.rows, Known)
    BY <1>3 DEF RefreshReadsPage, TypeOK, Sound, RefreshSound
  <2>2. Good(refresh'.rows, Known)
    BY <1>3, <2>1, ReadPage DEF RefreshReadsPage, Sound
  <2> QED BY <2>2, StepKnown, GoodGrows DEF RefreshSound
<1>4. ASSUME NEW failed \in BOOLEAN, RefreshReadsEvents(failed) PROVE RefreshSound'
  <2>1. refresh \in Answer /\ Good(refresh.rows, Known)
    BY <1>4 DEF RefreshReadsEvents, TypeOK, Sound, RefreshSound
  <2>2. refresh'.rows = refresh.rows
    BY <1>4, <2>1 DEF RefreshReadsEvents, Answer
  <2> QED BY <2>1, <2>2, StepKnown, GoodGrows DEF RefreshSound
<1>5. CASE Refreshed \/ RefreshFails \/ Reload
  BY <1>5 DEF Refreshed, RefreshFails, Reload, RefreshSound
<1> QED
  BY <1>1, <1>2, <1>3, <1>4, <1>5
  DEF Next, vars, EnginePublish, PatchShipment, PatchElsewhere, EngineCommit, EngineRollback,
      Receive, LoadFromCache, LoadAfresh, CoreLoaded, HistoryLoaded, LoadFails, LoadReadsPage,
      LoadReadsEvents, PatchAccepted, PatchFails, PatchAnswered

LEMMA StepPatch == TypeOK /\ Sound /\ [Next]_vars => PatchSound'
<1> SUFFICES ASSUME TypeOK, Sound, [Next]_vars PROVE PatchSound'
  OBVIOUS
<1>1. CASE UNCHANGED patch
  BY <1>1, StepKnown, GoodGrows DEF Sound, PatchSound
<1>2. ASSUME NEW p \in Package, NEW status \in Target, PatchShipment(p, status)
      PROVE  PatchSound'
  BY <1>2 DEF PatchShipment, PatchSound
<1>3. CASE PatchAccepted
  <2>1. patch.package \in Package /\ patch.status \in PackageStatus
    BY <1>3 DEF PatchAccepted, TypeOK
  <2>2. ServerSound'
    BY <1>3, <2>1, AcceptSound DEF PatchAccepted, Sound
  <2>3. patch'.package = patch.package /\ patch'.answer = row'[patch.package]
    BY <1>3 DEF PatchAccepted, TypeOK
  <2> QED BY <2>1, <2>2, <2>3 DEF ServerSound, PatchSound
<1>4. CASE PatchFails \/ PatchAnswered \/ Reload
  BY <1>4 DEF PatchFails, PatchAnswered, Reload, PatchSound
<1> QED
  BY <1>1, <1>2, <1>3, <1>4
  DEF Next, vars, EnginePublish, PatchElsewhere, EngineCommit, EngineRollback, Receive,
      LoadFromCache, LoadAfresh, CoreLoaded, HistoryLoaded, LoadFails, LoadReadsPage,
      RefreshReadsPage, LoadReadsEvents, RefreshReadsEvents, Refresh, Refreshed, RefreshFails

LEMMA StepWire == TypeOK /\ Sound /\ [Next]_vars => WireSound'
<1> SUFFICES ASSUME TypeOK, Sound, [Next]_vars PROVE WireSound'
  OBVIOUS
<1> USE DEF server
<1>1. CASE UNCHANGED <<wire, published>>
  BY <1>1 DEF Sound, WireSound
<1>2. ASSUME NEW p \in Package, NEW status \in Target, NEW lost \in BOOLEAN,
             EnginePublish(p, status, lost)
      PROVE  WireSound'
  <2> DEFINE message == [package |-> p, status |-> status, at |-> now + 2]
  <2>1. wire \in Seq(Message) /\ published \subseteq published' /\ message \in published'
    BY <1>2 DEF EnginePublish, TypeOK
  <2>2. wire' = wire \/ wire' = Append(wire, message)
    BY <1>2 DEF EnginePublish
  <2> QED BY <2>1, <2>2 DEF Sound, WireSound
<1>3. CASE Receive
  <2>1. wire \in Seq(Message) /\ wire # << >> /\ wire' = Tail(wire) /\ published' = published
    BY <1>3 DEF Receive, TypeOK
  <2> QED BY <2>1 DEF Sound, WireSound
<1>4. CASE Reload
  BY <1>4 DEF Reload, WireSound
<1> QED
  BY <1>1, <1>2, <1>3, <1>4
  DEF Next, vars, PatchShipment, PatchElsewhere, Accept, EngineCommit, EngineRollback,
      LoadFromCache, LoadAfresh, CoreLoaded, HistoryLoaded, LoadFails, LoadReadsPage,
      RefreshReadsPage, LoadReadsEvents, RefreshReadsEvents, Refresh, Refreshed, RefreshFails,
      PatchAccepted, PatchFails, PatchAnswered

LEMMA InitSound == Init => Sound
<1> SUFFICES ASSUME Init PROVE Sound
  OBVIOUS
<1>1. ServerSound
  <2> SUFFICES ASSUME NEW p \in Package PROVE Told(p, row[p].status, Known) /\ Dated(row[p])
    BY DEF ServerSound
  <2>1. row[p] = [status |-> Start[p], at |-> 0, dated |-> Start[p] = "DELIVERED"]
    BY DEF Init
  <2>2. [package |-> p, status |-> Start[p], at |-> 0, live |-> FALSE] \in Known
    BY DEF Init, Known
  <2>3. Told(p, row[p].status, Known)
    BY <2>1, <2>2 DEF Told
  <2>4. row[p].status = Start[p]
    BY <2>1
  <2>5. ASSUME NEW b \in BOOLEAN, row[p] = [status |-> Start[p], at |-> 0, dated |-> b]
        PROVE  row[p].dated = b
    BY <2>5
  <2>6. row[p].dated = (Start[p] = "DELIVERED")
    BY <2>1, <2>5, Zenon
  <2>7. Dated(row[p])
    BY <2>4, <2>6, Zenon DEF Dated
  <2> QED BY <2>3, <2>7
<1>2. Good(packages, Known)
  BY UnreadGood DEF Init
<1> QED
  BY <1>1, <1>2
  DEF Init, Sound, PageSound, CacheSound, LoadSound, RefreshSound, PatchSound, WireSound

\* Every row on screen, cached or on its way, and every message on the wire, is
\* one that the server gave or announced, and a delivered one has its date.
THEOREM AlwaysSound == Spec => []Sound
<1>1. TypeOK /\ Sound /\ [Next]_vars => Sound'
  BY StepServer, StepPage, StepCache, StepLoad, StepRefresh, StepPatch, StepWire DEF Sound
<1> QED BY <1>1, InitSound, TypeCorrect, PTL DEF Spec

\* Whatever order answers, live messages, caches and reloads come in, a parcel
\* is shown in no status that the server did not give it or announce, and one
\* shown as delivered has its delivery date (store.ts:169-260).
THEOREM WhatIsShownIsSound == Spec => []ShownIsSound
<1>1. Sound => ShownWasReal
  BY DEF Sound, PageSound, Good, Told, Known, ShownWasReal, Real
<1>2. Sound => DeliveredHasDate
  BY DEF Sound, PageSound, Good, Dated, DeliveredHasDate
<1>3. Sound => ShownIsSound
  BY <1>1, <1>2 DEF ShownIsSound
<1> QED BY <1>3, AlwaysSound, PTL

=============================================================================
