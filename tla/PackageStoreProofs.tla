------------------------- MODULE PackageStoreProofs -------------------------
(***************************************************************************)
(* What PackageStore guarantees for every set of parcels, handlers and     *)
(* clients' requests.                                                      *)
(*                                                                         *)
(* The inductive invariant IInv relates each handler to the log: the       *)
(* status a handler loaded is the new status of some committed event, and  *)
(* the event it is about to insert is stamped after that one.  Commits     *)
(* only append to the log, so what one handler knows about it survives     *)
(* what the others do; that is lemma StepGrows.                            *)
(***************************************************************************)
EXTENDS PackageStore, TLAPS

\* The row is what the last committed event says, and exists when one does.
RowIsLastCommit ==
    \A p \in Package :
        /\ row[p] = None <=> Len(log[p]) = 0
        /\ row[p] # None => row[p].status = log[p][Len(log[p])].new

StampsPast ==
    \A p \in Package : \A i \in 1 .. Len(log[p]) : log[p][i].stamp <= clock

LoadedOK(r) ==
    pc[r] = "loaded" =>
        /\ job[r] \in Job /\ seen[r] \in Row
        /\ \E j \in 1 .. Len(log[job[r].pkg]) :
                log[job[r].pkg][j].new = seen[r].status

PendingOK(r) ==
    pc[r] = "pending" =>
        /\ job[r] \in Job /\ seen[r] \in Row /\ event[r] \in Event
        /\ IsValidTransition(event[r].prev, event[r].new)
        /\ event[r].prev = seen[r].status
        /\ event[r].stamp <= clock
        /\ \E j \in 1 .. Len(log[job[r].pkg]) :
                /\ log[job[r].pkg][j].new = event[r].prev
                /\ log[job[r].pkg][j].stamp < event[r].stamp

CommittedOK(r) ==
    pc[r] = "committed" \/ (pc[r] = "replied" /\ reply[r] \in PackageStatus) =>
        /\ job[r] \in Job
        /\ mine[r] \in 1 .. Len(log[job[r].pkg])
        /\ log[job[r].pkg][mine[r]] = event[r]

RepliedOK(r) ==
    pc[r] = "replied" /\ reply[r] \in PackageStatus =>
        \E i \in mine[r] .. Len(log[job[r].pkg]) :
            log[job[r].pkg][i].new = reply[r]

HandlersOK ==
    \A r \in Request : LoadedOK(r) /\ PendingOK(r) /\ CommittedOK(r) /\ RepliedOK(r)

TrackOK ==
    IF track.done THEN TrackedStatusInTimeline
    ELSE track.pkg # None =>
            \E i \in 1 .. Len(log[track.pkg]) :
                    log[track.pkg][i].new = track.status

IInv ==
    /\ TypeOK /\ RowIsLastCommit /\ StampsPast /\ HandlersOK
    /\ Grounded /\ PickedUpBeforeMoved /\ TrackOK

-----------------------------------------------------------------------------
(***************************************************************************)
(* Lemmas on the data.                                                     *)
(***************************************************************************)
\* Appending to a log keeps its events in place and puts the new one last.
LEMMA AppendEvent ==
    ASSUME NEW s \in Seq(Event), NEW e \in Event
    PROVE  /\ Append(s, e) \in Seq(Event)
           /\ Len(Append(s, e)) = Len(s) + 1
           /\ Len(s) \in Nat
           /\ \A i \in 1 .. Len(s) : Append(s, e)[i] = s[i]
           /\ Append(s, e)[Len(s) + 1] = e
  OBVIOUS

\* The event of create_package.
CreationEvent(source, time) ==
    [prev |-> None, new |-> "PACKAGE_CREATED", stamp |-> time,
     col |-> [c \in Column |-> IF c = "node" THEN source ELSE None]]

LEMMA CreationEventType ==
    ASSUME NEW source \in Value, NEW time \in Nat
    PROVE  CreationEvent(source, time) \in Event
  BY DEF CreationEvent, Event, Given, PackageStatus

\* The row an UPDATE leaves behind is a row.
LEMMA WrittenType ==
    ASSUME NEW old \in Row, NEW loaded, NEW e \in Event
    PROVE  /\ Written(old, loaded, e) \in Row
           /\ Written(old, loaded, e).status = e.new
  BY DEF Written, Row, Event, Given

\* The seed scripts name nodes, or none.
LEMMA SeedNodeType ==
    ASSUME NEW p \in Package, NEW status
    PROVE  /\ LocatePackage(status, Place[p]) \in Value \cup {None}
           /\ NodeForStep(status, Place[p]) \in Value \cup {None}
  <1>1. Place[p] \in Route
    BY PlaceAssumption
  <1>. QED
    BY <1>1 DEF LocatePackage, NodeForStep, Or, Route

\* A seeded log is a log.
LEMMA SeedLogType ==
    ASSUME NEW p \in Package, NEW path \in SeedPath, NEW assigned \in Given
    PROVE  /\ SeedLog(p, path, assigned) \in Seq(Event)
           /\ Len(SeedLog(p, path, assigned)) = Len(path)
           /\ Len(path) \in Nat
           /\ \A i \in 1 .. Len(path) :
                /\ SeedLog(p, path, assigned)[i].new = path[i]
                /\ SeedLog(p, path, assigned)[i].stamp = i
                /\ SeedLog(p, path, assigned)[i].prev = IF i = 1 THEN None ELSE path[i - 1]
                /\ \A c \in Column : c # "node" =>
                        SeedLog(p, path, assigned)[i].col[c] = assigned[c]
  <1>1. path \in Seq(PackageStatus) /\ Len(path) \in Nat
    BY SeedPathAssumption
  <1>2. \A i \in 1 .. Len(path) : path[i] \in PackageStatus
    BY <1>1
  <1>3. \A i \in 2 .. Len(path) : path[i - 1] \in PackageStatus
    BY <1>1, <1>2
  <1>. DEFINE cols(i) == [c \in Column |-> IF c = "node" THEN NodeForStep(path[i], Place[p])
                                          ELSE assigned[c]]
              e(i) == [prev |-> IF i = 1 THEN None ELSE path[i - 1],
                       new |-> path[i], stamp |-> i, col |-> cols(i)]
  <1>4. \A i \in 1 .. Len(path) : cols(i) \in Given
    BY SeedNodeType DEF Given
  <1>5. SeedLog(p, path, assigned) = [i \in 1 .. Len(path) |-> e(i)]
    BY DEF SeedLog
  <1>6. \A i \in 1 .. Len(path), c \in Column : c # "node" => cols(i)[c] = assigned[c]
    OBVIOUS
  <1>. HIDE DEF cols
  <1>7. \A i \in 1 .. Len(path) : e(i) \in Event
    BY <1>1, <1>2, <1>3, <1>4 DEF Event
  <1>8. \A i \in 1 .. Len(path) :
            /\ e(i).new = path[i] /\ e(i).stamp = i /\ e(i).col = cols(i)
            /\ e(i).prev = IF i = 1 THEN None ELSE path[i - 1]
    OBVIOUS
  <1>. HIDE DEF e
  <1>9. SeedLog(p, path, assigned) \in Seq(Event) /\ Len(SeedLog(p, path, assigned)) = Len(path)
    BY <1>1, <1>5, <1>7
  <1>. QED
    BY <1>1, <1>5, <1>6, <1>8, <1>9

\* A seeded row is a row in the last status of its path.
LEMMA SeedRowType ==
    ASSUME NEW p \in Package, NEW path \in SeedPath, NEW assigned \in Given, path # <<>>
    PROVE  LET r == SeedRow(p, path, assigned)
               last == path[Len(path)]
           IN /\ Len(path) \in Nat \ {0} /\ last \in PackageStatus
              /\ r \in Row /\ r # None /\ r.status = last
              /\ r.delivered <=> last = "DELIVERED"
              /\ \A c \in Column :
                    r.col[c] = IF c = "node" THEN LocatePackage(last, Place[p]) ELSE assigned[c]
  <1>. DEFINE last == path[Len(path)]
              cols == [c \in Column |-> IF c = "node" THEN LocatePackage(last, Place[p])
                                       ELSE assigned[c]]
              r == [status |-> last, delivered |-> last = "DELIVERED", col |-> cols]
  <1>1. path \in Seq(PackageStatus) /\ Len(path) \in Nat \ {0}
    BY SeedPathAssumption
  <1>2. last \in PackageStatus
    BY <1>1
  <1>3. cols \in Given
    BY SeedNodeType DEF Given
  <1>4. \A c \in Column :
            cols[c] = IF c = "node" THEN LocatePackage(last, Place[p]) ELSE assigned[c]
    OBVIOUS
  <1>5. SeedRow(p, path, assigned) = r
    BY DEF SeedRow
  <1>. HIDE DEF last, cols
  <1>6. r \in Row /\ r.status = last /\ r.col = cols /\ (r.delivered = (last = "DELIVERED"))
    BY <1>2, <1>3 DEF Row
  <1>. HIDE DEF r
  <1>7. r # None /\ (r.delivered <=> last = "DELIVERED")
    BY <1>6, SentinelAssumption
  <1>8. last = path[Len(path)]
    BY DEF last
  <1>. QED
    BY <1>1, <1>2, <1>4, <1>5, <1>6, <1>7, <1>8

-----------------------------------------------------------------------------
(***************************************************************************)
(* The invariant holds initially.                                          *)
(***************************************************************************)
LEMMA InitIInv == Init => IInv
  <1>. SUFFICES ASSUME Init PROVE IInv
    OBVIOUS
  <1>1. PICK path \in [Package -> SeedPath], assigned \in [Package -> Given] :
            /\ row = [p \in Package |-> SeedRow(p, path[p], assigned[p])]
            /\ log = [p \in Package |-> SeedLog(p, path[p], assigned[p])]
    BY DEF Init
  <1>2. ASSUME NEW p \in Package
        PROVE  /\ row[p] \in Row \cup {None}
               /\ log[p] \in Seq(Event)
               /\ row[p] = None <=> Len(log[p]) = 0
               /\ row[p] # None => row[p].status = log[p][Len(log[p])].new
    <2>1. path[p] \in SeedPath /\ path[p] \in Seq(PackageStatus) /\ assigned[p] \in Given
      BY SeedPathAssumption
    <2>2. log[p] = SeedLog(p, path[p], assigned[p]) /\ row[p] = SeedRow(p, path[p], assigned[p])
      BY <1>1
    <2>3. /\ log[p] \in Seq(Event) /\ Len(log[p]) = Len(path[p]) /\ Len(path[p]) \in Nat
          /\ \A i \in 1 .. Len(path[p]) : log[p][i].new = path[p][i]
      BY <2>1, <2>2, SeedLogType
    <2>4. CASE path[p] # <<>>
      <3>1. /\ row[p] \in Row /\ row[p] # None /\ row[p].status = path[p][Len(path[p])]
            /\ Len(path[p]) \in Nat \ {0}
        BY <2>1, <2>2, <2>4, SeedRowType
      <3>. QED
        BY <2>3, <3>1
    <2>5. CASE path[p] = <<>>
      <3>1. row[p] = None /\ Len(path[p]) = 0
        BY <2>2, <2>5 DEF SeedRow
      <3>. QED
        BY <2>3, <3>1
    <2>. QED
      BY <2>4, <2>5
  <1>3. TypeOK
    BY <1>1, <1>2, ClockAssumption DEF Init, TypeOK, Track, NoTrack
  <1>4. RowIsLastCommit
    BY <1>2 DEF RowIsLastCommit
  <1>5. ASSUME NEW p \in Package
        PROVE  /\ log[p] = SeedLog(p, path[p], assigned[p])
               /\ path[p] \in SeedPath /\ assigned[p] \in Given
               /\ Len(log[p]) = Len(path[p]) /\ Len(path[p]) \in Nat
               /\ Len(path[p]) <= SeedTime
               /\ \A i \in 1 .. Len(path[p]) :
                    /\ log[p][i].new = path[p][i] /\ log[p][i].stamp = i
                    /\ log[p][i].prev = IF i = 1 THEN None ELSE path[p][i - 1]
    <2>1. /\ log[p] = SeedLog(p, path[p], assigned[p])
          /\ path[p] \in SeedPath /\ assigned[p] \in Given
      BY <1>1
    <2>. QED
      BY <2>1, SeedLogType, ClockAssumption
  <1>6. StampsPast
    BY <1>5, ClockAssumption DEF StampsPast, Init
  <1>7. Grounded
    <2>. SUFFICES ASSUME NEW p \in Package, NEW i \in 1 .. Len(log[p])
                  PROVE  IF i = 1
                         THEN log[p][i].prev = None /\ log[p][i].new = "PACKAGE_CREATED"
                         ELSE /\ IsValidTransition(log[p][i].prev, log[p][i].new)
                              /\ \E j \in 1 .. (i - 1) :
                                    /\ log[p][j].new = log[p][i].prev
                                    /\ log[p][j].stamp < log[p][i].stamp
      BY DEF Grounded
    <2>1. CASE i = 1
      <3>1. path[p] \in Seq(PackageStatus) /\ 1 \in 1 .. Len(path[p])
        BY <1>5, <2>1, SeedPathAssumption
      <3>2. path[p] # <<>>
        BY <3>1
      <3>3. path[p][1] = "PACKAGE_CREATED"
        BY <1>5, <3>2, SeedPathAssumption
      <3>4. log[p][1].new = path[p][1] /\ log[p][1].prev = None
        BY <1>5, <3>1
      <3>. QED
        BY <2>1, <3>3, <3>4
    <2>2. CASE i # 1
      <3>1. i \in 2 .. Len(path[p]) /\ i - 1 \in 1 .. Len(path[p]) /\ i - 1 \in 1 .. (i - 1)
        BY <1>5, <2>2
      <3>2. log[p][i - 1].new = log[p][i].prev /\ log[p][i - 1].stamp < log[p][i].stamp
        BY <1>5, <2>2, <3>1
      <3>3. IsValidTransition(log[p][i].prev, log[p][i].new)
        BY <1>5, <2>2, <3>1, SeedPathAssumption
      <3>. QED
        BY <2>2, <3>1, <3>2, <3>3
    <2>. QED
      BY <2>1, <2>2
  <1>8. PickedUpBeforeMoved
    <2>. SUFFICES ASSUME NEW p \in Package, NEW i \in 1 .. Len(log[p]),
                         log[p][i].new \notin BeforePickup
                  PROVE  \E j \in 1 .. i : log[p][j].new = "PICKED_UP"
      BY DEF PickedUpBeforeMoved
    <2>1. i \in 1 .. Len(path[p]) /\ path[p][i] \notin BeforePickup
      BY <1>5
    <2>2. PICK j \in 1 .. i : path[p][j] = "PICKED_UP"
      BY <1>5, <2>1, SeedPathAssumption
    <2>3. j \in 1 .. Len(path[p])
      BY <1>5, <2>1
    <2>. QED
      BY <1>5, <2>2, <2>3
  <1>9. HandlersOK /\ TrackOK
    BY DEF Init, HandlersOK, LoadedOK, PendingOK, CommittedOK, RepliedOK, TrackOK, NoTrack
  <1>. QED
    BY <1>3, <1>4, <1>6, <1>7, <1>8, <1>9 DEF IInv

-----------------------------------------------------------------------------
(***************************************************************************)
(* Every step keeps it.                                                    *)
(***************************************************************************)
\* The shape of Commit that the steps below use.
LEMMA CommitFacts ==
    ASSUME IInv, NEW r \in Request, Commit(r)
    PROVE  LET p == job[r].pkg IN
           /\ p \in Package /\ event[r] \in Event
           /\ row[p] \in Row /\ log[p] \in Seq(Event) /\ Len(log[p]) > 0
           /\ row' = [row EXCEPT ![p] = Written(row[p], seen[r], event[r])]
           /\ log' = [log EXCEPT ![p] = Append(log[p], event[r])]
  <1>1. PendingOK(r) /\ pc[r] = "pending"
    BY DEF IInv, HandlersOK, Commit
  <1>2. job[r].pkg \in Package /\ event[r] \in Event
    BY <1>1 DEF PendingOK, Job
  <1>3. log[job[r].pkg] \in Seq(Event) /\ Len(log[job[r].pkg]) > 0
    BY <1>1, <1>2 DEF IInv, TypeOK, PendingOK
  <1>4. row[job[r].pkg] \in Row
    BY <1>2, <1>3 DEF IInv, TypeOK, RowIsLastCommit
  <1>. QED
    BY <1>2, <1>3, <1>4 DEF Commit, IInv, TypeOK

LEMMA CreateFacts ==
    ASSUME IInv, NEW p \in Package, NEW source \in Value, CreatePackage(p, source)
    PROVE  /\ clock' = clock + 1 /\ clock' \in Nat
           /\ CreationEvent(source, clock') \in Event
           /\ log[p] \in Seq(Event) /\ Len(log[p]) = 0 /\ row[p] = None
           /\ row' = [row EXCEPT ![p] = [status |-> "PACKAGE_CREATED",
                                 col |-> NothingGiven, delivered |-> FALSE]]
           /\ [status |-> "PACKAGE_CREATED", col |-> NothingGiven,
               delivered |-> FALSE] \in Row
           /\ log' = [log EXCEPT ![p] = Append(log[p], CreationEvent(source, clock'))]
  <1>1. clock' = clock + 1 /\ clock' \in Nat
    BY DEF CreatePackage, IInv, TypeOK
  <1>2. CreationEvent(source, clock') \in Event
    BY <1>1, CreationEventType
  <1>3. log[p] \in Seq(Event) /\ Len(log[p]) = 0 /\ row[p] = None
    BY DEF CreatePackage, IInv, TypeOK, RowIsLastCommit
  <1>4. [status |-> "PACKAGE_CREATED", col |-> NothingGiven, delivered |-> FALSE] \in Row
    BY DEF Row, Given, NothingGiven, PackageStatus
  <1>. QED
    BY <1>1, <1>2, <1>3, <1>4 DEF CreatePackage, CreationEvent

LEMMA TypeStep == IInv /\ [Next]_vars => TypeOK'
  <1>. SUFFICES ASSUME IInv, [Next]_vars PROVE TypeOK'
    OBVIOUS
  <1>. USE DEF IInv
  <1>1. ASSUME NEW p \in Package, NEW source \in Value, CreatePackage(p, source)
        PROVE  TypeOK'
    <2>. DEFINE e == CreationEvent(source, clock')
    <2>1. e \in Event /\ log[p] \in Seq(Event) /\ clock' \in Nat
          /\ log' = [log EXCEPT ![p] = Append(log[p], e)]
      BY <1>1, CreateFacts
    <2>2. Append(log[p], e) \in Seq(Event)
      BY <2>1, AppendEvent
    <2>3. log' \in [Package -> Seq(Event)]
      BY <2>1, <2>2 DEF TypeOK
    <2>4. row' \in [Package -> Row \cup {None}]
      BY <1>1, CreateFacts DEF TypeOK
    <2>. QED
      BY <1>1, <2>1, <2>3, <2>4 DEF TypeOK, CreatePackage
  <1>2. ASSUME NEW r \in Request, NEW p \in Package, NEW target \in Target,
               NEW given \in Given, Load(r, p, target, given)
        PROVE  TypeOK'
    <2>1. CASE row[p] = None
      <3>1. Finish(r, "404") /\ mine' = [mine EXCEPT ![r] = 0]
            /\ UNCHANGED <<row, log, clock, track>>
        BY <1>2, <2>1 DEF Load
      <3>. QED
        BY <3>1 DEF TypeOK, Finish, Code
    <2>2. CASE row[p] # None
      <3>1. row[p] \in Row /\ [pkg |-> p, target |-> target, given |-> given] \in Job
        BY <2>2 DEF TypeOK, Job
      <3>2. /\ pc' = [pc EXCEPT ![r] = "loaded"]
            /\ job' = [job EXCEPT ![r] = [pkg |-> p, target |-> target, given |-> given]]
            /\ seen' = [seen EXCEPT ![r] = row[p]]
            /\ mine' = [mine EXCEPT ![r] = 0]
            /\ reply' = [reply EXCEPT ![r] = None]
            /\ event' = [event EXCEPT ![r] = None]
            /\ UNCHANGED <<row, log, clock, track>>
        BY <1>2, <2>2 DEF Load
      <3>. QED
        BY <3>1, <3>2 DEF TypeOK
    <2>. QED
      BY <2>1, <2>2
  <1>3. ASSUME NEW r \in Request, Apply(r) PROVE TypeOK'
    <2>1. job[r] \in Job /\ seen[r] \in Row
      BY <1>3 DEF HandlersOK, LoadedOK, Apply
    <2>2. [prev |-> seen[r].status, new |-> job[r].target,
           col |-> job[r].given, stamp |-> clock'] \in Event
      BY <1>3, <2>1, TargetAssumption DEF Apply, TypeOK, Event, Job, Row
    <2>. QED
      BY <1>3, <2>2 DEF Apply, TypeOK
  <1>4. ASSUME NEW r \in Request, Reject(r) \/ Fail(r) PROVE TypeOK'
    BY <1>4 DEF Reject, Fail, Finish, TypeOK, Code
  <1>5. ASSUME NEW r \in Request, Commit(r) PROVE TypeOK'
    <2>1. row' \in [Package -> Row \cup {None}] /\ log' \in [Package -> Seq(Event)]
      <3>. DEFINE p == job[r].pkg
      <3>1. /\ p \in Package /\ event[r] \in Event /\ row[p] \in Row /\ log[p] \in Seq(Event)
            /\ row' = [row EXCEPT ![p] = Written(row[p], seen[r], event[r])]
            /\ log' = [log EXCEPT ![p] = Append(log[p], event[r])]
        BY <1>5, CommitFacts
      <3>2. Written(row[p], seen[r], event[r]) \in Row
        BY <3>1, WrittenType
      <3>3. Append(log[p], event[r]) \in Seq(Event)
        BY <3>1, AppendEvent
      <3>. QED
        BY <3>1, <3>2, <3>3 DEF TypeOK
    <2>2. mine' \in [Request -> Nat]
      BY <1>5, CommitFacts, AppendEvent DEF TypeOK, Commit
    <2>. QED
      BY <1>5, <2>1, <2>2 DEF TypeOK, Commit
  <1>6. ASSUME NEW r \in Request, Refresh(r) PROVE TypeOK'
    <2>1. job[r].pkg \in Package /\ Len(log[job[r].pkg]) > 0
      BY <1>6 DEF HandlersOK, CommittedOK, Refresh, Job
    <2>2. row[job[r].pkg].status \in PackageStatus
      BY <2>1 DEF RowIsLastCommit, TypeOK, Row
    <2>. QED
      BY <1>6, <2>2 DEF TypeOK, Refresh
  <1>7. ASSUME NEW p \in Package, TrackRow(p) PROVE TypeOK'
    BY <1>7 DEF TrackRow, TypeOK, Track, Row
  <1>8. CASE TrackEvents
    <2>1. track.pkg \in Package
      BY <1>8 DEF TrackEvents, TypeOK, Track
    <2>2. { log[track.pkg][i] : i \in 1 .. Len(log[track.pkg]) } \in SUBSET Event
      BY <2>1 DEF TypeOK
    <2>. QED
      BY <1>8, <2>2 DEF TrackEvents, TypeOK, Track
  <1>9. CASE UNCHANGED vars
    BY <1>9 DEF TypeOK, vars
  <1>. QED
    BY <1>1, <1>2, <1>3, <1>4, <1>5, <1>6, <1>7, <1>8, <1>9 DEF Next

\* What a step may do to the two tables: append one event to one parcel's log
\* and set its row to match, the event being the parcel's first, or a legal
\* move from the status of an earlier and older event.
Appends(p, e, w) ==
    /\ log' = [log EXCEPT ![p] = Append(log[p], e)]
    /\ row' = [row EXCEPT ![p] = w]
    /\ w.status = e.new
    /\ e.stamp <= clock'
    /\ \/ Len(log[p]) = 0 /\ e.prev = None /\ e.new = "PACKAGE_CREATED"
       \/ /\ Len(log[p]) > 0
          /\ IsValidTransition(e.prev, e.new)
          /\ \E j \in 1 .. Len(log[p]) :
                log[p][j].new = e.prev /\ log[p][j].stamp < e.stamp

LEMMA StoreStep ==
    ASSUME IInv, [Next]_vars
    PROVE  /\ clock \in Nat /\ clock' \in Nat /\ clock <= clock'
           /\ \/ row' = row /\ log' = log
              \/ \E p \in Package, e \in Event, w \in Row : Appends(p, e, w)
  <1>1. clock \in Nat
    BY DEF IInv, TypeOK
  <1>2. ASSUME NEW p \in Package, NEW source \in Value, CreatePackage(p, source)
        PROVE  clock' = clock + 1 /\ \E e \in Event, w \in Row : Appends(p, e, w)
    <2>. DEFINE e == CreationEvent(source, clock')
                w == [status |-> "PACKAGE_CREATED", col |-> NothingGiven, delivered |-> FALSE]
    <2>1. e \in Event /\ w \in Row /\ clock' = clock + 1
          /\ Len(log[p]) = 0
          /\ row' = [row EXCEPT ![p] = w] /\ log' = [log EXCEPT ![p] = Append(log[p], e)]
      BY <1>2, CreateFacts
    <2>2. e.prev = None /\ e.new = "PACKAGE_CREATED" /\ e.stamp = clock'
      BY DEF CreationEvent
    <2>3. e.stamp <= clock'
      BY <1>1, <2>1, <2>2
    <2>4. Appends(p, e, w)
      BY <2>1, <2>2, <2>3 DEF Appends
    <2>. QED
      BY <2>1, <2>4
  <1>3. ASSUME NEW r \in Request, Commit(r)
        PROVE  clock' = clock /\ \E p \in Package, e \in Event, w \in Row : Appends(p, e, w)
    <2>. DEFINE p == job[r].pkg
                w == Written(row[p], seen[r], event[r])
    <2>1. /\ p \in Package /\ event[r] \in Event /\ row[p] \in Row
          /\ Len(log[p]) > 0
          /\ row' = [row EXCEPT ![p] = w] /\ log' = [log EXCEPT ![p] = Append(log[p], event[r])]
      BY <1>3, CommitFacts
    <2>2. w \in Row /\ w.status = event[r].new
      BY <2>1, WrittenType
    <2>3. clock' = clock /\ PendingOK(r) /\ pc[r] = "pending"
      BY <1>3 DEF Commit, IInv, HandlersOK
    <2>4. Appends(p, event[r], w)
      BY <2>1, <2>2, <2>3 DEF Appends, PendingOK
    <2>. QED
      BY <2>1, <2>2, <2>3, <2>4
  <1>4. ASSUME NEW r \in Request, Apply(r)
        PROVE  clock' = clock + 1 /\ row' = row /\ log' = log
    BY <1>4 DEF Apply
  <1>5. ASSUME NEW r \in Request, NEW p \in Package, NEW target, NEW given,
               Load(r, p, target, given)
        PROVE  clock' = clock /\ row' = row /\ log' = log
    BY <1>5 DEF Load
  <1>6. ASSUME NEW r \in Request, Reject(r) \/ Refresh(r) \/ Fail(r)
        PROVE  clock' = clock /\ row' = row /\ log' = log
    BY <1>6 DEF Reject, Refresh, Fail
  <1>7. ASSUME NEW p \in Package, TrackRow(p)
        PROVE  clock' = clock /\ row' = row /\ log' = log
    BY <1>7 DEF TrackRow
  <1>8. CASE TrackEvents \/ UNCHANGED vars
    BY <1>1, <1>8 DEF TrackEvents, vars
  <1>. QED
    BY <1>1, <1>2, <1>3, <1>4, <1>5, <1>6, <1>7, <1>8 DEF Next

\* Nothing that was committed is ever lost or rewritten.
LEMMA StepGrows ==
    ASSUME IInv, [Next]_vars, NEW p \in Package
    PROVE  /\ log[p] \in Seq(Event) /\ Len(log[p]) \in Nat /\ Len(log'[p]) \in Nat
           /\ Len(log[p]) <= Len(log'[p])
           /\ \A i \in 1 .. Len(log[p]) : i \in 1 .. Len(log'[p]) /\ log'[p][i] = log[p][i]
  <1>1. log \in [Package -> Seq(Event)]
    BY DEF IInv, TypeOK
  <1>2. CASE log' = log
    BY <1>1, <1>2
  <1>3. ASSUME NEW q \in Package, NEW e \in Event, NEW w \in Row, Appends(q, e, w)
        PROVE  /\ Len(log'[p]) \in Nat /\ Len(log[p]) <= Len(log'[p])
               /\ \A i \in 1 .. Len(log[p]) : i \in 1 .. Len(log'[p]) /\ log'[p][i] = log[p][i]
    <2>1. log'[p] = IF p = q THEN Append(log[p], e) ELSE log[p]
      BY <1>1, <1>3 DEF Appends
    <2>. QED
      BY <1>1, <2>1, AppendEvent
  <1>. QED
    BY <1>1, <1>2, <1>3, StoreStep

LEMMA CommittedStamps ==
    ASSUME TypeOK, NEW p \in Package, NEW i \in 1 .. Len(log[p])
    PROVE  log[p][i] \in Event /\ log[p][i].stamp \in Nat
  <1>1. log[p] \in Seq(Event)
    BY DEF TypeOK
  <1>2. log[p][i] \in Event
    BY <1>1
  <1>. QED
    BY <1>2 DEF Event

LEMMA StoreInvStep ==
    ASSUME IInv, [Next]_vars
    PROVE  RowIsLastCommit' /\ StampsPast' /\ Grounded' /\ PickedUpBeforeMoved'
  <1>1. CASE row' = row /\ log' = log
    <2>1. clock \in Nat /\ clock' \in Nat /\ clock <= clock'
      BY StoreStep
    <2>2. \A p \in Package : \A i \in 1 .. Len(log[p]) : log[p][i].stamp \in Nat
      BY CommittedStamps DEF IInv
    <2>3. StampsPast'
      BY <1>1, <2>1, <2>2 DEF IInv, StampsPast
    <2>. QED
      BY <1>1, <2>3 DEF IInv, RowIsLastCommit, Grounded, PickedUpBeforeMoved
  <1>2. ASSUME NEW q \in Package, NEW e \in Event, NEW w \in Row, Appends(q, e, w)
        PROVE  RowIsLastCommit' /\ StampsPast' /\ Grounded' /\ PickedUpBeforeMoved'
    <2>1. \A p \in Package : p # q => log'[p] = log[p] /\ row'[p] = row[p]
      BY <1>2 DEF Appends, IInv, TypeOK
    <2>2. log[q] \in Seq(Event) /\ log'[q] = Append(log[q], e) /\ row'[q] = w
      BY <1>2 DEF Appends, IInv, TypeOK
    <2>. DEFINE n == Len(log[q])
    <2>3. /\ n \in Nat /\ Len(log'[q]) = n + 1 /\ log'[q][n + 1] = e
          /\ \A i \in 1 .. n : log'[q][i] = log[q][i]
      BY <2>2, AppendEvent
    <2>4. RowIsLastCommit'
      <3>1. w # None /\ w.status = e.new
        BY <1>2, SentinelAssumption DEF Appends
      <3>. QED
        BY <2>1, <2>2, <2>3, <3>1 DEF IInv, RowIsLastCommit
    <2>5. StampsPast'
      <3>1. clock \in Nat /\ clock' \in Nat /\ clock <= clock'
        BY StoreStep
      <3>2. \A p \in Package : \A i \in 1 .. Len(log[p]) :
                log[p][i].stamp \in Nat /\ log[p][i].stamp <= clock'
        BY <3>1, CommittedStamps DEF IInv, StampsPast
      <3>3. e.stamp <= clock'
        BY <1>2 DEF Appends
      <3>. QED
        BY <2>1, <2>3, <3>2, <3>3 DEF StampsPast
    <2>6. Grounded'
      <3>. SUFFICES ASSUME NEW p \in Package, NEW i \in 1 .. Len(log'[p])
                    PROVE  IF i = 1
                           THEN log'[p][i].prev = None /\ log'[p][i].new = "PACKAGE_CREATED"
                           ELSE /\ IsValidTransition(log'[p][i].prev, log'[p][i].new)
                                /\ \E j \in 1 .. (i - 1) :
                                      /\ log'[p][j].new = log'[p][i].prev
                                      /\ log'[p][j].stamp < log'[p][i].stamp
        BY DEF Grounded
      <3>1. CASE p # q
        <4>1. log'[p] = log[p]
          BY <2>1, <3>1
        <4>. QED
          BY <4>1 DEF IInv, Grounded
      <3>2. CASE p = q /\ i \in 1 .. n
        <4>1. \A j \in 1 .. (i - 1) : log'[q][j] = log[q][j]
          BY <2>3, <3>2
        <4>2. log'[q][i] = log[q][i]
          BY <2>3, <3>2
        <4>3. IF i = 1 THEN log[q][i].prev = None /\ log[q][i].new = "PACKAGE_CREATED"
              ELSE /\ IsValidTransition(log[q][i].prev, log[q][i].new)
                   /\ \E j \in 1 .. (i - 1) : /\ log[q][j].new = log[q][i].prev
                                              /\ log[q][j].stamp < log[q][i].stamp
          BY <3>2 DEF IInv, Grounded
        <4>. QED
          BY <3>2, <4>1, <4>2, <4>3
      <3>3. CASE p = q /\ i = n + 1
        <4>1. CASE n = 0
          BY <1>2, <2>3, <3>3, <4>1 DEF Appends
        <4>2. CASE n > 0
          BY <1>2, <2>3, <3>3, <4>2 DEF Appends
        <4>. QED
          BY <2>3, <4>1, <4>2
      <3>. QED
        BY <2>3, <3>1, <3>2, <3>3
    <2>7. PickedUpBeforeMoved'
      <3>. SUFFICES ASSUME NEW p \in Package, NEW i \in 1 .. Len(log'[p]),
                           log'[p][i].new \notin BeforePickup
                    PROVE  \E j \in 1 .. i : log'[p][j].new = "PICKED_UP"
        BY DEF PickedUpBeforeMoved
      <3>1. CASE p # q
        <4>1. log'[p] = log[p]
          BY <2>1, <3>1
        <4>. QED
          BY <4>1 DEF IInv, PickedUpBeforeMoved
      <3>2. CASE p = q /\ i \in 1 .. n
        <4>1. \A j \in 1 .. i : log'[q][j] = log[q][j]
          BY <2>3, <3>2
        <4>. QED
          BY <2>3, <3>2, <4>1 DEF IInv, PickedUpBeforeMoved
      <3>3. CASE p = q /\ i = n + 1 /\ e.new = "PICKED_UP"
        BY <2>3, <3>3
      <3>4. CASE p = q /\ i = n + 1 /\ e.new # "PICKED_UP"
        <4>1. e.new \notin BeforePickup
          BY <2>3, <3>4
        <4>2. PICK j \in 1 .. n : log[q][j].new = e.prev /\ IsValidTransition(e.prev, e.new)
          BY <1>2, <4>1 DEF Appends, BeforePickup
        <4>3. e.prev \notin BeforePickup
          BY <3>4, <4>1, <4>2 DEF IsValidTransition, Transitions, BeforePickup
        <4>4. PICK k \in 1 .. j : log[q][k].new = "PICKED_UP"
          BY <4>2, <4>3 DEF IInv, PickedUpBeforeMoved
        <4>5. k \in 1 .. n /\ k \in 1 .. i
          BY <2>3, <3>4
        <4>. QED
          BY <2>3, <3>4, <4>4, <4>5
      <3>. QED
        BY <2>3, <3>1, <3>2, <3>3, <3>4
    <2>. QED
      BY <2>4, <2>5, <2>6, <2>7
  <1>. QED
    BY <1>1, <1>2, StoreStep

\* What a handler knows of the log survives the steps that are not its own.
LEMMA HandlersStep ==
    ASSUME IInv, [Next]_vars
    PROVE  HandlersOK'
  <1>. SUFFICES ASSUME NEW r \in Request
                PROVE  (LoadedOK(r) /\ PendingOK(r) /\ CommittedOK(r) /\ RepliedOK(r))'
    BY DEF HandlersOK
  <1>. DEFINE Mine == <<pc[r], job[r], seen[r], event[r], mine[r], reply[r]>>
  <1>1. LoadedOK(r) /\ PendingOK(r) /\ CommittedOK(r) /\ RepliedOK(r)
    BY DEF IInv, HandlersOK
  <1>2. /\ pc \in [Request -> {"idle", "loaded", "pending", "committed", "replied"}]
        /\ job \in [Request -> Job \cup {None}] /\ seen \in [Request -> Row \cup {None}]
        /\ event \in [Request -> Event \cup {None}] /\ mine \in [Request -> Nat]
        /\ reply \in [Request -> PackageStatus \cup Code \cup {None}]
    BY DEF IInv, TypeOK
  <1>3. ASSUME Mine' = Mine
        PROVE  (LoadedOK(r) /\ PendingOK(r) /\ CommittedOK(r) /\ RepliedOK(r))'
    <2>1. /\ pc'[r] = pc[r] /\ job'[r] = job[r] /\ seen'[r] = seen[r]
          /\ event'[r] = event[r] /\ mine'[r] = mine[r] /\ reply'[r] = reply[r]
      BY <1>3
    <2>2. clock \in Nat /\ clock' \in Nat /\ clock <= clock'
      BY StoreStep
    <2>3. ASSUME job[r] \in Job
          PROVE  /\ Len(log[job[r].pkg]) \in Nat /\ Len(log'[job[r].pkg]) \in Nat
                 /\ Len(log[job[r].pkg]) <= Len(log'[job[r].pkg])
                 /\ \A i \in 1 .. Len(log[job[r].pkg]) :
                        /\ i \in 1 .. Len(log'[job[r].pkg])
                        /\ log'[job[r].pkg][i] = log[job[r].pkg][i]
      <3>1. job[r].pkg \in Package
        BY <2>3 DEF Job
      <3>. QED
        BY <3>1, StepGrows
    <2>4. LoadedOK(r)'
      BY <1>1, <2>1, <2>3 DEF LoadedOK
    <2>5. PendingOK(r)'
      <3>. SUFFICES ASSUME pc[r] = "pending" PROVE PendingOK(r)'
        BY <2>1 DEF PendingOK
      <3>1. /\ job[r] \in Job /\ seen[r] \in Row /\ event[r] \in Event
            /\ IsValidTransition(event[r].prev, event[r].new)
            /\ event[r].prev = seen[r].status /\ event[r].stamp <= clock
        BY <1>1 DEF PendingOK
      <3>2. event[r].stamp \in Nat
        BY <3>1 DEF Event
      <3>3. event[r].stamp <= clock'
        BY <2>2, <3>1, <3>2
      <3>4. PICK j \in 1 .. Len(log[job[r].pkg]) :
                /\ log[job[r].pkg][j].new = event[r].prev
                /\ log[job[r].pkg][j].stamp < event[r].stamp
        BY <1>1 DEF PendingOK
      <3>5. /\ j \in 1 .. Len(log'[job[r].pkg])
            /\ log'[job[r].pkg][j] = log[job[r].pkg][j]
        BY <2>3, <3>1, <3>4
      <3>. QED
        BY <2>1, <3>1, <3>3, <3>4, <3>5 DEF PendingOK
    <2>6. CommittedOK(r)'
      BY <1>1, <2>1, <2>3 DEF CommittedOK
    <2>7. RepliedOK(r)'
      <3>. SUFFICES ASSUME pc[r] = "replied", reply[r] \in PackageStatus
                    PROVE  \E i \in mine[r] .. Len(log'[job[r].pkg]) :
                                log'[job[r].pkg][i].new = reply[r]
        BY <2>1 DEF RepliedOK
      <3>1. job[r] \in Job /\ mine[r] \in 1 .. Len(log[job[r].pkg])
        BY <1>1 DEF CommittedOK
      <3>2. PICK i \in mine[r] .. Len(log[job[r].pkg]) : log[job[r].pkg][i].new = reply[r]
        BY <1>1 DEF RepliedOK
      <3>3. i \in 1 .. Len(log[job[r].pkg]) /\ i \in mine[r] .. Len(log'[job[r].pkg])
        BY <2>3, <3>1
      <3>. QED
        BY <2>3, <3>1, <3>2, <3>3
    <2>. QED
      BY <2>4, <2>5, <2>6, <2>7
  <1>4. ASSUME NEW answer \in Code, Finish(r, answer)
        PROVE  (LoadedOK(r) /\ PendingOK(r) /\ CommittedOK(r) /\ RepliedOK(r))'
    <2>1. pc'[r] = "replied" /\ reply'[r] = answer
      BY <1>2, <1>4 DEF Finish
    <2>2. answer \notin PackageStatus
      BY DEF Code, PackageStatus
    <2>. QED
      BY <2>1, <2>2 DEF LoadedOK, PendingOK, CommittedOK, RepliedOK
  <1>5. ASSUME NEW p \in Package, NEW target \in Target, NEW given \in Given,
               Load(r, p, target, given)
        PROVE  (LoadedOK(r) /\ PendingOK(r) /\ CommittedOK(r) /\ RepliedOK(r))'
    <2>1. CASE row[p] = None
      BY <1>4, <1>5, <2>1 DEF Load, Code
    <2>2. CASE row[p] # None
      <3>1. /\ pc'[r] = "loaded" /\ seen'[r] = row[p] /\ log' = log
            /\ job'[r] = [pkg |-> p, target |-> target, given |-> given]
        BY <1>2, <1>5, <2>2 DEF Load
      <3>2. row[p] \in Row /\ Len(log[p]) # 0 /\ row[p].status = log[p][Len(log[p])].new
        BY <2>2 DEF IInv, TypeOK, RowIsLastCommit
      <3>3. Len(log[p]) \in 1 .. Len(log[p])
        BY <3>2 DEF IInv, TypeOK
      <3>. QED
        BY <3>1, <3>2, <3>3 DEF LoadedOK, PendingOK, CommittedOK, RepliedOK, Job
    <2>. QED
      BY <2>1, <2>2
  <1>6. ASSUME Apply(r)
        PROVE  (LoadedOK(r) /\ PendingOK(r) /\ CommittedOK(r) /\ RepliedOK(r))'
    <2>1. /\ pc'[r] = "pending" /\ log' = log /\ job' = job /\ seen' = seen
          /\ clock' = clock + 1 /\ clock \in Nat
          /\ event'[r] = [prev |-> seen[r].status, new |-> job[r].target,
                          col |-> job[r].given, stamp |-> clock']
      BY <1>2, <1>6 DEF Apply, IInv, TypeOK
    <2>2. /\ job[r] \in Job /\ seen[r] \in Row
          /\ IsValidTransition(seen[r].status, job[r].target)
      BY <1>1, <1>6 DEF Apply, LoadedOK
    <2>3. event'[r] \in Event
      BY <2>1, <2>2, TargetAssumption DEF Event, Row, Job
    <2>4. PICK j \in 1 .. Len(log[job[r].pkg]) : log[job[r].pkg][j].new = seen[r].status
      BY <1>1, <1>6 DEF Apply, LoadedOK
    <2>5. log[job[r].pkg][j].stamp <= clock /\ log[job[r].pkg][j].stamp \in Nat
      BY <2>2, CommittedStamps DEF IInv, StampsPast, Job
    <2>6. log[job[r].pkg][j].stamp < event'[r].stamp /\ event'[r].stamp <= clock'
      BY <2>1, <2>5
    <2>. QED
      BY <2>1, <2>2, <2>3, <2>4, <2>6 DEF LoadedOK, PendingOK, CommittedOK, RepliedOK
  <1>7. ASSUME Commit(r)
        PROVE  (LoadedOK(r) /\ PendingOK(r) /\ CommittedOK(r) /\ RepliedOK(r))'
    <2>. DEFINE p == job[r].pkg
    <2>1. /\ pc'[r] = "committed" /\ job' = job /\ event' = event
          /\ mine'[r] = Len(log[p]) + 1
          /\ p \in Package /\ log[p] \in Seq(Event) /\ event[r] \in Event
          /\ log'[p] = Append(log[p], event[r])
      <3>1. /\ p \in Package /\ log[p] \in Seq(Event) /\ event[r] \in Event
            /\ log' = [log EXCEPT ![p] = Append(log[p], event[r])]
        BY <1>7, CommitFacts
      <3>. QED
        BY <1>2, <1>7, <3>1 DEF Commit, IInv, TypeOK
    <2>2. job[r] \in Job
      BY <1>1, <1>7 DEF PendingOK, Commit
    <2>3. mine'[r] \in 1 .. Len(log'[p]) /\ log'[p][mine'[r]] = event[r]
      BY <2>1, AppendEvent
    <2>. QED
      BY <2>1, <2>2, <2>3 DEF LoadedOK, PendingOK, CommittedOK, RepliedOK
  <1>8. ASSUME Refresh(r)
        PROVE  (LoadedOK(r) /\ PendingOK(r) /\ CommittedOK(r) /\ RepliedOK(r))'
    <2>. DEFINE p == job[r].pkg
    <2>1. /\ pc'[r] = "replied" /\ pc[r] = "committed" /\ reply'[r] = row[p].status
          /\ job' = job /\ event' = event /\ mine' = mine /\ log' = log
      BY <1>2, <1>8 DEF Refresh
    <2>2. /\ job[r] \in Job /\ p \in Package /\ mine[r] \in 1 .. Len(log[p])
          /\ log[p][mine[r]] = event[r]
      BY <1>1, <2>1 DEF CommittedOK, Job
    <2>3. row[p].status = log[p][Len(log[p])].new /\ Len(log[p]) \in mine[r] .. Len(log[p])
      BY <2>2 DEF IInv, RowIsLastCommit, TypeOK
    <2>. QED
      BY <2>1, <2>2, <2>3 DEF LoadedOK, PendingOK, CommittedOK, RepliedOK
  <1>9. ASSUME NEW q \in Request, q # r,
               \/ \E p \in Package, target \in Target, given \in Given :
                    Load(q, p, target, given)
               \/ Apply(q) \/ Reject(q) \/ Commit(q) \/ Refresh(q) \/ Fail(q)
        PROVE  Mine' = Mine
    BY <1>2, <1>9 DEF Load, Apply, Reject, Commit, Refresh, Fail, Finish
  <1>10. ASSUME \/ \E p \in Package, source \in Value : CreatePackage(p, source)
                \/ \E p \in Package : TrackRow(p)
                \/ TrackEvents \/ UNCHANGED vars
         PROVE  Mine' = Mine
    BY <1>10 DEF CreatePackage, TrackRow, TrackEvents, vars
  <1>11. ASSUME Reject(r) \/ Fail(r)
         PROVE  (LoadedOK(r) /\ PendingOK(r) /\ CommittedOK(r) /\ RepliedOK(r))'
    BY <1>4, <1>11 DEF Reject, Fail, Code
  <1>. QED
    BY <1>3, <1>5, <1>6, <1>7, <1>8, <1>9, <1>10, <1>11 DEF Next

LEMMA TrackStep ==
    ASSUME IInv, [Next]_vars
    PROVE  TrackOK'
  <1>1. CASE track' = track
    <2>1. track.pkg # None => track.pkg \in Package
      BY DEF IInv, TypeOK, Track
    <2>. QED
      BY <1>1, <2>1, StepGrows DEF IInv, TrackOK, TrackedStatusInTimeline
  <1>2. ASSUME NEW p \in Package, TrackRow(p) PROVE TrackOK'
    <2>1. /\ track'.pkg = p /\ ~ track'.done /\ track'.status = row[p].status
          /\ row[p] # None /\ log' = log
      BY <1>2 DEF TrackRow
    <2>2. Len(log[p]) # 0 /\ row[p].status = log[p][Len(log[p])].new
      BY <2>1 DEF IInv, RowIsLastCommit
    <2>3. Len(log[p]) \in 1 .. Len(log[p])
      BY <2>2 DEF IInv, TypeOK
    <2>. QED
      BY <2>1, <2>2, <2>3 DEF TrackOK
  <1>3. CASE TrackEvents
    <2>1. /\ track.pkg # None /\ ~ track.done /\ track'.done
          /\ track'.pkg = track.pkg /\ track'.status = track.status
          /\ track'.timeline = { log[track.pkg][i] : i \in 1 .. Len(log[track.pkg]) }
      BY <1>3 DEF TrackEvents, IInv, TypeOK, Track
    <2>2. PICK i \in 1 .. Len(log[track.pkg]) : log[track.pkg][i].new = track.status
      BY <2>1 DEF IInv, TrackOK
    <2>. QED
      BY <2>1, <2>2 DEF TrackOK, TrackedStatusInTimeline
  <1>4. ASSUME \/ \E p \in Package, source \in Value : CreatePackage(p, source)
               \/ \E r \in Request :
                    \/ \E p \in Package, target \in Target, given \in Given :
                            Load(r, p, target, given)
                    \/ Apply(r) \/ Reject(r) \/ Commit(r) \/ Refresh(r) \/ Fail(r)
               \/ UNCHANGED vars
        PROVE  track' = track
    BY <1>4 DEF CreatePackage, Load, Apply, Reject, Commit, Refresh, Fail, vars
  <1>. QED
    BY <1>1, <1>2, <1>3, <1>4 DEF Next

LEMMA StepIInv == IInv /\ [Next]_vars => IInv'
  BY TypeStep, StoreInvStep, HandlersStep, TrackStep DEF IInv

LEMMA InvariantHolds == Spec => []IInv
  BY InitIInv, StepIInv, PTL DEF Spec

-----------------------------------------------------------------------------
(***************************************************************************)
(* The safety properties, for any number of parcels and of handlers.       *)
(***************************************************************************)
\* The tables, the handlers of packages.py and the reader of tracking.py hold
\* only values of their types.
THEOREM TypeCorrect == Spec => []TypeOK
  BY InvariantHolds, PTL DEF IInv

\* Every committed event continues an earlier and older event of its parcel by
\* a move of the table, however transition_status calls interleave.
THEOREM AlwaysGrounded == Spec => []Grounded
  BY InvariantHolds, PTL DEF IInv

\* No parcel is recorded past the merchant without a PICKED_UP event before.
THEOREM NeverMovedBeforePickup == Spec => []PickedUpBeforeMoved
  BY InvariantHolds, PTL DEF IInv

\* The row a successful PATCH sends back is never older than its own commit.
THEOREM RepliesAreFresh == Spec => []ReadYourWrites
  <1>1. HandlersOK => ReadYourWrites
    BY DEF HandlersOK, CommittedOK, RepliedOK, ReadYourWrites
  <1>. QED
    BY <1>1, InvariantHolds, PTL DEF IInv

\* The status in a GET /tracking reply is in the timeline of that reply.
THEOREM TrackingIsCoherent == Spec => []TrackedStatusInTimeline
  <1>1. TrackOK => TrackedStatusInTimeline
    BY DEF TrackOK, TrackedStatusInTimeline
  <1>. QED
    BY <1>1, InvariantHolds, PTL DEF IInv

-----------------------------------------------------------------------------
(***************************************************************************)
(* When requests do not overlap, the store implements ParcelJourney.  The  *)
(* invariant that carries it: what the one handler loaded is still the     *)
(* status of the row when it commits.                                      *)
(***************************************************************************)
OneAtATime == \A r, s \in Request : r = s

SeenIsCurrent ==
    \A r \in Request : pc[r] \in {"loaded", "pending"} =>
        /\ job[r] \in Job
        /\ row[job[r].pkg] # None
        /\ row[job[r].pkg] = seen[r]

LEMMA SeenIsCurrentStep ==
    ASSUME OneAtATime, IInv, SeenIsCurrent, [Next]_vars
    PROVE  SeenIsCurrent'
  <1>. SUFFICES ASSUME NEW r \in Request, pc'[r] \in {"loaded", "pending"}
                PROVE  /\ job'[r] \in Job
                       /\ row'[job'[r].pkg] # None
                       /\ row'[job'[r].pkg] = seen'[r]
    BY DEF SeenIsCurrent
  <1>1. /\ pc \in [Request -> {"idle", "loaded", "pending", "committed", "replied"}]
        /\ job \in [Request -> Job \cup {None}] /\ seen \in [Request -> Row \cup {None}]
        /\ row \in [Package -> Row \cup {None}]
    BY DEF IInv, TypeOK
  <1>2. ASSUME NEW p \in Package, NEW target \in Target, NEW given \in Given,
               NEW q \in Request, Load(q, p, target, given)
        PROVE  /\ job'[r] \in Job
               /\ row'[job'[r].pkg] # None
               /\ row'[job'[r].pkg] = seen'[r]
    <2>1. q = r
      BY DEF OneAtATime
    <2>2. CASE row[p] = None
      <3>1. pc'[r] = "replied"
        BY <1>1, <1>2, <2>1, <2>2 DEF Load, Finish
      <3>. QED
        BY <3>1
    <2>3. CASE row[p] # None
      BY <1>1, <1>2, <2>1, <2>3 DEF Load, Job
    <2>. QED
      BY <2>2, <2>3
  <1>3. ASSUME NEW q \in Request, Apply(q)
        PROVE  /\ job'[r] \in Job
               /\ row'[job'[r].pkg] # None
               /\ row'[job'[r].pkg] = seen'[r]
    <2>1. q = r
      BY DEF OneAtATime
    <2>. QED
      BY <1>1, <1>3, <2>1 DEF Apply, SeenIsCurrent
  <1>4. ASSUME NEW q \in Request, Reject(q) \/ Commit(q) \/ Refresh(q) \/ Fail(q)
        PROVE  FALSE
    <2>1. q = r
      BY DEF OneAtATime
    <2>. QED
      BY <1>1, <1>4, <2>1 DEF Reject, Commit, Refresh, Fail, Finish
  <1>5. ASSUME NEW p \in Package, NEW source \in Value, CreatePackage(p, source)
        PROVE  /\ job'[r] \in Job
               /\ row'[job'[r].pkg] # None
               /\ row'[job'[r].pkg] = seen'[r]
    <2>1. /\ job' = job /\ seen' = seen /\ pc' = pc /\ row[p] = None
          /\ \A q \in Package : q # p => row'[q] = row[q]
      BY <1>1, <1>5 DEF CreatePackage
    <2>2. job[r] \in Job /\ job[r].pkg \in Package /\ job[r].pkg # p
      BY <2>1 DEF SeenIsCurrent, Job
    <2>. QED
      BY <2>1, <2>2 DEF SeenIsCurrent
  <1>6. ASSUME (\E p \in Package : TrackRow(p)) \/ TrackEvents \/ UNCHANGED vars
        PROVE  /\ job'[r] \in Job
               /\ row'[job'[r].pkg] # None
               /\ row'[job'[r].pkg] = seen'[r]
    BY <1>6 DEF TrackRow, TrackEvents, vars, SeenIsCurrent
  <1>. QED
    BY <1>2, <1>3, <1>4, <1>5, <1>6 DEF Next

StatusBar == [p \in Package |-> StatusOf(row[p])]
JourneyBar == [p \in Package |-> [i \in 1 .. Len(log[p]) |-> log[p][i].new]]

LEMMA JourneyInit == Init => Journey!Init
  <1>. SUFFICES ASSUME Init PROVE Journey!Init
    OBVIOUS
  <1>1. PICK path \in [Package -> SeedPath], assigned \in [Package -> Given] :
            /\ row = [p \in Package |-> SeedRow(p, path[p], assigned[p])]
            /\ log = [p \in Package |-> SeedLog(p, path[p], assigned[p])]
    BY DEF Init
  <1>2. ASSUME NEW p \in Package
        PROVE  JourneyBar[p] = path[p]
    <2>1. /\ path[p] \in SeedPath /\ path[p] \in Seq(PackageStatus) /\ assigned[p] \in Given
          /\ log[p] = SeedLog(p, path[p], assigned[p])
      BY <1>1, SeedPathAssumption
    <2>2. JourneyBar[p] = [i \in 1 .. Len(path[p]) |-> path[p][i]]
      BY <2>1, SeedLogType DEF JourneyBar
    <2>. QED
      BY <2>1, <2>2
  <1>3. JourneyBar = path
    BY <1>2 DEF JourneyBar
  <1>4. ASSUME NEW p \in Package
        PROVE  StatusBar[p] = IF path[p] = <<>> THEN None ELSE path[p][Len(path[p])]
    <2>1. CASE path[p] = <<>>
      BY <1>1, <2>1 DEF StatusBar, StatusOf, SeedRow
    <2>2. CASE path[p] # <<>>
      <3>1. row[p] = SeedRow(p, path[p], assigned[p])
        BY <1>1
      <3>2. row[p] # None /\ row[p].status = path[p][Len(path[p])]
        BY <2>2, <3>1, SeedRowType
      <3>. QED
        BY <2>2, <3>2 DEF StatusBar, StatusOf
    <2>. QED
      BY <2>1, <2>2
  <1>5. StatusBar = [p \in Package |-> IF path[p] = <<>> THEN None ELSE path[p][Len(path[p])]]
    BY <1>4 DEF StatusBar
  <1>6. path \in [Package -> SeedPath]
    BY <1>1
  <1>7. /\ JourneyBar \in [Package -> SeedPath]
        /\ StatusBar = [p \in Package |-> IF JourneyBar[p] = <<>> THEN None
                                         ELSE JourneyBar[p][Len(JourneyBar[p])]]
    BY <1>3, <1>5, <1>6
  <1>. QED
    BY <1>7 DEF Journey!Init, JourneyBar, StatusBar

\* Appending an event appends its status to the journey and changes one status.
LEMMA JourneyAppends ==
    ASSUME IInv, NEW p \in Package, NEW e \in Event, NEW w \in Row, Appends(p, e, w)
    PROVE  /\ StatusBar' = [StatusBar EXCEPT ![p] = e.new]
           /\ JourneyBar' = [JourneyBar EXCEPT ![p] = Append(@, e.new)]
  <1>1. /\ row \in [Package -> Row \cup {None}] /\ log \in [Package -> Seq(Event)]
        /\ row' = [row EXCEPT ![p] = w] /\ log' = [log EXCEPT ![p] = Append(log[p], e)]
        /\ w.status = e.new /\ w # None
    BY SentinelAssumption DEF IInv, TypeOK, Appends
  <1>2. StatusBar' = [StatusBar EXCEPT ![p] = e.new]
    BY <1>1 DEF StatusBar, StatusOf
  <1>3. ASSUME NEW q \in Package, q # p PROVE JourneyBar'[q] = JourneyBar[q]
    BY <1>1, <1>3 DEF JourneyBar
  <1>4. JourneyBar'[p] = Append(JourneyBar[p], e.new)
    <2>. DEFINE n == Len(log[p])
                old == [i \in 1 .. n |-> log[p][i].new]
                new == [i \in 1 .. (n + 1) |-> Append(log[p], e)[i].new]
    <2>1. n \in Nat /\ Len(Append(log[p], e)) = n + 1
          /\ \A i \in 1 .. n : Append(log[p], e)[i] = log[p][i] /\ log[p][i] \in Event
          /\ Append(log[p], e)[n + 1] = e
      BY <1>1, AppendEvent
    <2>2. JourneyBar[p] = old /\ JourneyBar'[p] = new
      BY <1>1, <2>1 DEF JourneyBar
    <2>3. old \in Seq(PackageStatus) /\ Len(old) = n /\ e.new \in PackageStatus
      BY <2>1 DEF Event
    <2>4. new \in Seq(PackageStatus) /\ Len(new) = n + 1
      BY <2>1, <2>3 DEF Event
    <2>5. \A i \in 1 .. (n + 1) : new[i] = Append(old, e.new)[i]
      BY <2>1, <2>3
    <2>. HIDE DEF n, old, new
    <2>6. new = Append(old, e.new)
      BY <2>1, <2>3, <2>4, <2>5
    <2>. QED
      BY <2>2, <2>6
  <1>. QED
    BY <1>2, <1>3, <1>4 DEF JourneyBar

\* Only create_package and the commit of a PATCH write the tables.
LEMMA QuietStep ==
    ASSUME [Next]_vars,
           ~ \E p \in Package, source \in Value : CreatePackage(p, source),
           ~ \E r \in Request : Commit(r)
    PROVE  row' = row /\ log' = log
  <1>1. ASSUME NEW r \in Request, NEW p \in Package, NEW target \in Target, NEW given \in Given,
               Load(r, p, target, given)
        PROVE  row' = row /\ log' = log
    BY <1>1 DEF Load
  <1>2. ASSUME NEW r \in Request, Apply(r) \/ Reject(r) \/ Refresh(r) \/ Fail(r)
        PROVE  row' = row /\ log' = log
    BY <1>2 DEF Apply, Reject, Refresh, Fail
  <1>3. ASSUME (\E p \in Package : TrackRow(p)) \/ TrackEvents \/ UNCHANGED vars
        PROVE  row' = row /\ log' = log
    BY <1>3 DEF TrackRow, TrackEvents, vars
  <1>. QED
    BY <1>1, <1>2, <1>3 DEF Next

LEMMA JourneyStep ==
    ASSUME IInv, SeenIsCurrent, [Next]_vars
    PROVE  [Journey!Next]_(Journey!vars)
  <1>1. ASSUME NEW p \in Package, NEW source \in Value, CreatePackage(p, source)
        PROVE  Journey!Next
    <2>. DEFINE e == CreationEvent(source, clock')
                w == [status |-> "PACKAGE_CREATED", col |-> NothingGiven, delivered |-> FALSE]
    <2>1. e \in Event /\ w \in Row /\ row[p] = None /\ Appends(p, e, w)
          /\ e.new = "PACKAGE_CREATED"
      <3>1. /\ e \in Event /\ w \in Row /\ row[p] = None /\ Len(log[p]) = 0
            /\ clock' \in Nat
            /\ row' = [row EXCEPT ![p] = w] /\ log' = [log EXCEPT ![p] = Append(log[p], e)]
        BY <1>1, CreateFacts
      <3>. QED
        BY <3>1 DEF Appends, CreationEvent
    <2>2. /\ StatusBar' = [StatusBar EXCEPT ![p] = "PACKAGE_CREATED"]
          /\ JourneyBar' = [JourneyBar EXCEPT ![p] = Append(@, "PACKAGE_CREATED")]
          /\ StatusBar[p] = None
      BY <2>1, JourneyAppends DEF StatusBar, StatusOf
    <2>3. Journey!Create(p)
      BY <2>2 DEF Journey!Create, StatusBar, JourneyBar
    <2>. QED
      BY <2>3 DEF Journey!Next
  <1>2. ASSUME NEW r \in Request, Commit(r)
        PROVE  Journey!Next
    <2>. DEFINE p == job[r].pkg
                e == event[r]
                w == Written(row[p], seen[r], e)
    <2>1. /\ p \in Package /\ e \in Event /\ row[p] \in Row /\ w \in Row
          /\ Appends(p, e, w) /\ IsValidTransition(e.prev, e.new)
          /\ e.prev = seen[r].status /\ row[p].status = seen[r].status
      <3>1. /\ p \in Package /\ e \in Event /\ row[p] \in Row /\ Len(log[p]) > 0
            /\ row' = [row EXCEPT ![p] = w] /\ log' = [log EXCEPT ![p] = Append(log[p], e)]
        BY <1>2, CommitFacts
      <3>2. w \in Row /\ w.status = e.new
        BY <3>1, WrittenType
      <3>3. PendingOK(r) /\ pc[r] = "pending" /\ clock' = clock
        BY <1>2 DEF Commit, IInv, HandlersOK
      <3>4. row[p].status = seen[r].status
        BY <3>3 DEF SeenIsCurrent
      <3>5. Appends(p, e, w)
        BY <3>1, <3>2, <3>3 DEF Appends, PendingOK
      <3>. QED
        BY <3>1, <3>2, <3>3, <3>4, <3>5 DEF PendingOK
    <2>2. /\ StatusBar' = [StatusBar EXCEPT ![p] = e.new]
          /\ JourneyBar' = [JourneyBar EXCEPT ![p] = Append(@, e.new)]
          /\ StatusBar[p] = e.prev /\ e.new \in PackageStatus
      BY <2>1, JourneyAppends, SentinelAssumption DEF StatusBar, StatusOf, Event
    <2>3. Journey!IsValidTransition(StatusBar[p], e.new)
      BY <2>1, <2>2
         DEF IsValidTransition, Transitions, Journey!IsValidTransition, Journey!Transitions
    <2>4. PICK q \in Package, target \in PackageStatus : q = p /\ target = e.new
      BY <2>1, <2>2
    <2>. HIDE DEF p, e, w
    <2>5. Journey!Move(q, target)
      BY <2>2, <2>3, <2>4 DEF Journey!Move, StatusBar, JourneyBar
    <2>6. target \in Journey!PackageStatus
      BY DEF PackageStatus, Journey!PackageStatus
    <2>. QED
      BY <2>5, <2>6 DEF Journey!Next
  <1>3. CASE row' = row /\ log' = log
    BY <1>3 DEF Journey!vars
  <1>4. CASE ~ (\E p \in Package, source \in Value : CreatePackage(p, source))
             /\ ~ (\E r \in Request : Commit(r))
    BY <1>3, <1>4, QuietStep
  <1>. QED
    BY <1>1, <1>2, <1>4

\* With at most one request handler at a time the store keeps the promise of
\* ParcelJourney; the runs show that with two it does not.
THEOREM SerialStoreImplementsJourney ==
    ASSUME OneAtATime
    PROVE  Spec => ImplementsJourney
  <1>1. Init => SeenIsCurrent
    BY DEF Init, SeenIsCurrent
  <1>2. IInv /\ SeenIsCurrent /\ [Next]_vars => SeenIsCurrent'
    BY SeenIsCurrentStep
  <1>3. Init => Journey!Init
    BY JourneyInit
  <1>4. IInv /\ SeenIsCurrent /\ [Next]_vars => [Journey!Next]_(Journey!vars)
    BY JourneyStep
  <1>. QED
    BY <1>1, <1>2, <1>3, <1>4, InvariantHolds, PTL
       DEF Spec, ImplementsJourney, Journey!Spec

-----------------------------------------------------------------------------
(***************************************************************************)
(* When requests do not overlap, the row follows the log.  Each part of    *)
(* RowFollowsLog is a fact about one parcel, which a commit to another     *)
(* leaves alone; an event is stamped after its handler's load, and nothing *)
(* is added to its parcel's log between the load and the commit.           *)
(***************************************************************************)
\* An event of a PATCH that gives column c a value.
Gives(e, c) == e.stamp > SeedTime /\ e.prev # None /\ e.col[c] # None

\* The column of parcel p is what the last event to give it one says, and what it
\* was initially before any did.
ColumnKept(p, c) ==
    \/ /\ \A i \in 1 .. Len(log[p]) : ~ Gives(log[p][i], c)
       /\ row[p] # None => row[p].col[c] = InitialColumn(p, c)
    \/ \E i \in 1 .. Len(log[p]) :
          /\ Gives(log[p][i], c)
          /\ \A j \in 1 .. Len(log[p]) : Gives(log[p][j], c) => j <= i
          /\ row[p].col[c] = log[p][i].col[c]

LastIsLatest(p) ==
    \A j \in 1 .. Len(log[p]) : log[p][j].stamp <= log[p][Len(log[p])].stamp

\* The seeded events come first.
SeedsFirst(p) == \E k \in 0 .. Len(log[p]) : Seeded(p) = 1 .. k

RowMatches(p) ==
    /\ SeedsFirst(p)
    /\ row[p] # None => (row[p].delivered <=> row[p].status = "DELIVERED")
    /\ \A c \in Column : ColumnKept(p, c)
    /\ LastIsLatest(p)

\* The event about to be inserted is stamped after those of its parcel's log.
PendingIsLatest ==
    \A r \in Request : pc[r] = "pending" =>
        \A j \in 1 .. Len(log[job[r].pkg]) : log[job[r].pkg][j].stamp <= event[r].stamp

\* Nothing the API stamps is as old as a seeded event.
PastSeeds ==
    /\ SeedTime <= clock
    /\ \A r \in Request : pc[r] = "pending" => SeedTime < event[r].stamp

SerialInv ==
    /\ SeenIsCurrent /\ PendingIsLatest /\ PastSeeds
    /\ \A p \in Package : RowMatches(p)

LEMMA InitSerial == Init => SerialInv
  <1>. SUFFICES ASSUME Init PROVE SerialInv
    OBVIOUS
  <1>1. PICK path \in [Package -> SeedPath], assigned \in [Package -> Given] :
            /\ row = [p \in Package |-> SeedRow(p, path[p], assigned[p])]
            /\ log = [p \in Package |-> SeedLog(p, path[p], assigned[p])]
    BY DEF Init
  <1>2. ASSUME NEW p \in Package
        PROVE  RowMatches(p)
    <2>. DEFINE n == Len(path[p])
    <2>1. /\ path[p] \in SeedPath /\ assigned[p] \in Given /\ n <= SeedTime
          /\ row[p] = SeedRow(p, path[p], assigned[p])
          /\ log[p] = SeedLog(p, path[p], assigned[p])
      BY <1>1, ClockAssumption
    <2>2. /\ Len(log[p]) = n /\ n \in Nat
          /\ \A i \in 1 .. n : log[p][i].stamp = i /\ log[p][i].new = path[p][i]
          /\ \A i \in 1 .. n, c \in Column : c # "node" => log[p][i].col[c] = assigned[p][c]
      BY <2>1, SeedLogType
    <2>3. Seeded(p) = 1 .. n
      BY <2>1, <2>2, ClockAssumption DEF Seeded
    <2>4. SeedsFirst(p)
      BY <2>2, <2>3 DEF SeedsFirst
    <2>5. LastIsLatest(p)
      BY <2>2 DEF LastIsLatest
    <2>6. CASE path[p] = <<>>
      <3>1. row[p] = None
        BY <2>1, <2>6 DEF SeedRow
      <3>. QED
        BY <2>2, <2>4, <2>5, <2>6, <3>1 DEF RowMatches, ColumnKept
    <2>7. CASE path[p] # <<>>
      <3>. DEFINE last == path[p][n]
      <3>1. /\ n > 0 /\ row[p].status = last
            /\ row[p].delivered <=> last = "DELIVERED"
            /\ \A c \in Column : row[p].col[c] =
                    IF c = "node" THEN LocatePackage(last, Place[p]) ELSE assigned[p][c]
        BY <2>1, <2>2, <2>7, SeedRowType
      <3>2. LastSeeded(p) = n
        BY <2>2, <2>3, <3>1 DEF LastSeeded
      <3>3. log[p][n].new = last /\ 1 \in 1 .. n /\ Seeded(p) # {}
        BY <2>2, <2>3, <3>1
      <3>4. ASSUME NEW c \in Column
            PROVE  row[p].col[c] = InitialColumn(p, c)
        <4>1. InitialColumn(p, c) = IF c # "node" THEN log[p][1].col[c]
                                    ELSE LocatePackage(log[p][n].new, Place[p])
          BY <3>2, <3>3 DEF InitialColumn
        <4>2. c # "node" => log[p][1].col[c] = assigned[p][c]
          BY <2>2, <3>3
        <4>. HIDE DEF n, last
        <4>. QED
          BY <3>1, <3>3, <4>1, <4>2
      <3>5. \A c \in Column, i \in 1 .. n : ~ Gives(log[p][i], c)
        BY <2>1, <2>2, ClockAssumption DEF Gives
      <3>. QED
        BY <2>2, <2>4, <2>5, <3>1, <3>4, <3>5 DEF RowMatches, ColumnKept
    <2>. QED
      BY <2>6, <2>7
  <1>3. SeenIsCurrent /\ PendingIsLatest /\ PastSeeds
    BY ClockAssumption DEF Init, SeenIsCurrent, PendingIsLatest, PastSeeds
  <1>. QED
    BY <1>2, <1>3 DEF SerialInv

\* An event that is the latest of its parcel, written with the row it leads to,
\* keeps the row with the log.
LEMMA AppendMatches ==
    ASSUME IInv, NEW p \in Package, NEW e \in Event, NEW w \in Row, Appends(p, e, w),
           RowMatches(p),
           w.delivered <=> w.status = "DELIVERED",
           SeedTime < e.stamp,
           \A c \in Column : w.col[c] = IF Gives(e, c) THEN e.col[c]
                                        ELSE IF Len(log[p]) = 0 THEN None
                                        ELSE row[p].col[c],
           \A j \in 1 .. Len(log[p]) : log[p][j].stamp <= e.stamp
    PROVE  \A q \in Package : RowMatches(q) => RowMatches(q)'
  <1>. DEFINE n == Len(log[p])
  <1>1. /\ log[p] \in Seq(Event) /\ log'[p] = Append(log[p], e) /\ row'[p] = w
        /\ \A q \in Package : q # p => log'[q] = log[q] /\ row'[q] = row[q]
    BY DEF Appends, IInv, TypeOK
  <1>2. /\ n \in Nat /\ Len(log'[p]) = n + 1 /\ log'[p][n + 1] = e
        /\ \A i \in 1 .. n : log'[p][i] = log[p][i]
    BY <1>1, AppendEvent
  <1>7. Seeded(p)' = Seeded(p) /\ SeedTime \in Nat
    <2>1. SeedTime \in Nat /\ e.stamp \in Nat /\ ~ (e.stamp <= SeedTime)
      BY ClockAssumption DEF Event
    <2>. QED
      BY <1>2, <2>1 DEF Seeded
  <1>8. SeedsFirst(p)'
    BY <1>2, <1>7 DEF SeedsFirst, RowMatches
  <1>9. ASSUME NEW c \in Column, n > 0
        PROVE  InitialColumn(p, c)' = InitialColumn(p, c)
    <2>1. PICK k \in 0 .. n : Seeded(p) = 1 .. k
      BY DEF RowMatches, SeedsFirst
    <2>2. CASE k = 0
      <3>1. Seeded(p) = {}
        BY <2>1, <2>2
      <3>. QED
        BY <1>7, <3>1 DEF InitialColumn
    <2>3. CASE k # 0
      <3>1. LastSeeded(p) = k
        BY <1>2, <2>1, <2>3 DEF LastSeeded
      <3>2. log'[p][k] = log[p][k] /\ log'[p][1] = log[p][1]
        BY <1>2, <1>9, <2>1, <2>3
      <3>3. LastSeeded(p)' = k
        BY <1>2, <1>7, <2>1, <2>3 DEF LastSeeded
      <3>4. InitialColumn(p, c) = IF Seeded(p) = {} THEN None
                                  ELSE IF c # "node" THEN log[p][1].col[c]
                                  ELSE LocatePackage(log[p][k].new, Place[p])
        BY <3>1 DEF InitialColumn
      <3>5. InitialColumn(p, c)' = IF Seeded(p)' = {} THEN None
                                   ELSE IF c # "node" THEN log'[p][1].col[c]
                                   ELSE LocatePackage(log'[p][k].new, Place[p])
        BY <3>3 DEF InitialColumn
      <3>. QED
        BY <1>7, <3>2, <3>4, <3>5
    <2>. QED
      BY <2>2, <2>3
  <1>10. ASSUME NEW c \in Column, n = 0
         PROVE  InitialColumn(p, c)' = None
    BY <1>2, <1>7, <1>10 DEF InitialColumn, Seeded
  <1>3. ASSUME NEW c \in Column
        PROVE  ColumnKept(p, c)'
    <2>1. CASE Gives(e, c)
      <3>1. \A j \in 1 .. Len(log'[p]) : j <= n + 1
        BY <1>2
      <3>2. n + 1 \in 1 .. Len(log'[p]) /\ row'[p].col[c] = log'[p][n + 1].col[c]
        BY <1>1, <1>2, <2>1
      <3>. QED
        BY <1>2, <2>1, <3>1, <3>2 DEF ColumnKept
    <2>2. CASE ~ Gives(e, c)
      <3>1. \A i \in 1 .. Len(log'[p]) : Gives(log'[p][i], c) =>
                i \in 1 .. n /\ Gives(log[p][i], c)
        <4>. SUFFICES ASSUME NEW i \in 1 .. Len(log'[p]), Gives(log'[p][i], c)
                      PROVE  i \in 1 .. n /\ Gives(log[p][i], c)
          OBVIOUS
        <4>1. i # n + 1
          BY <1>2, <2>2
        <4>2. i \in 1 .. n
          BY <1>2, <4>1
        <4>. QED
          BY <1>2, <4>2
      <3>2. CASE /\ \A i \in 1 .. n : ~ Gives(log[p][i], c)
                 /\ row[p] # None => row[p].col[c] = InitialColumn(p, c)
        <4>1. CASE n = 0
          BY <1>1, <1>10, <2>2, <3>1, <3>2, <4>1 DEF ColumnKept
        <4>2. CASE n > 0
          <5>1. row[p] # None
            BY <4>2 DEF IInv, RowIsLastCommit
          <5>2. row'[p].col[c] = InitialColumn(p, c)'
            BY <1>1, <1>9, <2>2, <3>2, <4>2, <5>1
          <5>. QED
            BY <3>1, <3>2, <5>2 DEF ColumnKept
        <4>. QED
          BY <1>2, <4>1, <4>2
      <3>3. ASSUME NEW i \in 1 .. n,
                   Gives(log[p][i], c),
                   \A j \in 1 .. n : Gives(log[p][j], c) => j <= i,
                   row[p].col[c] = log[p][i].col[c]
            PROVE  ColumnKept(p, c)'
        <4>1. i \in 1 .. Len(log'[p]) /\ log'[p][i] = log[p][i] /\ n > 0
          BY <1>2, <3>3
        <4>2. row'[p].col[c] = log'[p][i].col[c]
          BY <1>1, <2>2, <3>3, <4>1
        <4>3. \A j \in 1 .. Len(log'[p]) : Gives(log'[p][j], c) => j <= i
          BY <3>1, <3>3
        <4>4. Gives(log'[p][i], c)
          BY <3>3, <4>1
        <4>. QED
          BY <4>1, <4>2, <4>3, <4>4 DEF ColumnKept
      <3>4. ColumnKept(p, c)
        BY DEF RowMatches
      <3>. QED
        BY <3>2, <3>3, <3>4 DEF ColumnKept
    <2>. QED
      BY <2>1, <2>2
  <1>4. LastIsLatest(p)'
    <2>. SUFFICES ASSUME NEW j \in 1 .. Len(log'[p])
                  PROVE  log'[p][j].stamp <= e.stamp
      BY <1>2 DEF LastIsLatest
    <2>1. e.stamp <= e.stamp
      BY DEF Event
    <2>2. j \in 1 .. n \/ j = n + 1
      BY <1>2
    <2>. QED
      BY <1>2, <2>1, <2>2
  <1>5. RowMatches(p)'
    BY <1>1, <1>3, <1>4, <1>8 DEF RowMatches
  <1>6. ASSUME NEW q \in Package, q # p, RowMatches(q)
        PROVE  RowMatches(q)'
    <2>1. log'[q] = log[q] /\ row'[q] = row[q]
      BY <1>1, <1>6
    <2>2. Seeded(q)' = Seeded(q) /\ \A c \in Column : InitialColumn(q, c)' = InitialColumn(q, c)
      BY <2>1 DEF Seeded, LastSeeded, InitialColumn
    <2>3. \A c \in Column : ColumnKept(q, c)'
      BY <1>6, <2>1, <2>2 DEF RowMatches, ColumnKept
    <2>. QED
      BY <1>6, <2>1, <2>2, <2>3 DEF RowMatches, LastIsLatest, SeedsFirst
  <1>. QED
    BY <1>5, <1>6

LEMMA CreateMatches ==
    ASSUME IInv, PastSeeds, \A p \in Package : RowMatches(p),
           NEW p \in Package, NEW source \in Value, CreatePackage(p, source)
    PROVE  \A q \in Package : RowMatches(q)'
  <1>. DEFINE e == CreationEvent(source, clock')
              w == [status |-> "PACKAGE_CREATED", col |-> NothingGiven, delivered |-> FALSE]
  <1>1. /\ e \in Event /\ w \in Row /\ Len(log[p]) = 0 /\ clock' \in Nat
        /\ row' = [row EXCEPT ![p] = w] /\ log' = [log EXCEPT ![p] = Append(log[p], e)]
        /\ clock' = clock + 1
    BY CreateFacts
  <1>2. e.prev = None /\ e.new = "PACKAGE_CREATED" /\ e.stamp = clock'
    BY DEF CreationEvent
  <1>7. SeedTime < e.stamp
    BY <1>1, <1>2, ClockAssumption DEF PastSeeds, IInv, TypeOK
  <1>3. w.status = "PACKAGE_CREATED" /\ w.delivered = FALSE
    OBVIOUS
  <1>4. Appends(p, e, w)
    BY <1>1, <1>2, <1>3 DEF Appends
  <1>5. \A c \in Column : ~ Gives(e, c)
    BY <1>2 DEF Gives
  <1>6. w.delivered <=> w.status = "DELIVERED"
    BY <1>3
  <1>8. \A c \in Column : w.col[c] = None
    BY DEF NothingGiven
  <1>. HIDE DEF e, w
  <1>. QED
    BY <1>1, <1>4, <1>5, <1>6, <1>7, <1>8, AppendMatches

LEMMA CommitMatches ==
    ASSUME IInv, SerialInv, NEW r \in Request, Commit(r)
    PROVE  \A q \in Package : RowMatches(q)'
  <1>. DEFINE p == job[r].pkg
              e == event[r]
              w == Written(row[p], seen[r], e)
  <1>1. /\ p \in Package /\ e \in Event /\ row[p] \in Row /\ Len(log[p]) > 0
        /\ row' = [row EXCEPT ![p] = w] /\ log' = [log EXCEPT ![p] = Append(log[p], e)]
    BY CommitFacts
  <1>2. w \in Row /\ w.status = e.new
    BY <1>1, WrittenType
  <1>3. PendingOK(r) /\ pc[r] = "pending" /\ clock' = clock
    BY DEF Commit, IInv, HandlersOK
  <1>4. seen[r] = row[p]
    BY <1>3 DEF SerialInv, SeenIsCurrent
  <1>5. Appends(p, e, w)
    BY <1>1, <1>2, <1>3 DEF Appends, PendingOK
  <1>6. w.delivered <=> w.status = "DELIVERED"
    <2>1. row[p].status # "DELIVERED"
      BY <1>3, <1>4 DEF PendingOK, IsValidTransition, Transitions
    <2>2. row[p].delivered = FALSE
      <3>1. row[p].delivered <=> row[p].status = "DELIVERED"
        BY <1>1, SentinelAssumption DEF SerialInv, RowMatches
      <3>2. row[p].delivered \in BOOLEAN
        BY <1>1 DEF Row
      <3>. QED
        BY <2>1, <3>1, <3>2
    <2>3. w.delivered = (row[p].delivered \/ e.new = "DELIVERED")
      BY DEF Written
    <2>. QED
      BY <1>2, <2>2, <2>3
  <1>10. SeedTime < e.stamp
    BY <1>3 DEF SerialInv, PastSeeds
  <1>7. ASSUME NEW c \in Column
        PROVE  w.col[c] = IF Gives(e, c) THEN e.col[c] ELSE row[p].col[c]
    <2>1. w.col[c] = IF e.col[c] # None /\ e.col[c] # row[p].col[c] THEN e.col[c]
                     ELSE row[p].col[c]
      BY <1>4 DEF Written
    <2>2. e.prev # None
      BY <1>1, <1>3, <1>4, SentinelAssumption DEF PendingOK, Row
    <2>. QED
      BY <1>10, <2>1, <2>2 DEF Gives
  <1>8. \A j \in 1 .. Len(log[p]) : log[p][j].stamp <= e.stamp
    BY <1>3 DEF SerialInv, PendingIsLatest
  <1>9. \A q \in Package : RowMatches(q)
    BY DEF SerialInv
  <1>. HIDE DEF p, e, w
  <1>. QED
    BY <1>1, <1>2, <1>5, <1>6, <1>7, <1>8, <1>9, <1>10, AppendMatches

LEMMA PendingIsLatestStep ==
    ASSUME OneAtATime, IInv, SerialInv, [Next]_vars
    PROVE  PendingIsLatest'
  <1>. SUFFICES ASSUME NEW r \in Request, pc'[r] = "pending"
                PROVE  \A j \in 1 .. Len(log'[job'[r].pkg]) :
                          log'[job'[r].pkg][j].stamp <= event'[r].stamp
    BY DEF PendingIsLatest
  <1>1. /\ pc \in [Request -> {"idle", "loaded", "pending", "committed", "replied"}]
        /\ job \in [Request -> Job \cup {None}] /\ event \in [Request -> Event \cup {None}]
        /\ row \in [Package -> Row \cup {None}] /\ log \in [Package -> Seq(Event)]
        /\ clock \in Nat
    BY DEF IInv, TypeOK
  <1>2. CASE pc[r] = "pending" /\ job'[r] = job[r] /\ event'[r] = event[r] /\ log' = log
    BY <1>2 DEF SerialInv, PendingIsLatest
  <1>3. ASSUME NEW q \in Request, Apply(q)
        PROVE  \A j \in 1 .. Len(log'[job'[r].pkg]) :
                  log'[job'[r].pkg][j].stamp <= event'[r].stamp
    <2>1. q = r
      BY DEF OneAtATime
    <2>2. job[r].pkg \in Package /\ job' = job /\ log' = log
      BY <1>3, <2>1 DEF Apply, IInv, HandlersOK, LoadedOK, Job
    <2>3. event'[r].stamp = clock + 1
      BY <1>1, <1>3, <2>1 DEF Apply
    <2>4. \A j \in 1 .. Len(log[job[r].pkg]) :
              log[job[r].pkg][j].stamp \in Nat /\ log[job[r].pkg][j].stamp <= clock
      BY <2>2, CommittedStamps DEF IInv, StampsPast
    <2>. QED
      BY <1>1, <2>2, <2>3, <2>4
  <1>4. ASSUME NEW p \in Package, NEW source \in Value, CreatePackage(p, source)
        PROVE  \A j \in 1 .. Len(log'[job'[r].pkg]) :
                  log'[job'[r].pkg][j].stamp <= event'[r].stamp
    <2>1. /\ job' = job /\ event' = event /\ pc' = pc /\ row[p] = None
          /\ \A q \in Package : q # p => log'[q] = log[q]
      BY <1>1, <1>4 DEF CreatePackage
    <2>2. job[r].pkg \in Package /\ job[r].pkg # p
      BY <2>1 DEF SerialInv, SeenIsCurrent, Job
    <2>. QED
      BY <2>1, <2>2 DEF SerialInv, PendingIsLatest
  <1>5. ASSUME NEW q \in Request,
               \/ \E p \in Package, target \in Target, given \in Given :
                       Load(q, p, target, given)
               \/ Reject(q) \/ Commit(q) \/ Refresh(q) \/ Fail(q)
        PROVE  FALSE
    <2>1. q = r
      BY DEF OneAtATime
    <2>2. ASSUME NEW p \in Package, NEW target \in Target, NEW given \in Given,
                 Load(r, p, target, given)
          PROVE  FALSE
      BY <1>1, <2>2 DEF Load, Finish
    <2>3. CASE Reject(r) \/ Fail(r)
      BY <1>1, <2>3 DEF Reject, Fail, Finish
    <2>4. CASE Commit(r) \/ Refresh(r)
      BY <1>1, <2>4 DEF Commit, Refresh
    <2>. QED
      BY <1>5, <2>1, <2>2, <2>3, <2>4
  <1>6. ASSUME (\E p \in Package : TrackRow(p)) \/ TrackEvents \/ UNCHANGED vars
        PROVE  pc[r] = "pending" /\ job'[r] = job[r] /\ event'[r] = event[r] /\ log' = log
    BY <1>6 DEF TrackRow, TrackEvents, vars
  <1>. QED
    BY <1>2, <1>3, <1>4, <1>5, <1>6 DEF Next

LEMMA PastSeedsStep ==
    ASSUME IInv, PastSeeds, [Next]_vars
    PROVE  PastSeeds'
  <1>1. /\ clock \in Nat /\ SeedTime \in Nat
        /\ pc \in [Request -> {"idle", "loaded", "pending", "committed", "replied"}]
        /\ event \in [Request -> Event \cup {None}]
    BY ClockAssumption DEF IInv, TypeOK
  <1>2. SeedTime <= clock'
    BY <1>1, StoreStep DEF PastSeeds
  <1>3. ASSUME NEW r \in Request, pc'[r] = "pending"
        PROVE  SeedTime < event'[r].stamp
    <2>1. CASE pc[r] = "pending" /\ event'[r] = event[r]
      BY <2>1 DEF PastSeeds
    <2>2. ASSUME NEW q \in Request, Apply(q)
          PROVE  SeedTime < event'[r].stamp
      <3>1. CASE q = r
        <4>1. event'[r].stamp = clock + 1
          BY <1>1, <2>2, <3>1 DEF Apply
        <4>. QED
          BY <1>1, <4>1 DEF PastSeeds
      <3>2. CASE q # r
        BY <1>1, <1>3, <2>1, <2>2, <3>2 DEF Apply
      <3>. QED
        BY <3>1, <3>2
    <2>3. ASSUME NEW q \in Request, NEW p \in Package, NEW target \in Target,
                 NEW given \in Given, Load(q, p, target, given)
          PROVE  SeedTime < event'[r].stamp
      BY <1>1, <1>3, <2>1, <2>3 DEF Load, Finish
    <2>4. ASSUME NEW q \in Request, Reject(q) \/ Commit(q) \/ Refresh(q) \/ Fail(q)
          PROVE  SeedTime < event'[r].stamp
      BY <1>1, <1>3, <2>1, <2>4 DEF Reject, Commit, Refresh, Fail, Finish
    <2>5. CASE \/ \E p \in Package, source \in Value : CreatePackage(p, source)
               \/ \E p \in Package : TrackRow(p)
               \/ TrackEvents \/ UNCHANGED vars
      BY <1>3, <2>1, <2>5 DEF CreatePackage, TrackRow, TrackEvents, vars
    <2>. QED
      BY <2>2, <2>3, <2>4, <2>5 DEF Next
  <1>. QED
    BY <1>2, <1>3 DEF PastSeeds

LEMMA SerialStep ==
    ASSUME OneAtATime, IInv, SerialInv, [Next]_vars
    PROVE  SerialInv'
  <1>1. SeenIsCurrent'
    BY SeenIsCurrentStep DEF SerialInv
  <1>2. PendingIsLatest'
    BY PendingIsLatestStep
  <1>4. PastSeeds'
    BY PastSeedsStep DEF SerialInv
  <1>3. ASSUME NEW p \in Package
        PROVE  RowMatches(p)'
    <2>1. CASE row' = row /\ log' = log
      <3>1. Seeded(p)' = Seeded(p) /\ \A c \in Column : InitialColumn(p, c)' = InitialColumn(p, c)
        BY <2>1 DEF Seeded, LastSeeded, InitialColumn
      <3>. QED
        BY <2>1, <3>1 DEF SerialInv, RowMatches, ColumnKept, LastIsLatest, SeedsFirst
    <2>2. ASSUME NEW q \in Package, NEW source \in Value, CreatePackage(q, source)
          PROVE  RowMatches(p)'
      BY <2>2, CreateMatches DEF SerialInv
    <2>3. ASSUME NEW r \in Request, Commit(r)
          PROVE  RowMatches(p)'
      BY <2>3, CommitMatches
    <2>. QED
      BY <2>1, <2>2, <2>3, QuietStep
  <1>. QED
    BY <1>1, <1>2, <1>3, <1>4 DEF SerialInv

\* What the parcels' facts say together.
LEMMA SerialGivesRowFollowsLog ==
    ASSUME IInv, SerialInv
    PROVE  RowFollowsLog
  <1>1. ColumnsFollowLog
    <2>. SUFFICES ASSUME NEW p \in Package, NEW c \in Column, row[p] # None
                  PROVE  IF \A i \in 1 .. Len(log[p]) : ~ Gives(log[p][i], c)
                         THEN row[p].col[c] = InitialColumn(p, c)
                         ELSE \E i \in 1 .. Len(log[p]) :
                            /\ Gives(log[p][i], c)
                            /\ \A j \in 1 .. Len(log[p]) : Gives(log[p][j], c) => j <= i
                            /\ row[p].col[c] = log[p][i].col[c]
      BY DEF ColumnsFollowLog, Gives
    <2>. QED
      BY DEF SerialInv, RowMatches, ColumnKept
  <1>2. DeliveredAtMeansDelivered
    BY DEF SerialInv, RowMatches, DeliveredAtMeansDelivered
  <1>3. TimelineEndsAtStatus
    <2>. SUFFICES ASSUME NEW p \in Package, row[p] # None
                  PROVE  \E i \in 1 .. Len(log[p]) :
                            /\ log[p][i].new = row[p].status
                            /\ \A j \in 1 .. Len(log[p]) : log[p][j].stamp <= log[p][i].stamp
      BY DEF TimelineEndsAtStatus
    <2>1. log[p] \in Seq(Event) /\ Len(log[p]) # 0 /\ row[p].status = log[p][Len(log[p])].new
      BY DEF IInv, TypeOK, RowIsLastCommit
    <2>2. Len(log[p]) \in 1 .. Len(log[p])
      BY <2>1
    <2>3. LastIsLatest(p)
      BY DEF SerialInv, RowMatches
    <2>. QED
      BY <2>1, <2>2, <2>3 DEF LastIsLatest
  <1>. QED
    BY <1>1, <1>2, <1>3 DEF RowFollowsLog

\* With at most one request handler at a time, a row says what its log ends
\* with: the columns PATCHes gave it, its delivery time and its status
\* (transition_status); the runs show that with two it does not.
THEOREM SerialRowFollowsLog ==
    ASSUME OneAtATime
    PROVE  Spec => []RowFollowsLog
  <1>1. Init => SerialInv
    BY InitSerial
  <1>2. IInv /\ SerialInv /\ [Next]_vars => SerialInv'
    BY SerialStep
  <1>3. IInv /\ SerialInv => RowFollowsLog
    BY SerialGivesRowFollowsLog
  <1>. QED
    BY <1>1, <1>2, <1>3, InvariantHolds, PTL DEF Spec

=============================================================================
