----------------------------- MODULE DeskProofs -----------------------------
(***************************************************************************)
(* Proofs about Desk: the log is the truth about the operator's work, a    *)
(* batch levels the riders' loads, and a bulk action takes what it counts, *)
(* for every queue, every roster, every length of the log and any number   *)
(* of handlers under way.                                                  *)
(*                                                                         *)
(* The log is looked at as a set of entries: LogActions adds to it, and    *)
(* while it is not full it has lost none (Logged).                         *)
(***************************************************************************)
EXTENDS Desk, NaturalsInduction, WellFoundedInduction, FiniteSetTheorems, SequenceTheorems, TLAPS

Exceptions == ToSet(Exception)
Parcels == ToSet(Parcel)
Riders == ToSet(Rider)

----------------------------------------------------------------------------
\* Sequences.

LEMMA InductTo ==
    ASSUME NEW L \in Nat, NEW P \in SUBSET (0 .. L), 0 \in P,
           \A n \in P : n < L => n + 1 \in P
    PROVE  P = 0 .. L
<1> SUFFICES ASSUME NEW x \in 0 .. L, x \notin P PROVE FALSE
  OBVIOUS
<1> DEFINE R == OpToRel(<, Nat)
           T == (0 .. L) \ P
<1>1. \A m, n \in Nat : m < n => <<m, n>> \in R
  BY DEF OpToRel
<1>2. IsWellFoundedOn(R, Nat)
  BY NatLessThanWellFounded
<1>3. T \subseteq Nat /\ T # {}
  OBVIOUS
<1> HIDE DEF R
<1>4. PICK n \in T : \A m \in T : <<m, n>> \notin R
  BY <1>2, <1>3, WFMin
<1>5. PICK m \in 0 .. L : n = m + 1
  BY <1>4
<1>6. <<m, n>> \in R
  BY <1>1, <1>4, <1>5
<1>7. m \notin T
  BY <1>4, <1>6
<1>8. m < L
  BY <1>4, <1>5
<1>9. QED
  BY <1>4, <1>5, <1>7, <1>8

LEMMA LeastOf ==
    ASSUME NEW S, S \subseteq Nat, S # {}
    PROVE  \E n \in S : \A m \in S : n <= m
<1> DEFINE R == OpToRel(<, Nat)
<1>1. \A m, n \in Nat : m < n => <<m, n>> \in R
  BY DEF OpToRel
<1>2. IsWellFoundedOn(R, Nat)
  BY NatLessThanWellFounded
<1> HIDE DEF R
<1>3. PICK n \in S : \A m \in S : <<m, n>> \notin R
  BY <1>2, WFMin
<1>4. \A m \in S : n <= m
  <2> SUFFICES ASSUME NEW m \in S, ~(n <= m) PROVE FALSE
    OBVIOUS
  <2>1. m \in Nat /\ n \in Nat
    OBVIOUS
  <2>2. m < n
    BY <2>1
  <2>3. <<m, n>> \in R
    BY <1>1, <2>1, <2>2
  <2>4. QED
    BY <1>3, <2>3
<1>5. QED
  BY <1>4

\* What is kept of a sequence is a sequence of its elements that are in the set.
LEMMA KeptIs ==
    ASSUME NEW T, NEW seq \in Seq(T), NEW S
    PROVE  /\ Kept(seq, S) \in Seq(T)
           /\ ToSet(Kept(seq, S)) = ToSet(seq) \cap S
<1> DEFINE L == Len(seq)
           Def(g, n) == IF n = 0 THEN << >>
                        ELSE IF seq[n] \in S THEN Append(g[n - 1], seq[n]) ELSE g[n - 1]
           Up(n) == \E g : g = [k \in 0 .. n |-> Def(g, k)]
           P == { n \in 0 .. L : Up(n) }
           F == CHOOSE g : g = [n \in 0 .. L |-> Def(g, n)]
<1>1. L \in Nat
  OBVIOUS
<1>2. Kept(seq, S) = F[L]
  BY DEF Kept
<1>3. P = 0 .. L
  <2>1. 0 \in P
    <3> DEFINE g == [k \in 0 .. 0 |-> << >>]
    <3>1. \A k \in 0 .. 0 : Def(g, k) = << >>
      OBVIOUS
    <3>2. g = [k \in 0 .. 0 |-> Def(g, k)]
      BY <3>1
    <3> HIDE DEF g
    <3>3. QED
      BY <1>1, <3>2
  <2>2. ASSUME NEW n \in P, n < L
        PROVE  n + 1 \in P
    <3>1. n \in 0 .. L
      OBVIOUS
    <3>2. PICK h : h = [k \in 0 .. n |-> Def(h, k)]
      BY <2>2
    <3> DEFINE g == [k \in 0 .. (n + 1) |-> IF k = n + 1 THEN Def(h, n + 1) ELSE h[k]]
    <3>3. \A k \in 0 .. n : g[k] = h[k]
      BY <3>1
    <3>4. ASSUME NEW k \in 0 .. (n + 1)
          PROVE  g[k] = Def(g, k)
      <4>1. CASE k = n + 1
        <5>1. g[k] = Def(h, n + 1)
          BY <3>1, <4>1
        <5>2. g[n] = h[n]
          BY <3>1, <3>3
        <5> HIDE DEF g
        <5>3. QED
          BY <3>1, <4>1, <5>1, <5>2
      <4>2. CASE k \in 0 .. n
        <5>1. g[k] = Def(h, k)
          BY <3>2, <3>3, <4>2
        <5>2. k = 0 \/ g[k - 1] = h[k - 1]
          BY <3>1, <3>3, <4>2
        <5> HIDE DEF g
        <5>3. QED
          BY <4>2, <5>1, <5>2
      <4>3. QED
        BY <3>1, <4>1, <4>2
    <3>5. g = [k \in 0 .. (n + 1) |-> g[k]]
      OBVIOUS
    <3> HIDE DEF g
    <3>6. g = [k \in 0 .. (n + 1) |-> Def(g, k)]
      BY <3>4, <3>5
    <3>7. Up(n + 1)
      BY <3>6
    <3> HIDE DEF Up
    <3>8. QED
      BY <1>1, <2>2, <3>1, <3>7
  <2> HIDE DEF P, L
  <2>3. P \in SUBSET (0 .. L)
    BY DEF P
  <2>4. QED
    BY <1>1, <2>1, <2>2, <2>3, InductTo
<1>4. F = [n \in 0 .. L |-> Def(F, n)]
  <2>1. L \in P
    BY <1>1, <1>3
  <2>2. Up(L)
    BY <2>1
  <2>3. QED
    BY <2>2
<1> HIDE DEF F
<1>5. F[0] = << >> /\ \A n \in 1 .. L : F[n] = IF seq[n] \in S THEN Append(F[n - 1], seq[n])
                                               ELSE F[n - 1]
  <2>1. \A n \in 0 .. L : F[n] = Def(F, n)
    BY <1>4
  <2>2. QED
    BY <1>1, <2>1
<1> DEFINE Q == { n \in 0 .. L : /\ F[n] \in Seq(T)
                                 /\ ToSet(F[n]) = { seq[i] : i \in 1 .. n } \cap S }
<1>6. Q = 0 .. L
  <2>1. 0 \in Q
    <3>1. ToSet(<< >>) = {} /\ << >> \in Seq(T)
      BY DEF ToSet
    <3>2. { seq[i] : i \in 1 .. 0 } = {}
      OBVIOUS
    <3>3. F[0] \in Seq(T) /\ ToSet(F[0]) = { seq[i] : i \in 1 .. 0 } \cap S
      BY <1>5, <3>1, <3>2
    <3>4. QED
      BY <1>1, <3>3
  <2>2. ASSUME NEW n \in Q, n < L
        PROVE  n + 1 \in Q
    <3>1. n \in 0 .. L /\ n + 1 \in 1 .. L /\ (n + 1) - 1 = n
      BY <2>2
    <3> DEFINE x == seq[n + 1]
    <3>2. F[n + 1] = IF x \in S THEN Append(F[n], x) ELSE F[n]
      BY <1>5, <3>1
    <3>3. x \in T
      BY <3>1
    <3>4. { seq[i] : i \in 1 .. (n + 1) } = { seq[i] : i \in 1 .. n } \cup { x }
      BY <3>1
    <3>5. F[n] \in Seq(T) /\ ToSet(F[n]) = { seq[i] : i \in 1 .. n } \cap S
      OBVIOUS
    <3>6. ASSUME NEW s \in Seq(T)
          PROVE  Append(s, x) \in Seq(T) /\ ToSet(Append(s, x)) = ToSet(s) \cup { x }
      <4> HIDE DEF x
      <4>1. /\ Append(s, x) \in Seq(T) /\ Len(Append(s, x)) = Len(s) + 1
            /\ \A i \in 1 .. Len(s) : Append(s, x)[i] = s[i]
            /\ Append(s, x)[Len(s) + 1] = x
        BY <3>3
      <4>2. DOMAIN s = 1 .. Len(s) /\ DOMAIN Append(s, x) = 1 .. (Len(s) + 1) /\ Len(s) \in Nat
        BY <4>1
      <4>3. QED
        BY <4>1, <4>2 DEF ToSet
    <3> HIDE DEF x
    <3>7. F[n + 1] \in Seq(T) /\ ToSet(F[n + 1]) = { seq[i] : i \in 1 .. (n + 1) } \cap S
      BY <3>2, <3>4, <3>5, <3>6
    <3>8. QED
      BY <3>1, <3>7
  <2> HIDE DEF Q, L
  <2>3. Q \in SUBSET (0 .. L)
    BY DEF Q
  <2>4. QED
    BY <1>1, <2>1, <2>2, <2>3, InductTo
<1>7. F[L] \in Seq(T) /\ ToSet(F[L]) = { seq[i] : i \in 1 .. L } \cap S
  <2> HIDE DEF L
  <2>1. L \in 0 .. L
    BY <1>1
  <2>2. L \in Q
    BY <1>6, <2>1
  <2>3. QED
    BY <2>2
<1>8. ToSet(seq) = { seq[i] : i \in 1 .. L }
  BY DEF ToSet
<1>9. QED
  BY <1>2, <1>7, <1>8

\* FlattenSeq puts one sequence after the other.
LEMMA FlattenSteps ==
    ASSUME NEW seqs, Len(seqs) \in Nat \ { 0 }
    PROVE  \E F : /\ FlattenSeq(seqs) = F[Len(seqs)]
                  /\ F[1] = seqs[1]
                  /\ \A n \in 2 .. Len(seqs) : F[n] = F[n - 1] \o seqs[n]
<1> DEFINE L == Len(seqs)
<1>1. L \in Nat /\ L # 0
  OBVIOUS
<1> DEFINE Def(g, n) == IF n = 1 THEN seqs[n] ELSE g[n - 1] \o seqs[n]
           Up(n) == \E g : g = [k \in 1 .. n |-> Def(g, k)]
           P == { n \in 0 .. L : Up(n) }
           F == CHOOSE g : g = [n \in 1 .. L |-> Def(g, n)]
<1>2. FlattenSeq(seqs) = F[L]
  BY DEF FlattenSeq
<1> HIDE DEF L
<1>3. P = 0 .. L
  <2>1. 0 \in P
    <3> DEFINE g == [k \in 1 .. 0 |-> << >>]
    <3>1. \A k \in 1 .. 0 : Def(g, k) = << >>
      OBVIOUS
    <3>2. g = [k \in 1 .. 0 |-> Def(g, k)]
      BY <3>1
    <3>3. Up(0)
      <4> HIDE DEF g
      <4>1. QED
        BY <3>2
    <3> HIDE DEF g, Up
    <3>4. QED
      BY <1>1, <3>3
  <2>2. ASSUME NEW n \in P, n < L
        PROVE  n + 1 \in P
    <3>1. n \in 0 .. L
      OBVIOUS
    <3>2. PICK h : h = [k \in 1 .. n |-> Def(h, k)]
      BY <2>2
    <3> DEFINE g == [k \in 1 .. (n + 1) |-> IF k = n + 1 THEN Def(h, n + 1) ELSE h[k]]
    <3>3. \A k \in 1 .. n : g[k] = h[k]
      BY <3>1
    <3>4. ASSUME NEW k \in 1 .. (n + 1)
          PROVE  g[k] = Def(g, k)
      <4>1. CASE k = n + 1
        <5>1. g[k] = Def(h, n + 1)
          BY <3>1, <4>1
        <5>2. n = 0 \/ g[n] = h[n]
          BY <3>1, <3>3
        <5> HIDE DEF g
        <5>3. QED
          BY <3>1, <4>1, <5>1, <5>2
      <4>2. CASE k \in 1 .. n
        <5>1. g[k] = Def(h, k)
          BY <3>2, <3>3, <4>2
        <5>2. k = 1 \/ g[k - 1] = h[k - 1]
          BY <3>1, <3>3, <4>2
        <5> HIDE DEF g
        <5>3. QED
          BY <4>2, <5>1, <5>2
      <4>3. QED
        BY <3>1, <4>1, <4>2
    <3>5. g = [k \in 1 .. (n + 1) |-> g[k]]
      OBVIOUS
    <3> HIDE DEF g
    <3>6. g = [k \in 1 .. (n + 1) |-> Def(g, k)]
      BY <3>4, <3>5
    <3>7. Up(n + 1)
      BY <3>6
    <3> HIDE DEF Up
    <3>8. QED
      BY <1>1, <2>2, <3>1, <3>7
  <2> HIDE DEF P, L
  <2>3. P \in SUBSET (0 .. L)
    BY DEF P
  <2>4. QED
    BY <1>1, <2>1, <2>2, <2>3, InductTo
<1>4. F = [n \in 1 .. L |-> Def(F, n)]
  <2>1. L \in P
    <3> HIDE DEF P
    <3>1. QED
      BY <1>1, <1>3
  <2>2. Up(L)
    <3> HIDE DEF Up
    <3>1. QED
      BY <2>1
  <2>3. QED
    BY <2>2
<1> HIDE DEF F
<1>5. \A n \in 1 .. L : F[n] = Def(F, n)
  BY <1>4
<1>6. F[1] = seqs[1] /\ \A n \in 2 .. L : F[n] = F[n - 1] \o seqs[n]
  <2>1. 1 \in 1 .. L /\ \A n \in 2 .. L : n \in 1 .. L /\ n # 1
    BY <1>1
  <2>2. Def(F, 1) = seqs[1]
    OBVIOUS
  <2>3. ASSUME NEW n \in 2 .. L PROVE Def(F, n) = F[n - 1] \o seqs[n]
    <3>1. n # 1
      BY <1>1
    <3>2. QED
      BY <3>1
  <2> HIDE DEF Def
  <2>4. QED
    BY <1>5, <2>1, <2>2, <2>3
<1>7. QED
  BY <1>2, <1>6 DEF L

LEMMA FlattenIs ==
    ASSUME NEW T, NEW seqs \in Seq(Seq(T))
    PROVE  FlattenSeq(seqs) \in Seq(T)
<1> DEFINE L == Len(seqs)
<1>1. L \in Nat
  OBVIOUS
<1>2. CASE L = 0
  <2>1. FlattenSeq(seqs) = seqs /\ seqs = << >>
    BY <1>2 DEF FlattenSeq
  <2>2. QED
    BY <2>1
<1>3. CASE L # 0
  <2>1. PICK F : /\ FlattenSeq(seqs) = F[L]
                 /\ F[1] = seqs[1]
                 /\ \A n \in 2 .. L : F[n] = F[n - 1] \o seqs[n]
    BY <1>1, <1>3, FlattenSteps
  <2> DEFINE Q == { n \in 0 .. L : n = 0 \/ F[n] \in Seq(T) }
  <2>2. 0 \in Q
    BY <1>1
  <2>3. ASSUME NEW n \in Q, n < L
        PROVE  n + 1 \in Q
    <3>1. n \in 0 .. L /\ n + 1 \in 1 .. L /\ (n + 1) - 1 = n
      BY <2>3
    <3>2. seqs[n + 1] \in Seq(T)
      BY <3>1
    <3>3. CASE n = 0
      BY <2>1, <3>1, <3>2, <3>3
    <3>4. CASE n # 0
      <4>1. F[n] \in Seq(T)
        BY <3>4
      <4> HIDE DEF Q
      <4>3. n + 1 \in 2 .. L
        BY <1>1, <2>3, <3>1, <3>4
      <4>4. F[n + 1] = F[n] \o seqs[n + 1]
        BY <2>1, <3>1, <4>3
      <4>2. F[n + 1] \in Seq(T)
        BY <3>2, <4>1, <4>4
      <4>5. QED
        BY <3>1, <4>2 DEF Q
    <3>5. QED
      BY <3>3, <3>4
  <2> HIDE DEF Q, L
  <2>4. Q \in SUBSET (0 .. L)
    BY DEF Q
  <2>5. Q = 0 .. L
    BY <1>1, <2>2, <2>3, <2>4, InductTo
  <2>6. F[L] \in Seq(T)
    BY <1>1, <1>3, <2>5 DEF Q
  <2>7. QED
    BY <2>1, <2>6
<1>4. QED
  BY <1>2, <1>3

----------------------------------------------------------------------------
\* The operator's store.

Actions == WorkflowStatus \cup { "switched role", "note" } \cup PackageStatus
Targets == Roles \cup Exceptions \cup { LabelOf[e] : e \in Exceptions } \cup Parcels
Scopes == { "local", "api" }
What == [ action : Actions, target : Targets, scope : Scopes ]
Entries == [ actor : Users, role : Roles, action : Actions, target : Targets, scope : Scopes ]

Workflow ==
    [ status : WorkflowStatus, assignee : Users \cup { None }, until : Nat \cup { None },
      notes : Seq(Users) ]
WorksOf(D) == [ D -> Workflow ]
Works == UNION { [ D -> Workflow ] : D \in SUBSET Exceptions }

OpsOK(o) ==
    /\ o \in [ role : Roles, user : Users, exceptions : Works, audit : Seq(Entries) ]
    /\ Len(o.audit) <= MaxAudit

Patches ==
    [ status : WorkflowStatus, assignee : Users \cup { None }, until : Nat \cup { None } ]

\* What the log has of the server.
LEMMA ToldIs ==
    ASSUME NEW o
    PROVE  Told(o) = { Written(a.action, a.target) : a \in { b \in ToSet(o.audit) : b.scope = "api" } }
  BY DEF Told

\* Entries are added to the log, and while it is not full none is lost.
LEMMA Logged ==
    ASSUME NEW o, OpsOK(o), NEW new \in Seq(What)
    PROVE  LET q == LogActions(o, new)
               fresh == { Entry(o, new[i]) : i \in DOMAIN new }
           IN  /\ OpsOK(q)
               /\ q.role = o.role /\ q.user = o.user /\ q.exceptions = o.exceptions
               /\ ToSet(q.audit) \subseteq fresh \cup ToSet(o.audit)
               /\ Len(q.audit) < MaxAudit =>
                    Len(o.audit) < MaxAudit /\ ToSet(q.audit) = fresh \cup ToSet(o.audit)
<1> DEFINE head == [ i \in DOMAIN new |-> Entry(o, new[i]) ]
           log == head \o o.audit
           audit == IF Len(log) > MaxAudit THEN SubSeq(log, 1, MaxAudit) ELSE log
           q == LogActions(o, new)
           fresh == { Entry(o, new[i]) : i \in DOMAIN new }
<1>1. /\ o \in [ role : Roles, user : Users, exceptions : Works, audit : Seq(Entries) ]
      /\ o.role \in Roles /\ o.user \in Users /\ o.exceptions \in Works
      /\ o.audit \in Seq(Entries) /\ Len(o.audit) <= MaxAudit
  BY DEF OpsOK
<1>2. MaxAudit \in Nat
  BY AuditAssumption
<1>3. q = [ o EXCEPT !.audit = audit ]
  BY DEF LogActions
<1>4. \A i \in DOMAIN new : Entry(o, new[i]) \in Entries
  <2> SUFFICES ASSUME NEW i \in DOMAIN new PROVE Entry(o, new[i]) \in Entries
    OBVIOUS
  <2>1. new[i] \in What
    OBVIOUS
  <2>2. new[i].action \in Actions /\ new[i].target \in Targets /\ new[i].scope \in Scopes
    BY <2>1 DEF What
  <2>3. QED
    BY <1>1, <2>2 DEF Entry, Entries
<1>5. head \in Seq(Entries) /\ Len(head) = Len(new) /\ DOMAIN head = 1 .. Len(new)
  BY <1>4
<1>6. \A i \in DOMAIN head : head[i] = Entry(o, new[i])
  OBVIOUS
<1>7. DOMAIN new = DOMAIN head
  OBVIOUS
<1> HIDE DEF head
<1>8. /\ log \in Seq(Entries) /\ Len(log) = Len(head) + Len(o.audit)
      /\ \A i \in 1 .. Len(head) : log[i] = head[i]
      /\ \A i \in 1 .. Len(o.audit) : log[Len(head) + i] = o.audit[i]
  BY <1>1, <1>5
<1>9. ToSet(log) = fresh \cup ToSet(o.audit)
  <2>1. ASSUME NEW x \in ToSet(log)
        PROVE  x \in fresh \cup ToSet(o.audit)
    <3>1. PICK i \in 1 .. Len(log) : x = log[i]
      BY <1>8 DEF ToSet
    <3>2. CASE i \in 1 .. Len(head)
      BY <1>5, <1>6, <1>7, <1>8, <3>1, <3>2
    <3>3. CASE i \notin 1 .. Len(head)
      <4> DEFINE j == i - Len(head)
      <4>1. Len(head) \in Nat /\ Len(o.audit) \in Nat
        BY <1>1, <1>5
      <4>2. j \in 1 .. Len(o.audit) /\ i = Len(head) + j
        BY <1>8, <3>1, <3>3, <4>1
      <4> HIDE DEF j
      <4>3. x = o.audit[j]
        BY <1>8, <3>1, <4>2
      <4>4. QED
        BY <1>1, <4>2, <4>3 DEF ToSet
    <3>4. QED
      BY <3>2, <3>3
  <2>2. ASSUME NEW x \in fresh
        PROVE  x \in ToSet(log)
    <3>1. PICK i \in 1 .. Len(head) : x = head[i]
      BY <1>5, <1>6, <1>7
    <3>2. i \in 1 .. Len(log) /\ log[i] = x
      BY <1>1, <1>5, <1>8, <3>1
    <3>3. QED
      BY <1>8, <3>2 DEF ToSet
  <2>3. ASSUME NEW x \in ToSet(o.audit)
        PROVE  x \in ToSet(log)
    <3>1. PICK i \in 1 .. Len(o.audit) : x = o.audit[i]
      BY <1>1 DEF ToSet
    <3>2. Len(head) + i \in 1 .. Len(log) /\ log[Len(head) + i] = x
      BY <1>1, <1>5, <1>8, <3>1
    <3>3. QED
      BY <1>8, <3>2 DEF ToSet
  <2>4. QED
    BY <2>1, <2>2, <2>3
<1> HIDE DEF log, fresh
<1>10. /\ audit \in Seq(Entries) /\ Len(audit) <= MaxAudit /\ ToSet(audit) \subseteq ToSet(log)
       /\ Len(audit) < MaxAudit => audit = log
  <2>1. CASE Len(log) > MaxAudit
    <3>1. /\ audit = SubSeq(log, 1, MaxAudit) /\ audit \in Seq(Entries) /\ Len(audit) = MaxAudit
          /\ \A i \in 1 .. MaxAudit : audit[i] = log[i]
      BY <1>2, <1>8, <2>1
    <3>2. ToSet(audit) \subseteq ToSet(log)
      BY <1>2, <1>8, <2>1, <3>1 DEF ToSet
    <3>3. QED
      BY <1>2, <3>1, <3>2
  <2>2. CASE ~(Len(log) > MaxAudit)
    BY <1>2, <1>8, <2>2
  <2>3. QED
    BY <2>1, <2>2
<1> HIDE DEF audit
<1>11. /\ q.audit = audit /\ q.role = o.role /\ q.user = o.user /\ q.exceptions = o.exceptions
       /\ q \in [ role : Roles, user : Users, exceptions : Works, audit : Seq(Entries) ]
  BY <1>1, <1>3, <1>10
<1>12. Len(audit) < MaxAudit => Len(o.audit) < MaxAudit
  BY <1>1, <1>2, <1>5, <1>8, <1>10
<1> HIDE DEF q
<1>13. OpsOK(q)
  BY <1>10, <1>11 DEF OpsOK
<1>14. QED
  BY <1>9, <1>10, <1>11, <1>12, <1>13 DEF q, fresh

\* The log accounts for the workflow of each exception, unless it is full.
Audited(o) ==
    Len(o.audit) < MaxAudit =>
        \A e \in DOMAIN o.exceptions :
            o.exceptions[e].status # "open" =>
                \E a \in ToSet(o.audit) :
                    a.target = LabelOf[e] /\ a.action = o.exceptions[e].status

\* What is told of the server stays as it is, unless the log is full.
TellsTheSame(o, q) ==
    /\ Told(q) \subseteq Told(o)
    /\ Len(q.audit) < MaxAudit => Len(o.audit) < MaxAudit /\ Told(q) = Told(o)

LEMMA LocalTellsNothing ==
    ASSUME NEW o, OpsOK(o), NEW new \in Seq(What),
           \A i \in DOMAIN new : new[i].scope = "local"
    PROVE  TellsTheSame(o, LogActions(o, new))
<1> DEFINE q == LogActions(o, new)
           fresh == { Entry(o, new[i]) : i \in DOMAIN new }
<1>1. /\ ToSet(q.audit) \subseteq fresh \cup ToSet(o.audit)
      /\ Len(q.audit) < MaxAudit =>
           Len(o.audit) < MaxAudit /\ ToSet(q.audit) = fresh \cup ToSet(o.audit)
  BY Logged
<1>2. \A a \in fresh : a.scope = "local"
  BY DEF Entry
<1> HIDE DEF q, fresh
<1>3. QED
  BY <1>1, <1>2 DEF TellsTheSame, Told, q

LEMMA WorkflowIs ==
    ASSUME NEW o, OpsOK(o), NEW e
    PROVE  WorkflowOf(o, e) \in Workflow
<1>1. PICK D \in SUBSET Exceptions : o.exceptions \in [ D -> Workflow ]
  BY DEF OpsOK, Works
<1>2. NewWorkflow \in Workflow
  <2>1. << >> \in Seq(Users)
    OBVIOUS
  <2>2. QED
    BY <2>1 DEF NewWorkflow, Workflow, WorkflowStatus
<1>3. QED
  BY <1>1, <1>2 DEF WorkflowOf

LEMMA ReworkedFields ==
    ASSUME NEW o, OpsOK(o), NEW D \in SUBSET Exceptions, NEW new \in [ D -> Workflow ]
    PROVE  /\ OpsOK(Reworked(o, new))
           /\ Reworked(o, new).role = o.role /\ Reworked(o, new).user = o.user
           /\ Reworked(o, new).audit = o.audit
           /\ Reworked(o, new).exceptions =
                [ e \in DOMAIN o.exceptions \cup D |->
                    IF e \in D THEN new[e] ELSE o.exceptions[e] ]
<1> DEFINE both == [ e \in DOMAIN o.exceptions \cup D |->
                        IF e \in D THEN new[e] ELSE o.exceptions[e] ]
           q == Reworked(o, new)
<1>1. PICK E \in SUBSET Exceptions : o.exceptions \in [ E -> Workflow ]
  BY DEF OpsOK, Works
<1>2. both \in [ E \cup D -> Workflow ] /\ E \cup D \in SUBSET Exceptions
  BY <1>1
<1>3. both \in Works
  BY <1>2 DEF Works
<1>4. q = [ o EXCEPT !.exceptions = both ]
  BY DEF Reworked, OpsOK
<1> HIDE DEF both
<1>5. q.exceptions = both /\ q.role = o.role /\ q.user = o.user /\ q.audit = o.audit
  BY <1>4 DEF OpsOK
<1>6. OpsOK(q)
  BY <1>3, <1>4 DEF OpsOK
<1>7. QED
  BY <1>5, <1>6 DEF both

LEMMA ReworkedIs ==
    ASSUME NEW o, OpsOK(o), NEW D, D \subseteq Exceptions, NEW new \in WorksOf(D),
           NEW q, q = Reworked(o, new)
    PROVE  /\ OpsOK(q) /\ q.role = o.role /\ q.user = o.user /\ q.audit = o.audit
           /\ DOMAIN q.exceptions = DOMAIN o.exceptions \cup D
           /\ \A e \in D : q.exceptions[e] = new[e]
           /\ \A e \in DOMAIN o.exceptions \ D : q.exceptions[e] = o.exceptions[e]
<1>1. /\ OpsOK(q) /\ q.role = o.role /\ q.user = o.user /\ q.audit = o.audit
      /\ q.exceptions = [ e \in DOMAIN o.exceptions \cup D |->
                            IF e \in D THEN new[e] ELSE o.exceptions[e] ]
  <2>1. D \in SUBSET Exceptions /\ new \in [ D -> Workflow ]
    BY DEF WorksOf
  <2>2. QED
    BY <2>1, ReworkedFields
<1>2. QED
  BY <1>1

\* Patches of several exceptions, each with its own entry.
LEMMA UpdatesAreAudited ==
    ASSUME NEW o, OpsOK(o), Audited(o), NEW es \in Seq(Exceptions), NEW patch \in Patches
    PROVE  LET q == UpdateExceptions(o, es, patch, LabelOf)
           IN  /\ OpsOK(q) /\ Audited(q) /\ TellsTheSame(o, q)
               /\ \A e \in Exceptions \ ToSet(es) : WorkflowOf(q, e) = WorkflowOf(o, e)
<1> DEFINE D == ToSet(es)
           new == [ e \in D |-> Amended(WorkflowOf(o, e), patch) ]
           r == Reworked(o, new)
           said == [ i \in DOMAIN es |-> Local(patch.status, LabelOf[Reverse(es)[i]]) ]
           q == LogActions(r, said)
           fresh == { Entry(r, said[i]) : i \in DOMAIN said }
<1>1. D \in SUBSET Exceptions
  BY DEF ToSet
<1>2. new \in [ D -> Workflow ] /\ \A e \in D : new[e].status = patch.status
  <2> SUFFICES ASSUME NEW e \in D
               PROVE  new[e] \in Workflow /\ new[e].status = patch.status
    OBVIOUS
  <2>1. WorkflowOf(o, e) \in Workflow
    BY WorkflowIs
  <2>2. QED
    BY <2>1 DEF Amended, Workflow, Patches
<1> HIDE DEF new, D
<1> HIDE DEF r
<1>3. /\ OpsOK(r) /\ r.audit = o.audit
      /\ DOMAIN r.exceptions = DOMAIN o.exceptions \cup D
      /\ \A e \in D : r.exceptions[e] = new[e]
      /\ \A e \in DOMAIN o.exceptions \ D : r.exceptions[e] = o.exceptions[e]
  <2>1. r = Reworked(o, new)
    BY DEF r
  <2>2. new \in WorksOf(D) /\ D \subseteq Exceptions
    BY <1>1, <1>2 DEF WorksOf
  <2>3. QED
    BY <2>1, <2>2, ReworkedIs
<1>4. ASSUME NEW i \in DOMAIN es
      PROVE  said[i] \in What /\ said[i].scope = "local" /\ said[i].action = patch.status
  <2>1. Reverse(es)[i] \in Exceptions
    BY DEF Reverse
  <2>2. QED
    BY <2>1 DEF Local, What, Actions, Targets, Scopes, Patches
<1>5. said \in Seq(What) /\ DOMAIN said = DOMAIN es
  BY <1>4
<1>6. \A e \in D : \E i \in DOMAIN said : said[i].target = LabelOf[e]
  <2> SUFFICES ASSUME NEW e \in D
               PROVE  \E i \in DOMAIN said : said[i].target = LabelOf[e]
    OBVIOUS
  <2>1. PICK j \in 1 .. Len(es) : es[j] = e
    BY DEF ToSet, D
  <2> DEFINE i == Len(es) - j + 1
  <2>2. i \in 1 .. Len(es) /\ (Len(es) - i) + 1 = j
    OBVIOUS
  <2> HIDE DEF i
  <2>3. Reverse(es)[i] = e
    BY <2>1, <2>2 DEF Reverse
  <2>4. QED
    BY <2>2, <2>3 DEF Local
<1> HIDE DEF said
<1>7. /\ OpsOK(q) /\ q.exceptions = r.exceptions
      /\ ToSet(q.audit) \subseteq fresh \cup ToSet(r.audit)
      /\ Len(q.audit) < MaxAudit =>
           Len(r.audit) < MaxAudit /\ ToSet(q.audit) = fresh \cup ToSet(r.audit)
  BY <1>3, <1>5, Logged
<1>8. TellsTheSame(r, q)
  BY <1>3, <1>4, <1>5, LocalTellsNothing
<1>9. TellsTheSame(o, q)
  BY <1>3, <1>8 DEF TellsTheSame, Told
<1>10. Audited(q)
  <2> SUFFICES ASSUME Len(q.audit) < MaxAudit,
                      NEW e \in DOMAIN q.exceptions, q.exceptions[e].status # "open"
               PROVE  \E a \in ToSet(q.audit) :
                         a.target = LabelOf[e] /\ a.action = q.exceptions[e].status
    BY DEF Audited
  <2>1. CASE e \in D
    <3>1. PICK i \in DOMAIN said : said[i].target = LabelOf[e]
      BY <1>6, <2>1
    <3>2. said[i].action = patch.status
      BY <1>4, <1>5
    <3> DEFINE a == Entry(r, said[i])
    <3>3. a.target = LabelOf[e] /\ a.action = patch.status
      BY <3>1, <3>2 DEF Entry
    <3>4. a \in fresh
      OBVIOUS
    <3> HIDE DEF a, fresh, q
    <3>5. a \in ToSet(q.audit)
      BY <1>7, <3>4
    <3>6. q.exceptions[e].status = patch.status
      BY <1>2, <1>3, <1>7, <2>1
    <3>7. QED
      BY <3>3, <3>5, <3>6
  <2>2. CASE e \notin D
    <3>1. e \in DOMAIN o.exceptions /\ q.exceptions[e] = o.exceptions[e]
      BY <1>3, <1>7, <2>2
    <3>2. Len(o.audit) < MaxAudit
      BY <1>3, <1>7
    <3>3. PICK a \in ToSet(o.audit) : a.target = LabelOf[e] /\ a.action = o.exceptions[e].status
      BY <3>1, <3>2 DEF Audited
    <3>4. a \in ToSet(q.audit)
      BY <1>3, <1>7
    <3>5. QED
      BY <3>1, <3>3, <3>4
  <2>3. QED
    BY <2>1, <2>2
<1>11. \A e \in Exceptions \ D : WorkflowOf(q, e) = WorkflowOf(o, e)
  BY <1>3, <1>7 DEF WorkflowOf
<1>12. UpdateExceptions(o, es, patch, LabelOf) = q
  BY DEF UpdateExceptions, said, r, new, D
<1>13. QED
  BY <1>7, <1>9, <1>10, <1>11, <1>12 DEF D

----------------------------------------------------------------------------
\* The queue and its table.

Sorts == { "none", "asc", "desc" }
Tables == [ sort : Sorts, page : Nat, size : PageSizes, selected : SUBSET Exceptions ]

QueueOK ==
    /\ page \in Pages /\ raised \in SUBSET Exceptions
    /\ clock \in Nat /\ minute \in Nat /\ minute <= clock
    /\ table \in Tables

LEMMA RowsAre == Rows \in Seq(Exceptions)
<1>1. Exception \in Seq(Exceptions)
  BY RosterAssumption DEF Exceptions
<1>2. Scoped \in Seq(Exceptions)
  BY <1>1, KeptIs DEF Scoped
<1>3. QED
  BY <1>2, KeptIs DEF Rows

LEMMA SortedIs ==
    ASSUME NEW seq \in Seq(Exceptions), NEW sort \in Sorts
    PROVE  Sorted(seq, sort, Priorities, PriorityOf) \in Seq(Exceptions)
<1> DEFINE of(v) == Kept(seq, { r \in ToSet(seq) : PriorityOf[r] = v })
           ups == [ i \in DOMAIN Priorities |-> of(Priorities[i]) ]
           downs == [ i \in DOMAIN Priorities |-> of(Reverse(Priorities)[i]) ]
<1>1. ASSUME NEW v PROVE of(v) \in Seq(Exceptions)
  BY KeptIs
<1>2. PICK n \in Nat : DOMAIN Priorities = 1 .. n
  BY RosterAssumption
<1>3. ups \in Seq(Seq(Exceptions)) /\ downs \in Seq(Seq(Exceptions))
  <2> HIDE DEF of
  <2>1. ups \in [ 1 .. n -> Seq(Exceptions) ] /\ downs \in [ 1 .. n -> Seq(Exceptions) ]
    BY <1>1, <1>2
  <2> HIDE DEF ups, downs
  <2>2. QED
    BY <2>1
<1>4. FlattenSeq(ups) \in Seq(Exceptions) /\ FlattenSeq(downs) \in Seq(Exceptions)
  <2> HIDE DEF ups, downs
  <2>1. QED
    BY <1>3, FlattenIs
<1>5. Sorted(seq, sort, Priorities, PriorityOf) =
          CASE sort = "none" -> seq
            [] sort = "asc" -> FlattenSeq(ups) [] sort = "desc" -> FlattenSeq(downs)
  BY DEF Sorted
<1> HIDE DEF ups, downs
<1>6. QED
  BY <1>4, <1>5 DEF Sorts

LEMMA QueueRowsAre ==
    ASSUME table \in Tables
    PROVE  QueueRows \in Seq(Exceptions)
<1>1. table.sort \in Sorts
  BY DEF Tables
<1>2. QED
  BY <1>1, RowsAre, SortedIs DEF QueueRows

LEMMA Division ==
    ASSUME NEW a \in Nat, NEW b \in Nat \ { 0 }
    PROVE  /\ a \div b \in Nat
           /\ (a \div b) * b <= a
           /\ a < (a \div b) * b + b
  OBVIOUS

\* There is at least one page, and as many as the rows fill.
LEMMA PagesAre ==
    ASSUME NEW seq \in Seq(Exceptions), NEW t \in Tables
    PROVE  /\ PageCount(t, seq) \in Nat \ { 0 } /\ t.size \in Nat \ { 0 }
           /\ Len(seq) <= PageCount(t, seq) * t.size
           /\ seq # << >> => (PageCount(t, seq) - 1) * t.size < Len(seq)
           /\ SafePage(t, seq) \in 0 .. PageCount(t, seq) - 1
<1> DEFINE n == Len(seq)
           size == t.size
           q == (n + size - 1) \div size
<1>1. n \in Nat /\ size \in Nat \ { 0 } /\ t.page \in Nat
  <2>1. t.size \in PageSizes /\ t.page \in Nat
    BY DEF Tables
  <2>2. PageSizes \subseteq Nat \ { 0 }
    BY PortalAssumption
  <2>3. t.size \in Nat \ { 0 }
    BY <2>1, <2>2
  <2>4. Len(seq) \in Nat
    OBVIOUS
  <2>5. QED
    BY <2>1, <2>3, <2>4
<1>2. seq = << >> <=> n = 0
  OBVIOUS
<1> HIDE DEF n, size
<1>3. n + size - 1 \in Nat
  BY <1>1
<1>4. q \in Nat /\ q * size <= n + size - 1 /\ n + size - 1 < q * size + size
  BY <1>1, <1>3, Division
<1> HIDE DEF q
<1>5. PageCount(t, seq) = IF n = 0 THEN 1 ELSE q
  BY <1>2 DEF PageCount, n, size, q
<1>6. n <= q * size /\ (q - 1) * size < n
  <2>1. q * size \in Nat /\ (q - 1) * size = q * size - size
    BY <1>1, <1>4
  <2>2. QED
    BY <1>1, <1>4, <2>1
<1>7. n # 0 => q # 0
  BY <1>1, <1>4, <1>6
<1>8. PageCount(t, seq) \in Nat \ { 0 }
  BY <1>4, <1>5, <1>7
<1>9. n <= PageCount(t, seq) * size /\ (n # 0 => (PageCount(t, seq) - 1) * size < n)
  BY <1>1, <1>5, <1>6
<1>10. SafePage(t, seq) \in 0 .. PageCount(t, seq) - 1
  BY <1>1, <1>8 DEF SafePage
<1>11. QED
  BY <1>1, <1>2, <1>8, <1>9, <1>10 DEF n, size

LEMMA PageRowsIn ==
    ASSUME NEW seq \in Seq(Exceptions), NEW t \in Tables
    PROVE  ToSet(PageRows(t, seq)) \subseteq Exceptions
<1> DEFINE from == SafePage(t, seq) * t.size
           to == IF from + t.size > Len(seq) THEN Len(seq) ELSE from + t.size
<1>1. SafePage(t, seq) \in Nat /\ t.size \in Nat /\ Len(seq) \in Nat
  BY PagesAre
<1>2. from \in Nat
  BY <1>1
<1> HIDE DEF from
<1>3. to \in Nat /\ to <= Len(seq)
  BY <1>1, <1>2
<1>4. PageRows(t, seq) = SubSeq(seq, from + 1, to)
  BY DEF PageRows, from
<1> HIDE DEF to
<1>5. SubSeq(seq, from + 1, to) \in Seq(Exceptions)
  BY <1>2, <1>3
<1> DEFINE shown == SubSeq(seq, from + 1, to)
<1> HIDE DEF shown
<1>6. shown \in Seq(Exceptions) /\ PageRows(t, seq) = shown
  BY <1>4, <1>5 DEF shown
<1>7. ToSet(shown) \subseteq Exceptions
  BY <1>6 DEF ToSet
<1>8. QED
  BY <1>6, <1>7

\* The pages, one after the other, are the rows.
LEMMA PagesFlatten ==
    ASSUME NEW seq \in Seq(Exceptions), NEW t \in Tables
    PROVE  /\ seq # << >> => PageRows(t, seq) # << >>
           /\ FlattenSeq([ n \in 1 .. PageCount(t, seq) |->
                            PageRows([ t EXCEPT !.page = n - 1 ], seq) ]) = seq
<1> DEFINE c == PageCount(t, seq)
           size == t.size
           n == Len(seq)
           upTo(k) == IF k * size > n THEN n ELSE k * size
           pages == [ k \in 1 .. c |-> PageRows([ t EXCEPT !.page = k - 1 ], seq) ]
<1>1. /\ c \in Nat \ { 0 } /\ size \in Nat \ { 0 } /\ n \in Nat
      /\ n <= c * size /\ SafePage(t, seq) \in 0 .. c - 1
  BY PagesAre
<1>2. seq # << >> => (c - 1) * size < n
  BY PagesAre
<1>3. seq = << >> <=> n = 0
  OBVIOUS
<1> HIDE DEF c, size, n
<1>4. ASSUME NEW k \in 0 .. c - 1
      PROVE  k * size \in Nat /\ k * size <= n /\ upTo(k) = k * size
  <2>1. k \in Nat /\ k <= c - 1 /\ c - 1 \in Nat
    BY <1>1
  <2>2. k * size \in Nat /\ k * size <= (c - 1) * size
    BY <1>1, <2>1
  <2>3. CASE n = 0
    <3>1. c = 1
      BY <1>3, <2>3 DEF c, PageCount
    <3>2. QED
      BY <1>1, <2>1, <2>3, <3>1
  <2>4. CASE n # 0
    BY <1>1, <1>2, <1>3, <2>2, <2>4
  <2>5. QED
    BY <2>3, <2>4
<1>5. ASSUME NEW k \in 1 .. c
      PROVE  /\ upTo(k) \in Nat /\ upTo(k) <= n /\ upTo(k - 1) = (k - 1) * size
             /\ (k - 1) * size \in 0 .. upTo(k)
             /\ pages[k] = SubSeq(seq, upTo(k - 1) + 1, upTo(k))
  <2> DEFINE u == [ t EXCEPT !.page = k - 1 ]
  <2>1. k - 1 \in 0 .. c - 1 /\ k \in Nat
    BY <1>1
  <2>2. (k - 1) * size \in Nat /\ (k - 1) * size <= n /\ upTo(k - 1) = (k - 1) * size
    BY <1>4, <2>1
  <2>3. k * size = (k - 1) * size + size /\ k * size \in Nat
    BY <1>1, <2>1
  <2>4. u.size = size /\ u.page = k - 1
    BY DEF Tables, size
  <2>5. PageCount(u, seq) = c
    BY <2>4 DEF PageCount, c, size
  <2>6. SafePage(u, seq) = k - 1
    BY <1>1, <2>1, <2>4, <2>5 DEF SafePage
  <2>7. upTo(k) \in Nat /\ upTo(k) <= n /\ (k - 1) * size \in 0 .. upTo(k)
    BY <1>1, <2>2, <2>3
  <2>8. PageRows(u, seq) = SubSeq(seq, (k - 1) * size + 1, upTo(k))
    BY <2>3, <2>4, <2>6 DEF PageRows, n
  <2> HIDE DEF u
  <2>9. pages[k] = PageRows(u, seq)
    BY DEF u
  <2> HIDE DEF upTo, pages
  <2>10. QED
    BY <2>2, <2>7, <2>8, <2>9
<1>6. PageRows(t, seq) = pages[SafePage(t, seq) + 1]
  <2> DEFINE s == SafePage(t, seq)
             u == [ t EXCEPT !.page = s ]
  <2>1. s + 1 \in 1 .. c /\ (s + 1) - 1 = s
    BY <1>1
  <2>2. u.size = t.size /\ u.page = s
    BY DEF Tables
  <2>3. PageCount(u, seq) = c
    BY <2>2 DEF PageCount, c
  <2>4. SafePage(u, seq) = s
    <3>1. s \in 0 .. c - 1
      BY <1>1
    <3> HIDE DEF s
    <3>2. QED
      BY <1>1, <2>2, <2>3, <3>1 DEF SafePage
  <2>5. PageRows(u, seq) = PageRows(t, seq)
    <3>1. SafePage(u, seq) = SafePage(t, seq)
      BY <2>4
    <3> HIDE DEF u
    <3>2. QED
      BY <2>2, <3>1 DEF PageRows
  <2> HIDE DEF s
  <2>6. pages[s + 1] = PageRows(u, seq)
    BY <2>1
  <2>7. QED
    BY <2>5, <2>6 DEF s
<1>7. DOMAIN pages = 1 .. c
  OBVIOUS
<1>8. pages \in Seq(Seq(Exceptions)) /\ Len(pages) = c
  <2>1. ASSUME NEW k \in 1 .. c
        PROVE  pages[k] \in Seq(Exceptions)
    <3> HIDE DEF pages, upTo
    <3>1. upTo(k) \in Nat /\ upTo(k) <= n /\ upTo(k - 1) + 1 \in Nat \ { 0 }
      <4>1. upTo(k) \in Nat /\ upTo(k) <= n /\ upTo(k - 1) \in 0 .. upTo(k)
        BY <1>5
      <4>2. QED
        BY <4>1
    <3> DEFINE from == upTo(k - 1) + 1
               to == upTo(k)
    <3>2. pages[k] = SubSeq(seq, from, to)
      BY <1>5
    <3> HIDE DEF from, to
    <3>3. SubSeq(seq, from, to) \in Seq(Exceptions)
      BY <3>1 DEF from, to, n
    <3>4. QED
      BY <3>2, <3>3
  <2>2. pages \in [ 1 .. c -> Seq(Exceptions) ]
    BY <2>1
  <2> HIDE DEF pages
  <2>3. QED
    BY <1>1, <2>2
<1> HIDE DEF pages
<1>9. ASSUME seq # << >>
      PROVE  PageRows(t, seq) # << >>
  <2> DEFINE k == SafePage(t, seq) + 1
  <2>1. k \in 1 .. c
    BY <1>1
  <2>2. PageRows(t, seq) = pages[k]
    BY <1>6
  <2> HIDE DEF k
  <2>3. k - 1 \in 0 .. c - 1 /\ c - 1 \in Nat
    BY <1>1, <2>1
  <2>4. (k - 1) * size <= (c - 1) * size
    BY <1>1, <2>3
  <2>5. (k - 1) * size < n
    BY <1>1, <1>2, <1>4, <1>9, <2>3, <2>4
  <2>6. k * size = (k - 1) * size + size /\ (k - 1) * size \in Nat
    <3>1. k \in Nat
      BY <1>1, <2>1
    <3>2. (k - 1) * size \in Nat
      BY <1>4, <2>3
    <3>3. QED
      BY <1>1, <3>1, <3>2
  <2>7. (k - 1) * size < upTo(k)
    BY <1>1, <2>5, <2>6
  <2> DEFINE from == (k - 1) * size
             to == upTo(k)
  <2>8. from \in Nat /\ to \in Nat /\ to <= n /\ from < to /\ pages[k] = SubSeq(seq, from + 1, to)
    BY <1>5, <2>1, <2>6, <2>7
  <2> HIDE DEF from, to
  <2>9. Len(SubSeq(seq, from + 1, to)) = to - from
    BY <2>8 DEF n
  <2> DEFINE shown == SubSeq(seq, from + 1, to)
  <2>10. Len(shown) # 0 /\ PageRows(t, seq) = shown
    BY <2>2, <2>8, <2>9
  <2> HIDE DEF shown
  <2>11. QED
    BY <2>10
<1>10. FlattenSeq(pages) = seq
  <2>1. PICK F : /\ FlattenSeq(pages) = F[c]
                 /\ F[1] = pages[1]
                 /\ \A k \in 2 .. c : F[k] = F[k - 1] \o pages[k]
    BY <1>1, <1>8, FlattenSteps
  <2> DEFINE Q == { k \in 0 .. c : k = 0 \/ F[k] = SubSeq(seq, 1, upTo(k)) }
  <2>2. 0 \in Q
    BY <1>1
  <2>3. ASSUME NEW k \in Q, k < c
        PROVE  k + 1 \in Q
    <3>1. k \in 0 .. c /\ k + 1 \in 1 .. c /\ (k + 1) - 1 = k
      BY <1>1, <2>3
    <3>2. k = 0 \/ F[k] = SubSeq(seq, 1, upTo(k))
      OBVIOUS
    <3> DEFINE from == upTo(k)
               to == upTo(k + 1)
    <3>3. /\ to \in Nat /\ to <= n /\ from = k * size /\ from \in 0 .. to
          /\ pages[k + 1] = SubSeq(seq, from + 1, to)
      <4>1. k + 1 \in 1 .. c
        BY <3>1
      <4> HIDE DEF upTo
      <4>2. QED
        BY <1>5, <3>1, <4>1
    <3> HIDE DEF from, to, Q
    <3>4. F[k + 1] = SubSeq(seq, 1, to)
      <4>1. CASE k = 0
        <5>1. from = 0
          BY <1>1, <3>3, <4>1
        <5>2. QED
          BY <2>1, <3>1, <3>3, <4>1, <5>1
      <4>2. CASE k # 0
        <5>1. k + 1 \in 2 .. c
          BY <3>1, <4>2
        <5>2. F[k + 1] = F[k] \o pages[k + 1]
          BY <2>1, <3>1, <5>1
        <5>3. F[k + 1] = SubSeq(seq, 1, from) \o SubSeq(seq, from + 1, to)
          BY <3>2, <3>3, <4>2, <5>2 DEF from
        <5>4. from \in Nat /\ to \in from .. Len(seq) /\ from \in 1 - 1 .. Len(seq)
              /\ 1 \in 1 .. Len(seq) + 1
          BY <1>1, <3>3 DEF n
        <5>5. SubSeq(seq, 1, from) \o SubSeq(seq, from + 1, to) = SubSeq(seq, 1, to)
          BY <5>4, ConcatAdjacentSubSeq
        <5>6. QED
          BY <5>3, <5>5
      <4>3. QED
        BY <4>1, <4>2
    <3>5. QED
      BY <3>1, <3>4 DEF Q, to
  <2> HIDE DEF Q
  <2>4. Q \in SUBSET (0 .. c)
    BY DEF Q
  <2>5. Q = 0 .. c
    BY <1>1, <2>2, <2>3, <2>4, InductTo
  <2>6. F[c] = SubSeq(seq, 1, upTo(c))
    <3>1. c \in Q /\ c # 0
      BY <1>1, <2>5
    <3> HIDE DEF upTo
    <3>2. QED
      BY <3>1 DEF Q
  <2>7. upTo(c) = n
    BY <1>1
  <2>8. SubSeq(seq, 1, Len(seq)) = seq
    BY SubSeqFull
  <2>9. QED
    BY <2>1, <2>6, <2>7, <2>8 DEF n
<1>11. QED
  BY <1>9, <1>10 DEF pages, c

LEMMA TablesStay ==
    ASSUME NEW t \in Tables, NEW seq \in Seq(Exceptions)
    PROVE  /\ ToggleSort(t) \in Tables
           /\ \A size \in PageSizes : SetPageSize(t, size) \in Tables /\ NewTable(size) \in Tables
           /\ TurnPage(t, seq, TRUE) \in Tables
           /\ SafePage(t, seq) > 0 => TurnPage(t, seq, FALSE) \in Tables
           /\ \A r \in ToSet(PageRows(t, seq)) : ToggleOne(t, r) \in Tables
           /\ ToggleAll(t, seq) \in Tables
           /\ [ t EXCEPT !.selected = {} ] \in Tables
<1>1. SafePage(t, seq) \in Nat /\ ToSet(PageRows(t, seq)) \subseteq Exceptions
  BY PagesAre, PageRowsIn
<1>2. ToggleSort(t) \in Tables
  BY DEF Tables, Sorts, ToggleSort
<1>3. \A size \in PageSizes : SetPageSize(t, size) \in Tables /\ NewTable(size) \in Tables
  BY DEF Tables, Sorts, SetPageSize, NewTable
<1>4. TurnPage(t, seq, TRUE) \in Tables
  BY <1>1 DEF Tables, TurnPage
<1>5. SafePage(t, seq) > 0 => TurnPage(t, seq, FALSE) \in Tables
  BY <1>1 DEF Tables, TurnPage
<1>6. \A r \in ToSet(PageRows(t, seq)) : ToggleOne(t, r) \in Tables
  BY <1>1 DEF Tables, ToggleOne
<1>7. ToggleAll(t, seq) \in Tables
  <2> DEFINE here == ToSet(PageRows(t, seq))
             s == IF here # {} /\ here \subseteq t.selected THEN t.selected \ here
                  ELSE t.selected \cup here
  <2>1. t.selected \in SUBSET Exceptions
    BY DEF Tables
  <2>2. s \in SUBSET Exceptions
    BY <1>1, <2>1
  <2>3. ToggleAll(t, seq) = [ t EXCEPT !.selected = s ]
    BY DEF ToggleAll, Tables
  <2> HIDE DEF s
  <2>4. QED
    BY <2>2, <2>3 DEF Tables
<1>8. [ t EXCEPT !.selected = {} ] \in Tables
  BY DEF Tables
<1>9. QED
  BY <1>2, <1>3, <1>4, <1>5, <1>6, <1>7, <1>8

\* The page size a list starts with.
LEMMA LeastSize ==
    LET least == CHOOSE size \in PageSizes : \A other \in PageSizes : size <= other
    IN  least \in PageSizes
<1>1. PageSizes \subseteq Nat /\ PageSizes # {}
  BY PortalAssumption
<1>2. PICK n \in PageSizes : \A m \in PageSizes : n <= m
  BY <1>1, LeastOf
<1>3. QED
  BY <1>2

LEMMA QueueStays == Spec => []QueueOK
<1>1. Init => QueueOK
  <2> SUFFICES ASSUME Init PROVE QueueOK
    OBVIOUS
  <2>1. << >> \in Seq(Exceptions)
    OBVIOUS
  <2> DEFINE least == CHOOSE size \in PageSizes : \A other \in PageSizes : size <= other
  <2>2. least \in PageSizes
    BY LeastSize
  <2>3. table = NewTable(least) /\ page \in Pages /\ raised = Exceptions /\ clock = 1 /\ minute = 1
    BY DEF Init, Exceptions
  <2> HIDE DEF least
  <2>4. NewTable(least) \in Tables
    BY <2>2 DEF NewTable, Tables, Sorts
  <2>5. QED
    BY <2>3, <2>4 DEF QueueOK
<1>2. QueueOK /\ [Next]_vars => QueueOK'
  <2> SUFFICES ASSUME QueueOK, [Next]_vars PROVE QueueOK'
    OBVIOUS
  <2>1. /\ page \in Pages /\ raised \in SUBSET Exceptions
        /\ clock \in Nat /\ minute \in Nat /\ minute <= clock /\ table \in Tables
    BY DEF QueueOK
  <2>2. QueueRows \in Seq(Exceptions)
    BY <2>1, QueueRowsAre
  <2>3. ASSUME table' \in Tables, UNCHANGED <<page, raised, clock, minute>> PROVE QueueOK'
    BY <2>1, <2>3 DEF QueueOK
  <2>4. ASSUME UNCHANGED <<queue, raised, clock, minute>> PROVE QueueOK'
    BY <2>1, <2>4 DEF QueueOK, queue
  <2>27. CASE ClearFilters \/ \E new \in Areas : Focus(new)
    BY <2>1, <2>3, <2>27 DEF ClearFilters, Focus
  <2>5. ASSUME NEW t \in Tables, NEW s, Browse(t, s) PROVE QueueOK'
    BY <2>3, <2>5 DEF Browse
  <2>6. CASE BrowseTable
    <3>1. ToggleSort(table) \in Tables /\ TurnPage(table, QueueRows, TRUE) \in Tables
      BY <2>1, <2>2, TablesStay
    <3>2. \A size \in PageSizes : SetPageSize(table, size) \in Tables
      BY <2>1, <2>2, TablesStay
    <3>3. SafePage(table, QueueRows) > 0 => TurnPage(table, QueueRows, FALSE) \in Tables
      BY <2>1, <2>2, TablesStay
    <3>4. QED
      BY <2>5, <2>6, <3>1, <3>2, <3>3 DEF BrowseTable
  <2>7. CASE Select
    <3>1. \A r \in ToSet(PageRows(table, QueueRows)) : ToggleOne(table, r) \in Tables
      BY <2>1, <2>2, TablesStay
    <3>2. ToggleAll(table, QueueRows) \in Tables
      BY <2>1, <2>2, TablesStay
    <3>3. QED
      BY <2>5, <2>7, <3>1, <3>2 DEF Select
  <2>8. CASE FilterQueue
    BY <2>1, <2>5, <2>8 DEF FilterQueue
  <2>9. CASE BulkAction
    <3>1. PICK patch : Bulk(patch)
      BY <2>9 DEF BulkAction
    <3>2. table' = [ table EXCEPT !.selected = {} ] /\ UNCHANGED <<page, raised, clock, minute>>
      BY <3>1 DEF Bulk
    <3>3. [ table EXCEPT !.selected = {} ] \in Tables
      BY <2>1 DEF Tables
    <3>4. QED
      BY <2>3, <3>2, <3>3
  <2>10. ASSUME NEW t \in Tab, NEW e \in Exceptions, WorkInDrawer(t, e) PROVE QueueOK'
    <3>1. PICK new : Work(t, new)
      BY <2>10 DEF WorkInDrawer
    <3>2. QED
      BY <2>4, <3>1 DEF Work
  <2>11. ASSUME NEW job, Begin(job) PROVE QueueOK'
    BY <2>4, <2>11 DEF Begin
  <2>12. CASE ApplyBulk \/ AutoAssign \/ \E p \in Parcels : Act(p) \/ Assign(p)
    BY <2>11, <2>12 DEF ApplyBulk, AutoAssign, Act, Assign
  <2>13. ASSUME NEW to \in Pages, GoTo(to) PROVE QueueOK'
    <3> DEFINE least == CHOOSE size \in PageSizes : \A other \in PageSizes : size <= other
    <3>1. least \in PageSizes
      BY LeastSize
    <3>2. table' = NewTable(least) /\ page' = to /\ UNCHANGED <<raised, clock, minute>>
      BY <2>13 DEF GoTo
    <3> HIDE DEF least
    <3>3. NewTable(least) \in Tables
      BY <3>1 DEF NewTable, Tables, Sorts
    <3>4. QED
      BY <2>1, <3>2, <3>3 DEF QueueOK
  <2>14. ASSUME NEW role \in Roles, SwitchRole(role) PROVE QueueOK'
    BY <2>4, <2>14 DEF SwitchRole
  <2>15. ASSUME NEW user \in Users, Rename(user) PROVE QueueOK'
    BY <2>4, <2>15 DEF Rename
  <2>16. ASSUME NEW t \in Tab, Reload(t) PROVE QueueOK'
    <3>1. NewTable(table.size) \in Tables
      BY <2>1 DEF NewTable, Tables, Sorts
    <3>2. QED
      BY <2>1, <2>3, <2>16, <3>1 DEF Reload
  <2>17. ASSUME NEW k \in DOMAIN jobs, JobStep(k) PROVE QueueOK'
    BY <2>4, <2>17 DEF JobStep, TakesPatch, PassesOver, TransitionShipment, CallFails
  <2>18. ASSUME NEW e \in Exceptions, Detect(e) PROVE QueueOK'
    BY <2>1, <2>18 DEF Detect, QueueOK, queue
  <2>19. CASE TimePasses
    BY <2>1, <2>19 DEF TimePasses, QueueOK, queue
  <2>20. CASE MinutePasses
    BY <2>1, <2>20 DEF MinutePasses, QueueOK, queue
  <2>21. ASSUME NEW p \in Parcels, EngineMoves(p) \/ LiveEvent(p) PROVE QueueOK'
    BY <2>4, <2>21 DEF EngineMoves, LiveEvent
  <2>22. CASE RefreshRows
    BY <2>4, <2>22 DEF RefreshRows
  <2>23. CASE UNCHANGED vars
    BY <2>4, <2>23 DEF vars
  <2>24. CASE User
    BY <2>6, <2>7, <2>8, <2>27, <2>9, <2>10, <2>12, <2>13, <2>14, <2>15, <2>16, <2>24
       DEF User, Exceptions, Parcels
  <2>25. CASE Rest
    BY <2>17, <2>18, <2>19, <2>20, <2>21, <2>22, <2>25 DEF Rest, Exceptions, Parcels
  <2>26. QED
    BY <2>23, <2>24, <2>25 DEF Next
<1>3. QED
  BY <1>1, <1>2, PTL DEF Spec

(* However the queue is filtered, by area, type, priority or workflow,      *)
(* sorted and paged, and however far it has shrunk under the page that was  *)
(* turned to, its pages together are the rows, each once, and a page is     *)
(* empty only if there are none.                                            *)
THEOREM QueueShowsAll == Spec => []PagesShowTheRows
<1>1. QueueOK => PagesShowTheRows
  <2> SUFFICES ASSUME QueueOK PROVE PagesShowTheRows
    OBVIOUS
  <2>1. table \in Tables /\ QueueRows \in Seq(Exceptions)
    BY QueueRowsAre DEF QueueOK
  <2>2. /\ QueueRows # << >> => PageRows(table, QueueRows) # << >>
        /\ FlattenSeq([ n \in 1 .. PageCount(table, QueueRows) |->
                         PageRows([ table EXCEPT !.page = n - 1 ], QueueRows) ]) = QueueRows
    BY <2>1, PagesFlatten
  <2>3. QED
    BY <2>2 DEF PagesShowTheRows
<1>2. QED
  BY <1>1, QueueStays, PTL

----------------------------------------------------------------------------
\* Parcels and the handlers at work on them.

RowType == [ status : PackageStatus, node : Nodes \cup { None }, rider : Riders \cup { None } ]

\* What a log may tell of the server, and what the server may answer.
Accepts == { Written(status, p) : status \in PackageStatus, p \in Parcels }
Answers == { << >> } \cup (RowType \X Accepts)

JobTypes ==
    [ kind : { "bulk", "act", "assign", "auto" }, todo : Seq(Parcels \X RowType),
      status : PackageStatus \cup { None }, rider : Riders \cup { None }, shown : BOOLEAN,
      answer : Answers, base : [ Riders -> Nat ], given : [ Riders -> Nat ] ]

Free(job, r) == r \notin OffDuty /\ job.base[r] < Overloaded

Levelled(job) ==
    \A a, b \in Riders :
        /\ job.given[a] > 0 => Free(job, a)
        /\ CityOfRider[a] = CityOfRider[b] /\ Free(job, b) /\ job.given[a] > 0 =>
              job.base[a] + job.given[a] <= job.base[b] + job.given[b] + 1

Jobs == { job \in JobTypes : job.todo # << >> /\ (job.kind = "auto" => Levelled(job)) }

ParcelsOK ==
    /\ server \in [ Parcels -> RowType ] /\ rows \in [ Parcels -> RowType ]
    /\ jobs \in Seq(Jobs)

LEMMA ValidIsStatus ==
    ASSUME NEW current, NEW target, IsValidTransition(current, target)
    PROVE  current \in PackageStatus /\ target \in PackageStatus
  BY DEF IsValidTransition, Transitions, PackageStatus

LEMMA ParcelsFinite == IsFiniteSet(Parcels)
<1> DEFINE n == Len(Parcel)
           f == [ i \in 1 .. n |-> Parcel[i] ]
<1>1. n \in Nat /\ Parcels = { Parcel[i] : i \in 1 .. n }
  BY RosterAssumption DEF Parcels, ToSet
<1>2. f \in Surjection(1 .. n, Parcels)
  BY <1>1 DEF Surjection
<1>3. IsFiniteSet(1 .. n)
  BY <1>1, FS_Interval
<1> HIDE DEF f
<1>4. QED
  BY <1>2, <1>3, FS_Surjection

LEMMA LoadIs ==
    ASSUME rows \in [ Parcels -> RowType ], NEW r
    PROVE  Load(r) \in Nat
<1> DEFINE S == { p \in DOMAIN rows : rows[p].rider = r /\ ~IsTerminal(rows[p].status) }
<1>1. S \subseteq Parcels
  OBVIOUS
<1> HIDE DEF S
<1>2. Cardinality(S) \in Nat
  BY <1>1, ParcelsFinite, FS_Subset, FS_CardinalityType
<1>3. QED
  BY <1>2 DEF Load, S

Loads == [ Riders -> Nat ]

\* Of the riders it may choose it chooses one with the least.
LEMMA Recommended ==
    ASSUME NEW p, NEW base \in Loads, NEW given \in Loads,
           NEW r, r = RecommendRider(p, base, given), r # None
    PROVE  /\ r \in Riders /\ CityOfRider[r] = CityOfParcel[p]
           /\ r \notin OffDuty /\ base[r] < Overloaded
           /\ \A b \in Riders :
                CityOfRider[b] = CityOfParcel[p] /\ b \notin OffDuty /\ base[b] < Overloaded =>
                    base[r] + given[r] <= base[b] + given[b]
<1> DEFINE pool == Pool(p, base)
           load(i) == base[Rider[i]] + given[Rider[i]]
           short(i) == 100 - Score[Rider[i]]
           before(i, j) == \/ load(i) < load(j)
                           \/ /\ load(i) = load(j)
                              /\ \/ Score[Rider[i]] > Score[Rider[j]]
                                 \/ Score[Rider[i]] = Score[Rider[j]] /\ i <= j
           best == CHOOSE i \in pool : \A j \in pool : before(i, j)
<1>1. r = Rider[best] /\ pool # {}
  BY DEF RecommendRider
<1>2. Rider \in Seq(Riders) /\ Score \in [ Riders -> 0 .. 100 ]
  BY RosterAssumption DEF Riders
<1>3. \A i \in pool : /\ i \in Nat /\ Rider[i] \in Riders
                      /\ CityOfRider[Rider[i]] = CityOfParcel[p]
                      /\ Rider[i] \notin OffDuty /\ base[Rider[i]] < Overloaded
  BY <1>2 DEF Pool
<1>4. \A b \in Riders :
          CityOfRider[b] = CityOfParcel[p] /\ b \notin OffDuty /\ base[b] < Overloaded =>
              \E i \in pool : Rider[i] = b
  BY DEF Pool, Riders, ToSet
<1> HIDE DEF pool
<1>5. \A i \in pool : load(i) \in Nat /\ short(i) \in Nat /\ Score[Rider[i]] = 100 - short(i)
  <2> SUFFICES ASSUME NEW i \in pool
               PROVE  load(i) \in Nat /\ short(i) \in Nat /\ Score[Rider[i]] = 100 - short(i)
    OBVIOUS
  <2>1. Rider[i] \in Riders
    BY <1>3
  <2>2. base[Rider[i]] \in Nat /\ given[Rider[i]] \in Nat
    BY <2>1 DEF Loads
  <2>3. Score[Rider[i]] \in 0 .. 100
    BY <1>2, <2>1
  <2>4. load(i) \in Nat
    BY <2>2
  <2>5. short(i) \in Nat /\ Score[Rider[i]] = 100 - short(i)
    BY <2>3
  <2>6. QED
    BY <2>4, <2>5
<1> HIDE DEF load, short
<1>6. \E i \in pool : \A j \in pool : before(i, j)
  <2> DEFINE loads == { load(i) : i \in pool }
  <2>1. PICK l \in loads : \A m \in loads : l <= m
    <3>1. loads \subseteq Nat /\ loads # {}
      BY <1>1, <1>5
    <3> HIDE DEF loads
    <3>2. QED
      BY <3>1, LeastOf
  <2> DEFINE lightest == { i \in pool : load(i) = l }
             shorts == { short(i) : i \in lightest }
  <2>2. lightest # {} /\ lightest \subseteq pool /\ \A j \in pool : load(j) = l \/ load(j) > l
    <3>1. PICK i \in pool : load(i) = l
      BY <2>1
    <3>2. ASSUME NEW j \in pool PROVE load(j) = l \/ load(j) > l
      <4>1. l <= load(j) /\ l \in Nat /\ load(j) \in Nat
        BY <1>5, <2>1, <3>1
      <4>2. QED
        BY <4>1
    <3>3. QED
      BY <3>1, <3>2
  <2>3. PICK s \in shorts : \A m \in shorts : s <= m
    <3>1. shorts \subseteq Nat /\ shorts # {}
      BY <1>5, <2>2
    <3> HIDE DEF shorts
    <3>2. QED
      BY <3>1, LeastOf
  <2> DEFINE bests == { i \in lightest : short(i) = s }
  <2>4. bests # {} /\ bests \subseteq lightest
    BY <2>3
  <2>5. PICK i \in bests : \A m \in bests : i <= m
    <3>1. bests \subseteq Nat
      BY <1>3, <2>2, <2>4
    <3> HIDE DEF bests
    <3>2. QED
      BY <2>4, <3>1, LeastOf
  <2>6. i \in pool /\ load(i) = l /\ short(i) = s /\ i \in lightest
    BY <2>5
  <2>7. ASSUME NEW j \in pool
        PROVE  before(i, j)
    <3>1. CASE load(j) > l
      BY <1>5, <2>6, <3>1
    <3>2. CASE load(j) = l
      <4>1. j \in lightest /\ short(j) \in shorts
        BY <3>2
      <4>2. s <= short(j)
        BY <2>3, <4>1
      <4>3. CASE s = short(j)
        <5>1. j \in bests
          BY <4>1, <4>3
        <5>2. i <= j
          BY <2>5, <5>1
        <5>3. Score[Rider[i]] = Score[Rider[j]]
          BY <1>5, <2>6, <4>3
        <5>4. QED
          BY <2>6, <3>2, <5>2, <5>3
      <4>4. CASE s < short(j)
        <5>1. Score[Rider[i]] > Score[Rider[j]]
          BY <1>5, <2>6, <4>4
        <5>2. QED
          BY <2>6, <3>2, <5>1
      <4>5. s \in Nat /\ short(j) \in Nat
        BY <1>5, <2>6
      <4>6. QED
        BY <4>2, <4>3, <4>4, <4>5
    <3>3. QED
      BY <2>2, <3>1, <3>2
  <2>8. QED
    BY <2>6, <2>7
<1>7. best \in pool /\ \A j \in pool : before(best, j)
  <2> HIDE DEF before
  <2>1. QED
    BY <1>6
<1> HIDE DEF best
<1>8. ASSUME NEW j \in pool
      PROVE  load(best) <= load(j)
  BY <1>5, <1>7
<1>9. ASSUME NEW b \in Riders, CityOfRider[b] = CityOfParcel[p], b \notin OffDuty,
             base[b] < Overloaded
      PROVE  base[r] + given[r] <= base[b] + given[b]
  <2>1. PICK j \in pool : Rider[j] = b
    BY <1>4, <1>9
  <2>2. load(best) <= load(j)
    BY <1>8
  <2>3. QED
    BY <1>1, <2>1, <2>2 DEF load
<1>10. QED
  BY <1>1, <1>3, <1>7, <1>9

LEMMA JobIs ==
    ASSUME ParcelsOK, NEW kind \in { "bulk", "act", "assign", "auto" },
           NEW todo \in Seq(Parcels), todo # << >>,
           NEW status \in PackageStatus \cup { None }, NEW rider \in Riders \cup { None }
    PROVE  Job(kind, todo, status, rider) \in Jobs
<1> DEFINE pairs == [ i \in DOMAIN todo |-> <<todo[i], rows[todo[i]]>> ]
           base == [ r \in Riders |-> Load(r) ]
           given == [ r \in Riders |-> 0 ]
           job == Job(kind, todo, status, rider)
<1>1. rows \in [ Parcels -> RowType ]
  BY DEF ParcelsOK
<1>2. pairs \in Seq(Parcels \X RowType) /\ Len(pairs) = Len(todo)
  <2>1. \A i \in DOMAIN todo : pairs[i] \in Parcels \X RowType
    BY <1>1
  <2> HIDE DEF ParcelsOK
  <2>2. DOMAIN todo = 1 .. Len(todo) /\ Len(todo) \in Nat
    OBVIOUS
  <2>3. pairs \in [ 1 .. Len(todo) -> Parcels \X RowType ]
    BY <2>1, <2>2
  <2> HIDE DEF pairs
  <2>4. QED
    BY <2>2, <2>3
<1>3. pairs # << >>
  <2> HIDE DEF pairs
  <2>1. Len(todo) # 0
    OBVIOUS
  <2>2. QED
    BY <1>2, <2>1
<1>4. base \in [ Riders -> Nat ] /\ given \in [ Riders -> Nat ]
  BY <1>1, LoadIs
<1>5. job = [ kind |-> kind, todo |-> pairs, status |-> status, rider |-> rider, shown |-> TRUE,
              answer |-> << >>, base |-> base, given |-> given ]
  BY DEF Job, Riders
<1>6. \A r \in Riders : given[r] = 0
  OBVIOUS
<1> HIDE DEF pairs, base, given, job
<1>7. job \in JobTypes /\ job.todo # << >> /\ job.given = given
  BY <1>2, <1>3, <1>4, <1>5 DEF JobTypes, Answers
<1>8. Levelled(job)
  BY <1>6, <1>7 DEF Levelled
<1>9. QED
  BY <1>7, <1>8 DEF Jobs, job

LEMMA NextStatusIs ==
    ASSUME NEW row
    PROVE  NextStatusFor(row) \in PackageStatus \cup { None }
  BY DEF NextStatusFor, PackageStatus

LEMMA QueueIs == Queue \in Seq(Parcels)
<1>1. Parcel \in Seq(Parcels)
  BY RosterAssumption DEF Parcels
<1>2. QED
  BY <1>1, KeptIs DEF Queue

LEMMA JobsBegin ==
    ASSUME ParcelsOK, NEW p \in Parcels,
           ApplyBulk \/ AutoAssign \/ Act(p) \/ Assign(p)
    PROVE  \E job \in Jobs : Begin(job)
<1>1. << p >> \in Seq(Parcels) /\ << p >> # << >>
  OBVIOUS
<1>2. CASE ApplyBulk
  <2>0. PICK selected \in (SUBSET Parcels) \ { {} } : \E status \in CommonTransitions(selected) :
            Begin(Job("bulk", Kept(Parcel, selected), status, None))
    BY <1>2 DEF ApplyBulk, Parcels
  <2>1. PICK status \in CommonTransitions(selected) :
            Begin(Job("bulk", Kept(Parcel, selected), status, None))
    BY <2>0
  <2> DEFINE todo == Kept(Parcel, selected)
  <2>2. Parcel \in Seq(Parcels) /\ ToSet(Parcel) = Parcels
    BY RosterAssumption DEF Parcels
  <2>3. todo \in Seq(Parcels) /\ ToSet(todo) = ToSet(Parcel) \cap selected
    BY <2>2, KeptIs
  <2> HIDE DEF todo
  <2>4. ToSet(todo) # {}
    BY <2>0, <2>2, <2>3
  <2>5. todo # << >>
    BY <2>4 DEF ToSet
  <2>6. status \in PackageStatus
    BY <2>1 DEF CommonTransitions
  <2>7. Job("bulk", todo, status, None) \in Jobs
    BY <2>3, <2>5, <2>6, JobIs
  <2>8. QED
    BY <2>1, <2>7 DEF todo
<1>3. CASE AutoAssign
  <2> DEFINE n == IF Len(Queue) < Batch THEN Len(Queue) ELSE Batch
             todo == SubSeq(Queue, 1, n)
  <2>1. Queue # << >> /\ Begin(Job("auto", todo, None, None))
    BY <1>3 DEF AutoAssign
  <2>2. Queue \in Seq(Parcels) /\ Len(Queue) \in Nat /\ Len(Queue) # 0
    BY <2>1, QueueIs
  <2>3. n \in 1 .. Len(Queue)
    BY <2>2, PortalAssumption
  <2> HIDE DEF n
  <2>4. todo \in Seq(Parcels) /\ Len(todo) = n
    BY <2>2, <2>3
  <2> HIDE DEF todo
  <2>5. todo # << >>
    BY <2>3, <2>4
  <2>6. Job("auto", todo, None, None) \in Jobs
    BY <2>4, <2>5, JobIs
  <2>7. QED
    BY <2>1, <2>6
<1>4. CASE Act(p)
  <2>1. PICK status \in NextPossibleStatuses(rows[p].status), rider \in { None } \cup Riders :
            Begin(Job("act", << p >>, status, rider))
    BY <1>4 DEF Act, Riders
  <2>2. status \in PackageStatus
    BY <2>1 DEF NextPossibleStatuses
  <2>3. Job("act", << p >>, status, rider) \in Jobs
    BY <1>1, <2>2, JobIs
  <2>4. QED
    BY <2>1, <2>3
<1>5. CASE Assign(p)
  <2>1. PICK rider \in { None } \cup Riders :
            Begin(Job("assign", << p >>, NextStatusFor(rows[p]), rider))
    BY <1>5 DEF Assign, Riders
  <2>2. NextStatusFor(rows[p]) \in PackageStatus \cup { None }
    BY NextStatusIs
  <2>3. Job("assign", << p >>, NextStatusFor(rows[p]), rider) \in Jobs
    BY <1>1, <2>2, JobIs
  <2>4. QED
    BY <2>1, <2>3
<1>6. QED
  BY <1>2, <1>3, <1>4, <1>5

\* What a handler asks the server for, and to whom it gives the next parcel.
LEMMA AskedIs ==
    ASSUME NEW job \in Jobs
    PROVE  /\ Asked(job).parcel \in Parcels /\ Asked(job).node \in Nodes \cup { None }
           /\ Asked(job).status \in PackageStatus \cup { None }
           /\ Asked(job).rider \in Riders \cup { None }
           /\ job.kind = "auto" /\ Asked(job).rider # None =>
                /\ Asked(job).rider \in Riders /\ Free(job, Asked(job).rider)
                /\ \A b \in Riders :
                      CityOfRider[b] = CityOfRider[Asked(job).rider] /\ Free(job, b) =>
                          job.base[Asked(job).rider] + job.given[Asked(job).rider]
                              <= job.base[b] + job.given[b]
<1> DEFINE p == job.todo[1][1]
           row == job.todo[1][2]
           rider == IF job.kind = "auto" THEN RecommendRider(p, job.base, job.given) ELSE job.rider
           status == IF job.kind = "auto" THEN NextStatusFor(row) ELSE job.status
<1>2. /\ job \in JobTypes /\ job.todo \in Seq(Parcels \X RowType) /\ job.todo # << >>
      /\ job.rider \in Riders \cup { None } /\ job.status \in PackageStatus \cup { None }
      /\ job.base \in [ Riders -> Nat ] /\ job.given \in [ Riders -> Nat ]
  BY DEF Jobs, JobTypes
<1>3. p \in Parcels /\ row \in RowType
  <2>1. job.todo[1] \in Parcels \X RowType
    BY <1>2
  <2>2. QED
    BY <1>2, <2>1
<1>4. job.kind = "auto" /\ rider # None =>
          /\ rider \in Riders /\ CityOfRider[rider] = CityOfParcel[p] /\ Free(job, rider)
          /\ \A b \in Riders :
                CityOfRider[b] = CityOfParcel[p] /\ Free(job, b) =>
                    job.base[rider] + job.given[rider] <= job.base[b] + job.given[b]
  <2> SUFFICES ASSUME job.kind = "auto", rider # None
               PROVE  /\ rider \in Riders /\ CityOfRider[rider] = CityOfParcel[p] /\ Free(job, rider)
                      /\ \A b \in Riders :
                            CityOfRider[b] = CityOfParcel[p] /\ Free(job, b) =>
                                job.base[rider] + job.given[rider] <= job.base[b] + job.given[b]
    OBVIOUS
  <2>1. rider = RecommendRider(p, job.base, job.given)
    OBVIOUS
  <2>2. job.base \in Loads /\ job.given \in Loads
    BY <1>2 DEF Loads
  <2> HIDE DEF rider, p
  <2>3. QED
    BY <2>1, <2>2, Recommended DEF Free
<1>5. rider \in Riders \cup { None }
  BY <1>2, <1>4
<1>6. status \in PackageStatus \cup { None }
  BY <1>2, NextStatusIs
<1>7. row.node \in Nodes \cup { None }
  BY <1>3 DEF RowType
<1>8. Asked(job) = [ parcel |-> p, node |-> row.node, status |-> status, rider |-> rider ]
  BY DEF Asked
<1> HIDE DEF rider, p, row, status
<1>9. QED
  BY <1>3, <1>4, <1>5, <1>6, <1>7, <1>8

\* Of a sequence without its k-th element the others are left.
LEMMA WithoutIs ==
    ASSUME NEW S, NEW seq \in Seq(S), NEW k \in DOMAIN seq
    PROVE  /\ Without(seq, k) \in Seq(S)
           /\ \A i \in DOMAIN seq \ { k } : \E j \in DOMAIN Without(seq, k) : Without(seq, k)[j] = seq[i]
           /\ \A j \in DOMAIN Without(seq, k) : \E i \in DOMAIN seq : Without(seq, k)[j] = seq[i]
<1> DEFINE before == SubSeq(seq, 1, k - 1)
           after == SubSeq(seq, k + 1, Len(seq))
           L == Len(seq)
<1>1. L \in Nat /\ k \in 1 .. L /\ DOMAIN seq = 1 .. L
  OBVIOUS
<1>2. before \in Seq(S) /\ after \in Seq(S) /\ Len(before) = k - 1 /\ Len(after) = L - k
  BY <1>1
<1>3. /\ \A i \in 1 .. (k - 1) : before[i] = seq[i]
      /\ \A i \in 1 .. (L - k) : after[i] = seq[k + i]
  BY <1>1
<1>4. Without(seq, k) = before \o after
  BY DEF Without
<1> DEFINE cat == before \o after
<1>5. /\ cat \in Seq(S) /\ Len(cat) = Len(before) + Len(after)
      /\ \A i \in 1 .. (Len(before) + Len(after)) :
           cat[i] = IF i <= Len(before) THEN before[i] ELSE after[i - Len(before)]
  BY <1>2, ConcatProperties
<1> HIDE DEF before, after, L, cat
<1>6. DOMAIN cat = 1 .. (L - 1)
  <2>1. Len(cat) = L - 1
    BY <1>1, <1>2, <1>5
  <2>2. QED
    BY <1>5, <2>1
<1>7. \A j \in 1 .. (L - 1) : cat[j] = IF j <= k - 1 THEN before[j] ELSE after[j - (k - 1)]
  BY <1>1, <1>2, <1>5
<1>8. \A j \in 1 .. (L - 1) : cat[j] = IF j <= k - 1 THEN seq[j] ELSE seq[j + 1]
  <2> SUFFICES ASSUME NEW j \in 1 .. (L - 1)
               PROVE  cat[j] = IF j <= k - 1 THEN seq[j] ELSE seq[j + 1]
    OBVIOUS
  <2>1. CASE j <= k - 1
    BY <1>1, <1>3, <1>7, <2>1
  <2>2. CASE ~(j <= k - 1)
    <3>1. j - (k - 1) \in 1 .. (L - k) /\ k + (j - (k - 1)) = j + 1
      BY <1>1, <2>2
    <3>2. after[j - (k - 1)] = seq[j + 1]
      BY <1>3, <3>1
    <3>3. QED
      BY <1>7, <2>2, <3>2
  <2>3. QED
    BY <2>1, <2>2
<1>9. ASSUME NEW i \in DOMAIN seq \ { k }
      PROVE  \E j \in DOMAIN cat : cat[j] = seq[i]
  <2>1. CASE i < k
    BY <1>1, <1>6, <1>8, <2>1
  <2>2. CASE i > k
    <3>1. PICK j \in Int : j = i - 1
      BY <1>1
    <3>2. j \in 1 .. (L - 1) /\ ~(j <= k - 1) /\ j + 1 = i
      BY <1>1, <2>2, <3>1
    <3>3. QED
      BY <1>6, <1>8, <3>2
  <2>3. QED
    BY <1>1, <2>1, <2>2
<1>10. ASSUME NEW j \in DOMAIN cat
       PROVE  \E i \in DOMAIN seq : cat[j] = seq[i]
  <2>1. j \in 1 .. L /\ j + 1 \in 1 .. L
    BY <1>1, <1>6
  <2>2. cat[j] = seq[j] \/ cat[j] = seq[j + 1]
    BY <1>6, <1>8
  <2>3. QED
    BY <1>1, <2>1, <2>2
<1>11. QED
  BY <1>4, <1>5, <1>9, <1>10 DEF cat

\* The loop goes on: a batch stays level, and no other handler is touched.
LEMMA GoesOnIs ==
    ASSUME ParcelsOK, NEW k \in DOMAIN jobs, GoesOn(k)
    PROVE  /\ jobs' \in Seq(Jobs)
           /\ \A i \in DOMAIN jobs \ { k } : \E j \in DOMAIN jobs' : jobs'[j] = jobs[i]
           /\ \A j \in DOMAIN jobs' :
                jobs'[j].answer = << >> \/ \E i \in DOMAIN jobs : jobs'[j] = jobs[i]
<1> DEFINE job == jobs[k]
           rider == IF job.kind = "auto" THEN Asked(job).rider ELSE None
           given == IF rider # None THEN [ job.given EXCEPT ![rider] = @ + 1 ] ELSE job.given
           on == [ job EXCEPT !.todo = Tail(@), !.answer = << >>, !.given = given ]
<1>1. jobs \in Seq(Jobs) /\ job \in Jobs
  BY DEF ParcelsOK
<1>2. /\ job \in JobTypes /\ job.todo \in Seq(Parcels \X RowType) /\ job.todo # << >>
      /\ job.base \in [ Riders -> Nat ] /\ job.given \in [ Riders -> Nat ]
      /\ job.kind = "auto" => Levelled(job)
  BY <1>1 DEF Jobs, JobTypes
<1>3. Tail(job.todo) \in Seq(Parcels \X RowType)
  BY <1>2
<1>4. rider # None =>
          /\ rider \in Riders /\ Free(job, rider)
          /\ \A b \in Riders :
                CityOfRider[b] = CityOfRider[rider] /\ Free(job, b) =>
                    job.base[rider] + job.given[rider] <= job.base[b] + job.given[b]
  BY <1>1, AskedIs
<1>6. jobs' = IF on.todo = << >> THEN Without(jobs, k) ELSE [ jobs EXCEPT ![k] = on ]
  BY DEF GoesOn, Asks
<1> HIDE DEF rider
<1>8. given \in [ Riders -> Nat ]
  BY <1>2, <1>4
<1>9. job.kind = "auto" =>
          \A a, b \in Riders :
              /\ given[a] > 0 => Free(job, a)
              /\ CityOfRider[a] = CityOfRider[b] /\ Free(job, b) /\ given[a] > 0 =>
                    job.base[a] + given[a] <= job.base[b] + given[b] + 1
  <2> SUFFICES ASSUME job.kind = "auto", NEW a \in Riders, NEW b \in Riders
               PROVE  /\ given[a] > 0 => Free(job, a)
                      /\ CityOfRider[a] = CityOfRider[b] /\ Free(job, b) /\ given[a] > 0 =>
                            job.base[a] + given[a] <= job.base[b] + given[b] + 1
    OBVIOUS
  <2>1. /\ job.given[a] > 0 => Free(job, a)
        /\ CityOfRider[a] = CityOfRider[b] /\ Free(job, b) /\ job.given[a] > 0 =>
              job.base[a] + job.given[a] <= job.base[b] + job.given[b] + 1
    BY <1>2 DEF Levelled
  <2>2. CASE rider = None
    BY <2>1, <2>2
  <2>3. CASE rider # None
    <3>1. given = [ job.given EXCEPT ![rider] = @ + 1 ]
      BY <2>3
    <3> HIDE DEF given, job
    <3>2. /\ job.given[a] \in Nat /\ job.given[b] \in Nat /\ job.base[a] \in Nat /\ job.base[b] \in Nat
          /\ given[a] = IF a = rider THEN job.given[a] + 1 ELSE job.given[a]
          /\ given[b] = IF b = rider THEN job.given[b] + 1 ELSE job.given[b]
      BY <1>2, <3>1
    <3>3. CASE a = rider
      <4>1. Free(job, a)
        BY <1>4, <2>3, <3>3
      <4>2. CityOfRider[a] = CityOfRider[b] /\ Free(job, b) =>
                job.base[a] + job.given[a] <= job.base[b] + job.given[b]
        BY <1>4, <2>3, <3>3
      <4>3. CityOfRider[a] = CityOfRider[b] /\ Free(job, b) =>
                job.base[a] + given[a] <= job.base[b] + given[b] + 1
        BY <3>2, <3>3, <4>2
      <4>4. QED
        BY <4>1, <4>3
    <3>4. CASE a # rider
      BY <2>1, <3>2, <3>4
    <3>5. QED
      BY <3>3, <3>4
  <2>4. QED
    BY <2>2, <2>3
<1> HIDE DEF given
<1>10. /\ on \in JobTypes
       /\ on.kind = job.kind /\ on.base = job.base /\ on.given = given /\ on.answer = << >>
  BY <1>2, <1>3, <1>8 DEF JobTypes, Answers
<1>11. on.todo # << >> => on \in Jobs
  <2> HIDE DEF on, job
  <2>1. on.kind = "auto" => Levelled(on)
    BY <1>9, <1>10 DEF Levelled, Free
  <2>2. QED
    BY <1>10, <2>1 DEF Jobs
<1>12. /\ Without(jobs, k) \in Seq(Jobs)
       /\ \A i \in DOMAIN jobs \ { k } : \E j \in DOMAIN Without(jobs, k) : Without(jobs, k)[j] = jobs[i]
       /\ \A j \in DOMAIN Without(jobs, k) : \E i \in DOMAIN jobs : Without(jobs, k)[j] = jobs[i]
  BY <1>1, WithoutIs
<1>13. CASE on.todo = << >>
  BY <1>6, <1>12, <1>13
<1>14. CASE on.todo # << >>
  <2> HIDE DEF on
  <2>1. jobs' = [ jobs EXCEPT ![k] = on ] /\ on \in Jobs
    BY <1>6, <1>11, <1>14
  <2>2. jobs' \in Seq(Jobs) /\ DOMAIN jobs' = DOMAIN jobs
    BY <1>1, <2>1
  <2>3. jobs'[k] = on /\ \A i \in DOMAIN jobs \ { k } : jobs'[i] = jobs[i]
    BY <1>1, <2>1
  <2>4. QED
    BY <1>10, <2>2, <2>3
<1>15. QED
  BY <1>13, <1>14

\* The server accepts: a row for a row, and the handler is told of it later.
LEMMA TakesIs ==
    ASSUME ParcelsOK, NEW k \in DOMAIN jobs, TakesPatch(k)
    PROVE  /\ server' \in [ Parcels -> RowType ] /\ jobs' \in Seq(Jobs)
           /\ \E entry \in Accepts :
                accepted' = accepted \cup { entry } /\ InFlight' = InFlight \cup { entry }
<1> DEFINE job == jobs[k]
           ask == Asked(job)
           row == Patched(ask.parcel, ask.status, ask.node, ask.rider)
           entry == EntryOf(job)
           on == [ job EXCEPT !.answer = <<row, entry>> ]
<1>1. jobs \in Seq(Jobs) /\ job \in Jobs /\ server \in [ Parcels -> RowType ]
  BY DEF ParcelsOK
<1>2. /\ ask.parcel \in Parcels /\ ask.node \in Nodes \cup { None }
      /\ ask.rider \in Riders \cup { None }
  BY <1>1, AskedIs
<1>3. /\ IsValidTransition(server[ask.parcel].status, ask.status)
      /\ server' = [ server EXCEPT ![ask.parcel] = row ]
      /\ jobs' = [ jobs EXCEPT ![k].answer = <<row, entry>> ]
      /\ accepted' = accepted \cup { entry }
      /\ job.answer = << >>
  BY DEF TakesPatch
<1>4. entry = Written(ask.status, ask.parcel)
  BY DEF EntryOf
<1> HIDE DEF ask
<1>5. ask.status \in PackageStatus
  BY <1>3, ValidIsStatus
<1>6. server[ask.parcel].node \in Nodes \cup { None } /\ server[ask.parcel].rider \in Riders \cup { None }
  <2>1. server[ask.parcel] \in RowType
    BY <1>1, <1>2
  <2>2. QED
    BY <2>1 DEF RowType
<1>7. row \in RowType
  BY <1>2, <1>5, <1>6 DEF Patched, Row, RowType
<1>8. entry \in Accepts
  BY <1>2, <1>4, <1>5 DEF Accepts
<1> HIDE DEF row, entry
<1>9. server' \in [ Parcels -> RowType ]
  BY <1>1, <1>2, <1>3, <1>7
<1>10. <<row, entry>> \in Answers /\ <<row, entry>> # << >> /\ <<row, entry>>[2] = entry
  BY <1>7, <1>8 DEF Answers
<1>11. jobs' = [ jobs EXCEPT ![k] = on ]
  BY <1>1, <1>3
<1>12. on \in JobTypes /\ on.answer = <<row, entry>> /\ on.todo = job.todo /\ on.kind = job.kind
       /\ on.base = job.base /\ on.given = job.given
  <2> HIDE DEF job
  <2>1. QED
    BY <1>1, <1>10 DEF Jobs, JobTypes
<1> HIDE DEF on
<1>13. on \in Jobs
  BY <1>1, <1>12 DEF Jobs, Levelled, Free
<1>14. jobs' \in Seq(Jobs) /\ DOMAIN jobs' = DOMAIN jobs
  BY <1>1, <1>11, <1>13
<1>15. jobs'[k] = on /\ \A i \in DOMAIN jobs \ { k } : jobs'[i] = jobs[i]
  BY <1>1, <1>11
<1>16. InFlight' = { jobs'[i].answer[2] : i \in { j \in DOMAIN jobs' : jobs'[j].answer # << >> } }
  BY DEF InFlight
<1>17. InFlight' = InFlight \cup { entry }
  BY <1>3, <1>10, <1>12, <1>14, <1>15, <1>16 DEF InFlight
<1>18. QED
  BY <1>3, <1>8, <1>9, <1>14, <1>17

\* Of what is in flight, only what the handler is done with is in flight no longer.
LEMMA StaysInFlight ==
    ASSUME ParcelsOK, NEW k \in DOMAIN jobs, GoesOn(k)
    PROVE  /\ jobs[k].answer = << >> => InFlight \subseteq InFlight'
           /\ InFlight \ { jobs[k].answer[2] } \subseteq InFlight' /\ InFlight' \subseteq InFlight
<1>1. /\ \A i \in DOMAIN jobs \ { k } : \E j \in DOMAIN jobs' : jobs'[j] = jobs[i]
      /\ \A j \in DOMAIN jobs' :
           jobs'[j].answer = << >> \/ \E i \in DOMAIN jobs : jobs'[j] = jobs[i]
  BY GoesOnIs
<1>2. InFlight' = { jobs'[i].answer[2] : i \in { j \in DOMAIN jobs' : jobs'[j].answer # << >> } }
  BY DEF InFlight
<1>3. ASSUME NEW i \in DOMAIN jobs \ { k }, jobs[i].answer # << >>
      PROVE  jobs[i].answer[2] \in InFlight'
  <2>1. PICK j \in DOMAIN jobs' : jobs'[j] = jobs[i]
    BY <1>1
  <2>2. QED
    BY <1>2, <1>3, <2>1
<1>4. InFlight' \subseteq InFlight
  BY <1>1, <1>2 DEF InFlight
<1>5. QED
  BY <1>3, <1>4 DEF InFlight

\* One turn of the loop.
LEMMA TurnIs ==
    ASSUME ParcelsOK, NEW k \in DOMAIN jobs, JobStep(k)
    PROVE  /\ server' \in [ Parcels -> RowType ] /\ rows' \in [ Parcels -> RowType ]
           /\ jobs' \in Seq(Jobs)
<1>1. server \in [ Parcels -> RowType ] /\ rows \in [ Parcels -> RowType ] /\ jobs[k] \in Jobs
  BY DEF ParcelsOK
<1>2. CASE TakesPatch(k)
  <2>1. rows' = rows
    BY <1>2 DEF TakesPatch
  <2>2. QED
    BY <1>1, <1>2, <2>1, TakesIs
<1>3. CASE PassesOver(k) \/ CallFails(k)
  <2>1. UNCHANGED <<server, rows>> /\ GoesOn(k)
    BY <1>3 DEF PassesOver, CallFails
  <2>2. QED
    BY <1>1, <2>1, GoesOnIs
<1>4. CASE TransitionShipment(k)
  <2> DEFINE answer == jobs[k].answer
  <2>1. /\ answer # << >> /\ GoesOn(k) /\ server' = server
        /\ rows' = [ rows EXCEPT ![answer[2].target] = answer[1] ]
    BY <1>4 DEF TransitionShipment
  <2>2. answer \in RowType \X Accepts
    BY <1>1, <2>1 DEF Jobs, JobTypes, Answers
  <2>3. answer[1] \in RowType /\ answer[2] \in Accepts
    BY <2>2
  <2>4. rows' \in [ Parcels -> RowType ]
    BY <1>1, <2>1, <2>3
  <2>5. QED
    BY <1>1, <2>1, <2>4, GoesOnIs
<1>5. QED
  BY <1>2, <1>3, <1>4 DEF JobStep

LEMMA ParcelsStay == Spec => []ParcelsOK
<1>1. Init => ParcelsOK
  <2> SUFFICES ASSUME Init PROVE ParcelsOK
    OBVIOUS
  <2>1. server = Start /\ rows = Start /\ jobs = << >>
    BY DEF Init
  <2>2. Start \in [ Parcels -> RowType ]
    BY RosterAssumption DEF Parcels, RowType, Riders
  <2>3. << >> \in Seq(Jobs)
    OBVIOUS
  <2>4. QED
    BY <2>1, <2>2, <2>3 DEF ParcelsOK
<1>2. ParcelsOK /\ [Next]_vars => ParcelsOK'
  <2> SUFFICES ASSUME ParcelsOK, [Next]_vars PROVE ParcelsOK'
    OBVIOUS
  <2>1. /\ server \in [ Parcels -> RowType ] /\ rows \in [ Parcels -> RowType ]
        /\ jobs \in Seq(Jobs)
    BY DEF ParcelsOK
  <2>2. ASSUME UNCHANGED <<server, rows, jobs>> PROVE ParcelsOK'
    BY <2>1, <2>2 DEF ParcelsOK
  <2>3. CASE BrowseTable \/ Select \/ FilterQueue
    <3>1. PICK t, s : Browse(t, s)
      BY <2>3 DEF BrowseTable, Select, FilterQueue
    <3>2. QED
      BY <2>2, <3>1 DEF Browse, parcels
  <2>23. CASE ClearFilters \/ \E new \in Areas : Focus(new)
    BY <2>2, <2>23 DEF ClearFilters, Focus, parcels
  <2>4. CASE BulkAction
    BY <2>2, <2>4 DEF BulkAction, Bulk, parcels
  <2>5. ASSUME NEW t \in Tab, NEW e \in Exceptions, WorkInDrawer(t, e) PROVE ParcelsOK'
    <3>1. PICK new : Work(t, new)
      BY <2>5 DEF WorkInDrawer
    <3>2. QED
      BY <2>2, <3>1 DEF Work, parcels
  <2>6. ASSUME NEW job \in Jobs, Begin(job) PROVE ParcelsOK'
    BY <2>1, <2>6 DEF Begin, ParcelsOK
  <2>7. CASE ApplyBulk \/ AutoAssign
    <3>1. CASE Parcels = {}
      <4>1. Parcel \in Seq(Parcels)
        BY RosterAssumption DEF Parcels
      <4>2. ~ApplyBulk
        BY <3>1 DEF ApplyBulk, Parcels
      <4>3. Queue \in Seq(Parcels) /\ Queue # << >>
        BY <2>7, <4>2, QueueIs DEF AutoAssign
      <4>4. Queue[1] \in Parcels
        BY <4>3
      <4>5. QED
        BY <3>1, <4>4
    <3>2. CASE Parcels # {}
      <4>1. PICK p \in Parcels : TRUE
        BY <3>2
      <4>2. \E job \in Jobs : Begin(job)
        BY <2>7, <4>1, JobsBegin
      <4>3. QED
        BY <2>6, <4>2
    <3>3. QED
      BY <3>1, <3>2
  <2>8. ASSUME NEW p \in Parcels, Act(p) \/ Assign(p) PROVE ParcelsOK'
    <3>1. \E job \in Jobs : Begin(job)
      BY <2>8, JobsBegin
    <3>2. QED
      BY <2>6, <3>1
  <2>9. ASSUME NEW to \in Pages, GoTo(to) PROVE ParcelsOK'
    <3> DEFINE new == [ k \in DOMAIN jobs |-> [ jobs[k] EXCEPT !.shown = FALSE ] ]
    <3>1. jobs' = new /\ UNCHANGED <<server, rows>>
      BY <2>9 DEF GoTo
    <3>2. ASSUME NEW k \in DOMAIN jobs PROVE new[k] \in Jobs
      <4> DEFINE job == jobs[k]
                 off == [ job EXCEPT !.shown = FALSE ]
      <4>1. job \in Jobs
        BY <2>1
      <4> HIDE DEF job
      <4>2. off \in JobTypes
        BY <4>1 DEF Jobs, JobTypes
      <4>3. off.todo = job.todo /\ off.kind = job.kind /\ off.base = job.base /\ off.given = job.given
        BY <4>1 DEF Jobs, JobTypes
      <4> HIDE DEF off
      <4>4. off \in Jobs
        BY <4>1, <4>2, <4>3 DEF Jobs, Levelled, Free
      <4>5. QED
        BY <4>4 DEF off, job
    <3>3. new \in Seq(Jobs)
      <4>1. DOMAIN jobs = 1 .. Len(jobs) /\ Len(jobs) \in Nat
        BY <2>1
      <4>2. new \in [ 1 .. Len(jobs) -> Jobs ]
        BY <3>2, <4>1
      <4> HIDE DEF new
      <4>3. QED
        BY <4>1, <4>2
    <3>4. QED
      BY <2>1, <3>1, <3>3 DEF ParcelsOK
  <2>10. ASSUME NEW role \in Roles, SwitchRole(role) PROVE ParcelsOK'
    BY <2>2, <2>10 DEF SwitchRole, parcels
  <2>11. ASSUME NEW user \in Users, Rename(user) PROVE ParcelsOK'
    BY <2>2, <2>11 DEF Rename, parcels
  <2>12. ASSUME NEW t \in Tab, Reload(t) PROVE ParcelsOK'
    <3>1. CASE t = There
      BY <2>2, <2>12, <3>1 DEF Reload
    <3>2. CASE t # There
      BY <2>1, <2>12, <3>2 DEF Reload, ParcelsOK
    <3>3. QED
      BY <3>1, <3>2
  <2>13. ASSUME NEW k \in DOMAIN jobs, JobStep(k) PROVE ParcelsOK'
    BY <2>13, TurnIs DEF ParcelsOK
  <2>14. ASSUME NEW e \in Exceptions, Detect(e) PROVE ParcelsOK'
    BY <2>2, <2>14 DEF Detect, parcels
  <2>15. CASE TimePasses \/ MinutePasses
    BY <2>2, <2>15 DEF TimePasses, MinutePasses, parcels
  <2>16. ASSUME NEW p \in Parcels, EngineMoves(p) PROVE ParcelsOK'
    <3>1. PICK status \in NextPossibleStatuses(server[p].status), node \in Nodes :
              server' = [ server EXCEPT ![p] = Row(status, node, server[p].rider) ]
      BY <2>16 DEF EngineMoves
    <3>2. server[p] \in RowType /\ status \in PackageStatus
      BY <2>1, <3>1 DEF NextPossibleStatuses
    <3>3. Row(status, node, server[p].rider) \in RowType
      BY <3>2 DEF Row, RowType
    <3>4. UNCHANGED <<rows, jobs>>
      BY <2>16 DEF EngineMoves
    <3>5. QED
      BY <2>1, <3>1, <3>3, <3>4 DEF ParcelsOK
  <2>17. ASSUME NEW p \in Parcels, LiveEvent(p) PROVE ParcelsOK'
    <3>1. server[p] \in RowType /\ rows[p] \in RowType
      BY <2>1
    <3>2. [ rows[p] EXCEPT !.status = server[p].status ] \in RowType
      BY <3>1 DEF RowType
    <3>3. rows' = [ rows EXCEPT ![p] = [ rows[p] EXCEPT !.status = server[p].status ] ]
          /\ UNCHANGED <<server, jobs>>
      BY <2>17 DEF LiveEvent
    <3>4. QED
      BY <2>1, <3>2, <3>3 DEF ParcelsOK
  <2>18. CASE RefreshRows
    BY <2>1, <2>18 DEF RefreshRows, ParcelsOK
  <2>19. CASE UNCHANGED vars
    BY <2>2, <2>19 DEF vars, parcels
  <2>20. CASE User
    BY <2>3, <2>23, <2>4, <2>5, <2>7, <2>8, <2>9, <2>10, <2>11, <2>12, <2>20
       DEF User, Exceptions, Parcels
  <2>21. CASE Rest
    BY <2>13, <2>14, <2>15, <2>16, <2>17, <2>18, <2>21 DEF Rest, Exceptions, Parcels
  <2>22. QED
    BY <2>19, <2>20, <2>21 DEF Next
<1>3. QED
  BY <1>1, <1>2, PTL DEF Spec

(* A batch, as far as it has come, has been spread over the riders of each  *)
(* city as evenly as their loads allow, whatever has happened since.        *)
THEOREM BatchesLevel == Spec => []AutoAssignLevels
<1>1. ParcelsOK => AutoAssignLevels
  <2> SUFFICES ASSUME ParcelsOK, NEW k \in DOMAIN jobs, jobs[k].kind = "auto"
               PROVE  Levelled(jobs[k])
    BY DEF AutoAssignLevels, Levelled, Free, Riders
  <2>1. jobs[k] \in Jobs
    BY DEF ParcelsOK
  <2>2. QED
    BY <2>1 DEF Jobs
<1>2. QED
  BY <1>1, ParcelsStay, PTL

----------------------------------------------------------------------------
\* The log.

\* What has been accepted has to be told, but for what is awaited or excused.
Due == accepted \ (excused \cup InFlight)

Holds(o, w) == Len(o.audit) < MaxAudit => w \subseteq Told(o)

\* What is due is told in this tab, in localStorage until the other tab saves its
\* own over it, and in the other tab once that has loaded it.
LogOK ==
    /\ DOMAIN ops = Tab
    /\ \A t \in Tab : OpsOK(ops[t]) /\ Audited(ops[t]) /\ Told(ops[t]) \subseteq accepted
    /\ OpsOK(stored) /\ Audited(stored) /\ Told(stored) \subseteq accepted
    /\ Holds(ops[Here], Due)
    /\ held # "overwritten" => Holds(stored, Due)
    /\ held = "known" => Holds(ops[There], Due)
    /\ InFlight \subseteq accepted

\* More entries do no harm.
LEMMA LoggedIsAudited ==
    ASSUME NEW o, OpsOK(o), Audited(o), NEW new \in Seq(What)
    PROVE  Audited(LogActions(o, new))
<1> DEFINE q == LogActions(o, new)
           fresh == { Entry(o, new[i]) : i \in DOMAIN new }
<1>1. /\ q.exceptions = o.exceptions
      /\ Len(q.audit) < MaxAudit =>
           Len(o.audit) < MaxAudit /\ ToSet(q.audit) = fresh \cup ToSet(o.audit)
  BY Logged
<1> HIDE DEF q, fresh
<1>2. Audited(q)
  BY <1>1 DEF Audited
<1>3. QED
  BY <1>2 DEF q

LEMMA LocalEntry ==
    ASSUME NEW o, OpsOK(o), Audited(o), NEW action \in Actions, NEW target \in Targets
    PROVE  LET q == LogAction(o, Local(action, target))
           IN  OpsOK(q) /\ Audited(q) /\ TellsTheSame(o, q)
<1> DEFINE what == Local(action, target)
           new == << what >>
<1>1. what \in What /\ what.scope = "local"
  BY DEF Local, What, Scopes
<1> HIDE DEF what
<1>2. new \in Seq(What) /\ \A i \in DOMAIN new : new[i].scope = "local"
  BY <1>1
<1> HIDE DEF new
<1>3. OpsOK(LogActions(o, new)) /\ Audited(LogActions(o, new)) /\ TellsTheSame(o, LogActions(o, new))
  BY <1>2, Logged, LoggedIsAudited, LocalTellsNothing
<1>4. QED
  BY <1>3 DEF LogAction, new, what

LEMMA NoteIsAudited ==
    ASSUME NEW o, OpsOK(o), Audited(o), NEW e \in Exceptions
    PROVE  LET q == AddExceptionNote(o, e)
           IN  OpsOK(q) /\ Audited(q) /\ TellsTheSame(o, q)
<1> DEFINE noted == [ WorkflowOf(o, e) EXCEPT !.notes = Append(@, o.user) ]
           new == [ x \in { e } |-> [ WorkflowOf(o, x) EXCEPT !.notes = Append(@, o.user) ] ]
           r == Reworked(o, new)
<1>1. WorkflowOf(o, e) \in Workflow /\ o.user \in Users
  BY WorkflowIs DEF OpsOK
<1>2. noted \in Workflow /\ noted.status = WorkflowOf(o, e).status
  <2>1. Append(WorkflowOf(o, e).notes, o.user) \in Seq(Users)
    BY <1>1 DEF Workflow
  <2>2. QED
    BY <1>1, <2>1 DEF Workflow
<1>3. new \in [ { e } -> Workflow ] /\ new[e] = noted
  BY <1>2
<1> HIDE DEF new, noted, r
<1>4. new \in WorksOf({ e }) /\ { e } \subseteq Exceptions
  BY <1>3 DEF WorksOf
<1>5. r = Reworked(o, new)
  BY DEF r
<1>6. /\ OpsOK(r) /\ r.audit = o.audit
      /\ DOMAIN r.exceptions = DOMAIN o.exceptions \cup { e }
      /\ \A x \in { e } : r.exceptions[x] = new[x]
      /\ \A x \in DOMAIN o.exceptions \ { e } : r.exceptions[x] = o.exceptions[x]
  BY <1>4, <1>5, ReworkedIs
<1>7. \A x \in DOMAIN r.exceptions : r.exceptions[x].status # "open" =>
          x \in DOMAIN o.exceptions /\ r.exceptions[x].status = o.exceptions[x].status
  <2>1. NewWorkflow.status = "open"
    BY DEF NewWorkflow
  <2>2. QED
    BY <1>2, <1>3, <1>6, <2>1 DEF WorkflowOf
<1>8. Audited(r)
  BY <1>6, <1>7 DEF Audited
<1>9. "note" \in Actions /\ e \in Targets
  BY DEF Actions, Targets
<1>10. LET q == LogAction(r, Local("note", e)) IN OpsOK(q) /\ Audited(q) /\ TellsTheSame(r, q)
  BY <1>6, <1>8, <1>9, LocalEntry
<1>11. AddExceptionNote(o, e) = LogAction(r, Local("note", e))
  BY DEF AddExceptionNote, r, new
<1>12. Told(r) = Told(o)
  BY <1>6 DEF Told
<1>13. QED
  BY <1>6, <1>10, <1>11, <1>12 DEF TellsTheSame

LEMMA SessionIs ==
    ASSUME NEW o, OpsOK(o), Audited(o), NEW role \in Roles, NEW user \in Users
    PROVE  /\ OpsOK(SetRole(o, role)) /\ Audited(SetRole(o, role)) /\ TellsTheSame(o, SetRole(o, role))
           /\ OpsOK(SetUserName(o, user)) /\ Audited(SetUserName(o, user))
           /\ TellsTheSame(o, SetUserName(o, user))
<1> DEFINE q == [ o EXCEPT !.role = role ]
           r == [ o EXCEPT !.user = user ]
<1>1. OpsOK(q) /\ q.exceptions = o.exceptions /\ q.audit = o.audit
  BY DEF OpsOK
<1>2. OpsOK(r) /\ r.exceptions = o.exceptions /\ r.audit = o.audit
  BY DEF OpsOK
<1> HIDE DEF q, r
<1>3. Audited(q) /\ TellsTheSame(o, q) /\ Told(q) = Told(o) /\ Audited(r) /\ TellsTheSame(o, r)
  BY <1>1, <1>2 DEF Audited, TellsTheSame, Told
<1>4. "switched role" \in Actions /\ role \in Targets
  BY DEF Actions, Targets
<1>5. LET s == LogAction(q, Local("switched role", role))
      IN  OpsOK(s) /\ Audited(s) /\ TellsTheSame(q, s)
  BY <1>1, <1>3, <1>4, LocalEntry
<1>6. SetRole(o, role) = LogAction(q, Local("switched role", role)) /\ SetUserName(o, user) = r
  BY DEF SetRole, SetUserName, q, r
<1>7. QED
  BY <1>1, <1>2, <1>3, <1>5, <1>6 DEF TellsTheSame

\* What the server has accepted is added to what is told.
LEMMA WrittenIsTold ==
    ASSUME NEW o, OpsOK(o), Audited(o), NEW entry \in Accepts
    PROVE  LET q == LogAction(o, entry)
           IN  /\ OpsOK(q) /\ Audited(q) /\ Told(q) \subseteq Told(o) \cup { entry }
               /\ Len(q.audit) < MaxAudit =>
                    Len(o.audit) < MaxAudit /\ Told(o) \cup { entry } \subseteq Told(q)
<1> DEFINE new == << entry >>
           q == LogActions(o, new)
           a == Entry(o, entry)
<1>1. PICK status \in PackageStatus, p \in Parcels : entry = Written(status, p)
  BY DEF Accepts
<1>2. /\ entry \in What /\ entry.scope = "api"
      /\ entry = Written(entry.action, entry.target)
  BY <1>1 DEF Written, What, Scopes, Actions, Targets
<1>3. a.scope = "api" /\ a.action = entry.action /\ a.target = entry.target
  BY <1>2 DEF Entry
<1>4. new \in Seq(What) /\ { Entry(o, new[i]) : i \in DOMAIN new } = { a }
  BY <1>2
<1> HIDE DEF new, a
<1>5. OpsOK(q) /\ Audited(q)
  BY <1>4, Logged, LoggedIsAudited
<1>6. /\ ToSet(q.audit) \subseteq { a } \cup ToSet(o.audit)
      /\ Len(q.audit) < MaxAudit =>
           Len(o.audit) < MaxAudit /\ ToSet(q.audit) = { a } \cup ToSet(o.audit)
  BY <1>4, Logged
<1> HIDE DEF q
<1>7. Written(a.action, a.target) = entry
  BY <1>2, <1>3
<1>8. Told(q) \subseteq Told(o) \cup { entry }
  BY <1>6, <1>7 DEF Told
<1>9. Len(q.audit) < MaxAudit => Told(o) \cup { entry } \subseteq Told(q)
  BY <1>3, <1>6, <1>7 DEF Told
<1>10. LogAction(o, entry) = q
  BY DEF LogAction, q, new
<1>11. QED
  BY <1>5, <1>6, <1>8, <1>9, <1>10

LEMMA LogNext ==
    ASSUME DOMAIN ops' = Tab,
           \A u \in Tab : OpsOK(ops'[u]) /\ Audited(ops'[u]) /\ Told(ops'[u]) \subseteq accepted',
           OpsOK(stored'), Audited(stored'), Told(stored') \subseteq accepted',
           Holds(ops'[Here], Due'), held' # "overwritten" => Holds(stored', Due'),
           held' = "known" => Holds(ops'[There], Due'), InFlight' \subseteq accepted'
    PROVE  LogOK'
<1>1. (\A u \in Tab : OpsOK(ops[u]) /\ Audited(ops[u]) /\ Told(ops[u]) \subseteq accepted)'
  BY DEF OpsOK, Audited, Told, Written
<1>2. (OpsOK(stored) /\ Audited(stored) /\ Told(stored) \subseteq accepted)'
  BY DEF OpsOK, Audited, Told, Written
<1>3. (/\ Holds(ops[Here], Due)
       /\ held # "overwritten" => Holds(stored, Due)
       /\ held = "known" => Holds(ops[There], Due))'
  BY DEF Holds, Told, Written
<1>4. (DOMAIN ops = Tab)'
  OBVIOUS
<1>5. QED
  BY <1>1, <1>2, <1>3, <1>4 DEF LogOK

\* A tab has made something of its store, and with that has told of news.
LEMMA StoredIs ==
    ASSUME LogOK, NEW t \in Tab, NEW new, Stored(t, new), OpsOK(new), Audited(new),
           Told(new) \subseteq accepted', accepted' = accepted, NEW news,
           Len(new.audit) < MaxAudit =>
               Len(ops[t].audit) < MaxAudit /\ Told(ops[t]) \cup news \subseteq Told(new),
           t # Here => news = {}, Due' \subseteq Due \cup news, InFlight' \subseteq accepted
    PROVE  LogOK'
<1>1. /\ ops' = [ ops EXCEPT ![t] = new ] /\ stored' = new
      /\ held' = IF t = Here THEN "unknown" ELSE IF held = "known" THEN held ELSE "overwritten"
  BY DEF Stored
<1>2. DOMAIN ops' = Tab /\ ops'[t] = new /\ \A u \in Tab : u # t => ops'[u] = ops[u]
  BY <1>1 DEF LogOK
<1>3. Here \in Tab /\ There \in Tab /\ Here # There /\ (t = Here \/ t = There)
  BY PortalAssumption DEF Tab
<1>4. \A u \in Tab : OpsOK(ops'[u]) /\ Audited(ops'[u]) /\ Told(ops'[u]) \subseteq accepted'
  BY <1>2 DEF LogOK
<1>5. Holds(ops[Here], Due) /\ (held = "known" => Holds(ops[There], Due))
  BY DEF LogOK
<1>6. CASE t = Here
  <2>1. Holds(new, Due')
    BY <1>5, <1>6 DEF Holds
  <2>2. QED
    BY <1>1, <1>2, <1>3, <1>4, <1>6, <2>1, LogNext
<1>7. CASE t = There
  <2>1. Due' \subseteq Due
    BY <1>3, <1>7
  <2>2. Holds(ops[Here], Due')
    BY <1>5, <2>1 DEF Holds
  <2>3. held = "known" => Holds(new, Due')
    BY <1>5, <1>7, <2>1 DEF Holds
  <2>4. QED
    BY <1>1, <1>2, <1>3, <1>4, <1>7, <2>2, <2>3, LogNext
<1>8. QED
  BY <1>3, <1>6, <1>7

LEMMA SameLog ==
    ASSUME LogOK, UNCHANGED saved, accepted \subseteq accepted', Due' \subseteq Due,
           InFlight' \subseteq accepted'
    PROVE  LogOK'
<1>1. ops' = ops /\ stored' = stored /\ held' = held
  BY DEF saved
<1>2. /\ Holds(ops[Here], Due') /\ (held # "overwritten" => Holds(stored, Due'))
      /\ held = "known" => Holds(ops[There], Due')
  BY DEF LogOK, Holds
<1>3. /\ \A u \in Tab : OpsOK(ops[u]) /\ Audited(ops[u]) /\ Told(ops[u]) \subseteq accepted'
      /\ OpsOK(stored) /\ Audited(stored) /\ Told(stored) \subseteq accepted' /\ DOMAIN ops = Tab
  BY DEF LogOK
<1>4. QED
  BY <1>1, <1>2, <1>3, LogNext

LEMMA FreshIsOK == OpsOK(FreshOps) /\ Audited(FreshOps) /\ Told(FreshOps) = {}
<1> DEFINE o == FreshOps
<1>1. o.exceptions = << >> /\ o.audit = << >> /\ o.role = "super_admin" /\ o.user = "Operator"
      /\ o = [ role |-> o.role, user |-> o.user, exceptions |-> o.exceptions, audit |-> o.audit ]
  BY DEF FreshOps
<1>2. << >> \in [ {} -> Workflow ] /\ DOMAIN << >> = {} /\ << >> \in Seq(Entries) /\ Len(<< >>) = 0
  OBVIOUS
<1>3. << >> \in Works
  <2>1. {} \in SUBSET Exceptions
    OBVIOUS
  <2>2. QED
    BY <1>2, <2>1 DEF Works
<1>4. ToSet(<< >>) = {}
  BY DEF ToSet
<1> HIDE DEF o
<1>5. o \in [ role : Roles, user : Users, exceptions : Works, audit : Seq(Entries) ]
  BY <1>1, <1>2, <1>3, PortalAssumption
<1>6. OpsOK(o)
  BY <1>1, <1>2, <1>5, AuditAssumption DEF OpsOK
<1>7. Audited(o)
  BY <1>1, <1>2 DEF Audited
<1>8. Told(o) = {}
  BY <1>1, <1>4 DEF Told
<1>9. QED
  BY <1>6, <1>7, <1>8 DEF o

\* The patches the desk makes.
LEMMA PatchesAre ==
    ASSUME QueueOK, NEW user \in Users, NEW long \in BOOLEAN,
           NEW status \in { "open", "escalated", "resolved" }
    PROVE  Own(user) \in Patches /\ Snooze(long) \in Patches /\ Mark(status) \in Patches
<1>1. clock \in Nat
  BY DEF QueueOK
<1>2. clock + (IF long THEN Long ELSE Short) \in Nat
  BY <1>1, PortalAssumption
<1>3. QED
  BY <1>2 DEF Own, Snooze, Mark, Patch, Patches, WorkflowStatus

LEMMA BulkIs ==
    ASSUME QueueOK, LogOK, BulkAction
    PROVE  \E patch \in Patches : Bulk(patch)
<1>1. ops[Here].user \in Users
  BY DEF LogOK, OpsOK, Tab
<1>2. \A long \in BOOLEAN : Snooze(long) \in Patches
  BY <1>1, PatchesAre
<1>3. Own(ops[Here].user) \in Patches
  BY <1>1, PatchesAre
<1>4. \A status \in { "open", "escalated", "resolved" } : Mark(status) \in Patches
  BY <1>1, PatchesAre
<1>5. QED
  BY <1>2, <1>3, <1>4 DEF BulkAction

LEMMA ChosenAre ==
    SelectedRows(table, Rows) \in Seq(Exceptions)
  BY RowsAre, KeptIs DEF SelectedRows

LEMMA LogStays == Spec => []LogOK
<1>1. Init => LogOK
  <2> SUFFICES ASSUME Init PROVE LogOK
    OBVIOUS
  <2>1. stored = FreshOps /\ ops = [ t \in Tab |-> FreshOps ] /\ accepted = {}
    BY DEF Init
  <2>2. Here \in Tab /\ There \in Tab
    BY DEF Tab
  <2>3. Due = {}
    BY <2>1 DEF Due
  <2>4. Holds(FreshOps, Due)
    BY <2>3 DEF Holds
  <2>5. InFlight = {}
    BY DEF Init, InFlight
  <2>6. QED
    BY <2>1, <2>2, <2>4, <2>5, FreshIsOK DEF LogOK
<1>2. LogOK /\ QueueOK /\ ParcelsOK /\ [Next]_vars => LogOK'
  <2> SUFFICES ASSUME LogOK, QueueOK, ParcelsOK, [Next]_vars PROVE LogOK'
    OBVIOUS
  <2>1. Here \in Tab /\ There \in Tab /\ \A t \in Tab : t = Here \/ t = There
    BY DEF Tab
  <2>2. \A t \in Tab : OpsOK(ops[t]) /\ Audited(ops[t])
    BY DEF LogOK
  <2>25. InFlight \subseteq accepted
    BY DEF LogOK
  <2>4. ASSUME UNCHANGED saved, UNCHANGED ledger, UNCHANGED jobs PROVE LogOK'
    <3>1. Due' = Due /\ accepted' = accepted /\ InFlight' \subseteq accepted'
      BY <2>4, <2>25 DEF Due, InFlight, ledger
    <3>2. QED
      BY <2>4, <3>1, SameLog
  <2>5. ASSUME NEW t \in Tab, NEW new, Stored(t, new), UNCHANGED parcels,
               OpsOK(new), Audited(new), TellsTheSame(ops[t], new)
        PROVE  LogOK'
    <3>1. Due' = Due /\ accepted' = accepted /\ InFlight' \subseteq accepted
      BY <2>5, <2>25 DEF Due, InFlight, ledger, parcels
    <3>2. Told(new) \subseteq accepted
      BY <2>5 DEF TellsTheSame, LogOK
    <3>3. Len(new.audit) < MaxAudit =>
              Len(ops[t].audit) < MaxAudit /\ Told(ops[t]) \cup {} \subseteq Told(new)
      BY <2>5 DEF TellsTheSame
    <3>4. QED
      BY <2>5, <3>1, <3>2, <3>3, StoredIs
  <2>6. CASE BrowseTable \/ Select \/ FilterQueue
    <3>1. PICK t, s : Browse(t, s)
      BY <2>6 DEF BrowseTable, Select, FilterQueue
    <3>2. QED
      BY <2>4, <3>1 DEF Browse, parcels
  <2>24. CASE ClearFilters \/ \E new \in Areas : Focus(new)
    BY <2>4, <2>24 DEF ClearFilters, Focus, parcels
  <2>7. CASE BulkAction
    <3>1. PICK patch \in Patches : Bulk(patch)
      BY <2>7, BulkIs
    <3> DEFINE chosen == SelectedRows(table, Rows)
               new == UpdateExceptions(ops[Here], chosen, patch, LabelOf)
    <3>2. Stored(Here, new) /\ UNCHANGED parcels
      BY <3>1 DEF Bulk
    <3>3. chosen \in Seq(Exceptions)
      BY ChosenAre
    <3> HIDE DEF chosen
    <3>4. OpsOK(new) /\ Audited(new) /\ TellsTheSame(ops[Here], new)
      BY <2>1, <2>2, <3>3, UpdatesAreAudited
    <3> HIDE DEF new
    <3>5. QED
      BY <2>1, <2>5, <3>2, <3>4
  <2>8. ASSUME NEW t \in Tab, NEW e \in Exceptions, WorkInDrawer(t, e) PROVE LogOK'
    <3>1. ASSUME NEW new, Work(t, new), OpsOK(new), Audited(new), TellsTheSame(ops[t], new)
          PROVE  LogOK'
      BY <2>5, <3>1 DEF Work
    <3>2. ASSUME NEW patch \in Patches, Work(t, UpdateException(ops[t], e, patch, LabelOf))
          PROVE  LogOK'
      <4> DEFINE es == << e >>
                 new == UpdateExceptions(ops[t], es, patch, LabelOf)
      <4>1. es \in Seq(Exceptions)
        OBVIOUS
      <4>2. Work(t, new)
        BY <3>2 DEF UpdateException
      <4> HIDE DEF es
      <4>3. OpsOK(new) /\ Audited(new) /\ TellsTheSame(ops[t], new)
        BY <2>2, <4>1, UpdatesAreAudited
      <4> HIDE DEF new
      <4>4. QED
        BY <3>1, <4>2, <4>3
    <3>3. CASE Work(t, AddExceptionNote(ops[t], e))
      <4> DEFINE new == AddExceptionNote(ops[t], e)
      <4>1. OpsOK(new) /\ Audited(new) /\ TellsTheSame(ops[t], new)
        BY <2>2, NoteIsAudited
      <4>2. Work(t, new)
        BY <3>3
      <4> HIDE DEF new
      <4>3. QED
        BY <3>1, <4>1, <4>2
    <3>4. \/ Work(t, AddExceptionNote(ops[t], e))
          \/ \E patch \in Patches : Work(t, UpdateException(ops[t], e, patch, LabelOf))
      <4>1. \A u \in Users : Own(u) \in Patches
        BY PatchesAre
      <4>2. ops[t].user \in Users
        BY <2>2 DEF OpsOK
      <4>3. Snooze(FALSE) \in Patches
        BY <4>2, PatchesAre
      <4>4. \A status \in { "open", "escalated", "resolved" } : Mark(status) \in Patches
        BY <4>2, PatchesAre
      <4>5. QED
        BY <2>8, <4>1, <4>3, <4>4 DEF WorkInDrawer
    <3>5. QED
      BY <3>2, <3>3, <3>4
  <2>9. ASSUME NEW job, job.answer = << >>, Begin(job) PROVE LogOK'
    <3>1. jobs' = Append(jobs, job) /\ UNCHANGED saved /\ UNCHANGED ledger
      BY <2>9 DEF Begin
    <3>2. jobs \in Seq(Jobs)
      BY DEF ParcelsOK
    <3>3. /\ DOMAIN jobs' = DOMAIN jobs \cup { Len(jobs) + 1 } /\ jobs'[Len(jobs) + 1] = job
          /\ \A k \in DOMAIN jobs : jobs'[k] = jobs[k]
      BY <3>1, <3>2
    <3>4. InFlight' = InFlight
      BY <2>9, <3>3 DEF InFlight
    <3>5. accepted' = accepted /\ Due' \subseteq Due /\ InFlight' \subseteq accepted'
      BY <2>25, <3>1, <3>4 DEF Due, ledger
    <3>6. QED
      BY <3>1, <3>5, SameLog
  <2>10. CASE ApplyBulk \/ AutoAssign \/ \E p \in Parcels : Act(p) \/ Assign(p)
    <3>1. \A kind, todo, status, rider : Job(kind, todo, status, rider).answer = << >>
      BY DEF Job
    <3>2. QED
      BY <2>9, <2>10, <3>1 DEF ApplyBulk, AutoAssign, Act, Assign
  <2>11. ASSUME NEW to \in Pages, GoTo(to) PROVE LogOK'
    <3>1. /\ jobs' = [ k \in DOMAIN jobs |-> [ jobs[k] EXCEPT !.shown = FALSE ] ]
          /\ UNCHANGED saved /\ UNCHANGED ledger
      BY <2>11 DEF GoTo
    <3>2. \A k \in DOMAIN jobs : jobs[k] \in JobTypes
      BY DEF ParcelsOK, Jobs
    <3>3. DOMAIN jobs' = DOMAIN jobs /\ \A k \in DOMAIN jobs : jobs'[k].answer = jobs[k].answer
      BY <3>1, <3>2 DEF JobTypes
    <3>4. InFlight' = InFlight
      BY <3>3 DEF InFlight
    <3>5. accepted' = accepted /\ Due' \subseteq Due /\ InFlight' \subseteq accepted'
      BY <2>25, <3>1, <3>4 DEF Due, ledger
    <3>6. QED
      BY <3>1, <3>5, SameLog
  <2>12. ASSUME NEW role \in Roles, SwitchRole(role) PROVE LogOK'
    <3> DEFINE new == SetRole(ops[Here], role)
    <3>1. ops[Here].user \in Users
      BY <2>1, <2>2 DEF OpsOK
    <3>2. OpsOK(new) /\ Audited(new) /\ TellsTheSame(ops[Here], new)
      BY <2>1, <2>2, <3>1, SessionIs
    <3>3. Stored(Here, new) /\ UNCHANGED parcels
      BY <2>12 DEF SwitchRole
    <3> HIDE DEF new
    <3>4. QED
      BY <2>1, <2>5, <3>2, <3>3
  <2>13. ASSUME NEW user \in Users, Rename(user) PROVE LogOK'
    <3> DEFINE new == SetUserName(ops[Here], user)
    <3>1. ops[Here].role \in Roles
      BY <2>1, <2>2 DEF OpsOK
    <3>2. OpsOK(new) /\ Audited(new) /\ TellsTheSame(ops[Here], new)
      BY <2>1, <2>2, <3>1, SessionIs
    <3>3. Stored(Here, new) /\ UNCHANGED parcels
      BY <2>13 DEF Rename
    <3> HIDE DEF new
    <3>4. QED
      BY <2>1, <2>5, <3>2, <3>3
  <2>14. ASSUME NEW t \in Tab, Reload(t) PROVE LogOK'
    <3>1. ops' = [ ops EXCEPT ![t] = stored ] /\ stored' = stored /\ accepted' = accepted
      BY <2>14 DEF Reload
    <3>2. /\ OpsOK(stored) /\ Audited(stored) /\ Told(stored) \subseteq accepted /\ DOMAIN ops = Tab
          /\ Holds(ops[Here], Due) /\ (held # "overwritten" => Holds(stored, Due))
          /\ held = "known" => Holds(ops[There], Due)
      BY DEF LogOK
    <3>3. ops'[t] = stored /\ DOMAIN ops' = Tab /\ \A u \in Tab : u # t => ops'[u] = ops[u]
      BY <3>1, <3>2
    <3>4. \A u \in Tab : OpsOK(ops'[u]) /\ Audited(ops'[u]) /\ Told(ops'[u]) \subseteq accepted'
      BY <3>1, <3>2, <3>3 DEF LogOK
    <3>5. CASE t = There
      <4>1. /\ Due' = Due /\ held' = (IF held = "unknown" THEN "known" ELSE held) /\ t # Here
            /\ InFlight' \subseteq accepted'
        BY <2>14, <2>25, <3>1, <3>5, PortalAssumption DEF Reload, Due, InFlight
      <4>2. Holds(ops'[Here], Due') /\ (held' # "overwritten" => Holds(stored', Due'))
        BY <2>1, <3>1, <3>2, <3>3, <4>1
      <4>3. held' = "known" => Holds(ops'[There], Due')
        BY <3>2, <3>3, <3>5, <4>1
      <4>4. QED
        BY <3>1, <3>2, <3>3, <3>4, <4>1, <4>2, <4>3, LogNext
    <3>6. CASE t # There
      <4>1. /\ t = Here /\ held' = (IF held = "overwritten" THEN "known" ELSE held) /\ jobs' = << >>
            /\ excused' = IF held = "overwritten" THEN accepted ELSE excused \cup InFlight
        BY <2>1, <2>14, <3>6 DEF Reload
      <4>5. InFlight' \subseteq accepted'
        BY <4>1 DEF InFlight
      <4>2. CASE held = "overwritten"
        <5>1. Due' = {}
          BY <3>1, <4>1, <4>2 DEF Due
        <5>2. Holds(ops'[Here], Due') /\ Holds(stored', Due') /\ Holds(ops'[There], Due')
          BY <5>1 DEF Holds
        <5>3. QED
          BY <3>1, <3>2, <3>3, <3>4, <4>5, <5>2, LogNext
      <4>3. CASE held # "overwritten"
        <5>1. Due' \subseteq Due
          BY <3>1, <4>1, <4>3 DEF Due
        <5>2. Holds(stored, Due') /\ (held = "known" => Holds(ops[There], Due'))
          BY <3>2, <4>3, <5>1 DEF Holds
        <5>3. There # t
          BY <3>6
        <5>4. QED
          BY <2>1, <3>1, <3>2, <3>3, <3>4, <4>1, <4>3, <4>5, <5>2, <5>3, LogNext
      <4>4. QED
        BY <4>2, <4>3
    <3>7. QED
      BY <3>5, <3>6
  <2>15. ASSUME NEW k \in DOMAIN jobs, JobStep(k) PROVE LogOK'
    <3>1. CASE TakesPatch(k)
      <4>1. PICK entry \in Accepts :
                accepted' = accepted \cup { entry } /\ InFlight' = InFlight \cup { entry }
        BY <3>1, TakesIs
      <4>2. excused' = excused /\ UNCHANGED saved
        BY <3>1 DEF TakesPatch
      <4>3. Due' \subseteq Due /\ InFlight' \subseteq accepted'
        BY <2>25, <4>1, <4>2 DEF Due
      <4>4. QED
        BY <4>1, <4>2, <4>3, SameLog
    <3>2. CASE PassesOver(k)
      <4>1. GoesOn(k) /\ jobs[k].answer = << >> /\ UNCHANGED saved /\ UNCHANGED ledger
        BY <3>2 DEF PassesOver, Refused
      <4>2. InFlight' = InFlight
        BY <4>1, StaysInFlight
      <4>3. accepted' = accepted /\ Due' \subseteq Due /\ InFlight' \subseteq accepted'
        BY <2>25, <4>1, <4>2 DEF Due, ledger
      <4>4. QED
        BY <4>1, <4>3, SameLog
    <3>3. CASE CallFails(k)
      <4>1. /\ GoesOn(k) /\ UNCHANGED saved /\ accepted' = accepted
            /\ excused' = IF jobs[k].answer = << >> THEN excused
                          ELSE excused \cup { jobs[k].answer[2] }
        BY <3>3 DEF CallFails
      <4>2. /\ jobs[k].answer = << >> => InFlight \subseteq InFlight'
            /\ InFlight \ { jobs[k].answer[2] } \subseteq InFlight' /\ InFlight' \subseteq InFlight
        BY <4>1, StaysInFlight
      <4>3. Due' \subseteq Due /\ InFlight' \subseteq accepted'
        BY <2>25, <4>1, <4>2 DEF Due
      <4>4. QED
        BY <4>1, <4>3, SameLog
    <3>4. CASE TransitionShipment(k)
      <4> DEFINE entry == jobs[k].answer[2]
                 new == LogAction(ops[Here], entry)
      <4>1. /\ GoesOn(k) /\ jobs[k].answer # << >> /\ Stored(Here, new) /\ UNCHANGED ledger
        BY <3>4 DEF TransitionShipment
      <4>2. entry \in Accepts
        <5>1. jobs[k] \in JobTypes
          BY DEF ParcelsOK, Jobs
        <5>2. jobs[k].answer \in RowType \X Accepts
          BY <4>1, <5>1 DEF JobTypes, Answers
        <5>3. QED
          BY <5>2
      <4>3. entry \in accepted
        BY <4>1, <2>25 DEF InFlight
      <4>4. InFlight \ { entry } \subseteq InFlight' /\ InFlight' \subseteq InFlight
        BY <4>1, StaysInFlight
      <4>5. accepted' = accepted /\ Due' \subseteq Due \cup { entry } /\ InFlight' \subseteq accepted
        BY <2>25, <4>1, <4>4 DEF Due, ledger
      <4> HIDE DEF entry
      <4>6. /\ OpsOK(new) /\ Audited(new) /\ Told(new) \subseteq Told(ops[Here]) \cup { entry }
            /\ Len(new.audit) < MaxAudit =>
                 Len(ops[Here].audit) < MaxAudit /\ Told(ops[Here]) \cup { entry } \subseteq Told(new)
        BY <2>1, <2>2, <4>2, WrittenIsTold
      <4> HIDE DEF new
      <4>7. Told(new) \subseteq accepted'
        BY <2>1, <4>3, <4>5, <4>6 DEF LogOK
      <4>8. QED
        BY <2>1, <4>1, <4>5, <4>6, <4>7, StoredIs
    <3>5. QED
      BY <2>15, <3>1, <3>2, <3>3, <3>4 DEF JobStep
  <2>16. ASSUME NEW e \in Exceptions, Detect(e) PROVE LogOK'
    BY <2>4, <2>16 DEF Detect, parcels
  <2>17. CASE TimePasses \/ MinutePasses
    BY <2>4, <2>17 DEF TimePasses, MinutePasses, parcels
  <2>18. ASSUME NEW p \in Parcels, EngineMoves(p) \/ LiveEvent(p) PROVE LogOK'
    BY <2>4, <2>18 DEF EngineMoves, LiveEvent
  <2>19. CASE RefreshRows
    BY <2>4, <2>19 DEF RefreshRows
  <2>20. CASE UNCHANGED vars
    BY <2>4, <2>20 DEF vars, parcels
  <2>21. CASE User
    BY <2>6, <2>24, <2>7, <2>8, <2>10, <2>11, <2>12, <2>13, <2>14, <2>21
       DEF User, Exceptions, Parcels
  <2>22. CASE Rest
    BY <2>15, <2>16, <2>17, <2>18, <2>19, <2>22 DEF Rest, Exceptions, Parcels
  <2>23. QED
    BY <2>20, <2>21, <2>22 DEF Next
<1>3. QED
  BY <1>1, <1>2, QueueStays, ParcelsStay, PTL DEF Spec

(* In both tabs, whichever saved last and whatever was left half done, what *)
(* the portal says of an exception it has on record; and of the changes of  *)
(* parcels the log tells none that the server has not accepted, and all it  *)
(* has, but for those whose answer is awaited or never came and those that  *)
(* were in localStorage when another tab saved its own over them.           *)
THEOREM LogTellsTheTruth == Spec => []LogIsTrue
<1>1. LogOK => LogIsTrue
  <2> SUFFICES ASSUME LogOK PROVE LogIsTrue
    OBVIOUS
  <2>1. AuditTellsOfWrites
    BY DEF LogOK, Holds, Due, AuditTellsOfWrites, Tab
  <2>2. ASSUME NEW t \in Tab, Len(ops[t].audit) < MaxAudit, NEW e \in DOMAIN ops[t].exceptions,
               ops[t].exceptions[e].status # "open"
        PROVE  \E i \in DOMAIN ops[t].audit :
                  /\ ops[t].audit[i].target = LabelOf[e]
                  /\ ops[t].audit[i].action = ops[t].exceptions[e].status
    <3> DEFINE o == ops[t]
    <3>1. OpsOK(o) /\ Audited(o)
      BY DEF LogOK
    <3>2. o.audit \in Seq(Entries)
      BY <3>1 DEF OpsOK
    <3> HIDE DEF o
    <3>3. PICK a \in ToSet(o.audit) : a.target = LabelOf[e] /\ a.action = o.exceptions[e].status
      BY <2>2, <3>1 DEF Audited, o
    <3>4. PICK i \in DOMAIN o.audit : a = o.audit[i]
      BY <3>2, <3>3 DEF ToSet
    <3>5. QED
      BY <3>3, <3>4 DEF o
  <2>3. WorkflowIsAudited
    BY <2>2 DEF WorkflowIsAudited
  <2>4. QED
    BY <2>1, <2>3 DEF LogIsTrue
<1>2. QED
  BY <1>1, LogStays, PTL

(* A bulk action changes the workflow of no exception but those selected    *)
(* and still in the list, whatever the rest of the system has done to the   *)
(* list since they were, and leaves nothing selected.                       *)
THEOREM BulkTakesOnlyWhatIsListed == Spec => BulkTakesWhatItCounts
<1> DEFINE Taken ==
        LET changed == { e \in ToSet(Exception) :
                            WorkflowOf(ops'[Here], e) # WorkflowOf(ops[Here], e) }
        IN  table' # table /\ ops'[Here] # ops[Here] /\ ops'[Here] # stored =>
                /\ changed \subseteq ToSet(SelectedRows(table, Rows))
                /\ table'.selected = {}
<1>1. LogOK /\ QueueOK /\ [Next]_vars => [Taken]_vars
  <2> SUFFICES ASSUME LogOK, QueueOK, [Next]_vars, table' # table, ops'[Here] # ops[Here],
                      ops'[Here] # stored
               PROVE  Taken
    OBVIOUS
  <2>1. BulkAction
    <3>1. DOMAIN ops = Tab
      BY DEF LogOK
    <3>2. ~(BrowseTable \/ Select \/ FilterQueue \/ ClearFilters \/ \E new \in Areas : Focus(new))
      BY DEF BrowseTable, Select, FilterQueue, Browse, ClearFilters, Focus, saved
    <3>3. \A t \in Tab, e \in Exceptions : ~WorkInDrawer(t, e)
      BY DEF WorkInDrawer, Work, queue
    <3>4. ~ApplyBulk /\ ~AutoAssign /\ \A p \in Parcels : ~Act(p) /\ ~Assign(p)
      BY DEF ApplyBulk, AutoAssign, Act, Assign, Begin, saved
    <3>5. \A to \in Pages : ~GoTo(to)
      BY DEF GoTo, saved
    <3>6. \A role \in Roles : ~SwitchRole(role)
      BY DEF SwitchRole, queue
    <3>7. \A user \in Users : ~Rename(user)
      BY DEF Rename, queue
    <3>8. \A t \in Tab : ~Reload(t)
      BY <3>1 DEF Reload, Tab
    <3>9. \A k \in DOMAIN jobs : ~JobStep(k)
      BY DEF JobStep, TakesPatch, PassesOver, TransitionShipment, CallFails, queue
    <3>10. \A e \in Exceptions : ~Detect(e)
      BY DEF Detect, saved
    <3>11. ~TimePasses /\ ~MinutePasses /\ ~RefreshRows
      BY DEF TimePasses, MinutePasses, RefreshRows, saved
    <3>12. \A p \in Parcels : ~EngineMoves(p) /\ ~LiveEvent(p)
      BY DEF EngineMoves, LiveEvent, saved
    <3>13. ~UNCHANGED vars
      BY DEF vars, saved
    <3>14. ~Rest
      BY <3>9, <3>10, <3>11, <3>12 DEF Rest, Exceptions, Parcels
    <3>15. User
      BY <3>13, <3>14 DEF Next
    <3>16. QED
      BY <3>2, <3>3, <3>4, <3>5, <3>6, <3>7, <3>8, <3>15 DEF User, Exceptions, Parcels
  <2>2. PICK patch \in Patches : Bulk(patch)
    BY <2>1, BulkIs
  <2> DEFINE chosen == SelectedRows(table, Rows)
             o == ops[Here]
             new == UpdateExceptions(o, chosen, patch, LabelOf)
  <2>3. ops' = [ ops EXCEPT ![Here] = new ] /\ table' = [ table EXCEPT !.selected = {} ]
    BY <2>2 DEF Bulk, Stored
  <2>4. OpsOK(o) /\ Audited(o) /\ ops'[Here] = new
    BY <2>3 DEF LogOK, Tab
  <2>5. chosen \in Seq(Exceptions)
    BY ChosenAre
  <2> HIDE DEF chosen, o
  <2>6. \A e \in Exceptions \ ToSet(chosen) : WorkflowOf(new, e) = WorkflowOf(o, e)
    BY <2>4, <2>5, UpdatesAreAudited
  <2> HIDE DEF new
  <2>7. { e \in ToSet(Exception) : WorkflowOf(ops'[Here], e) # WorkflowOf(ops[Here], e) }
            \subseteq ToSet(chosen)
    BY <2>4, <2>6 DEF Exceptions, o
  <2>8. table'.selected = {}
    BY <2>3 DEF QueueOK, Tables
  <2>9. QED
    BY <2>7, <2>8 DEF chosen
<1>2. QED
  BY <1>1, LogStays, QueueStays, PTL DEF Spec, BulkTakesWhatItCounts

(* The log never has more than it may keep, only known exceptions have a    *)
(* workflow or are selected, and no handler under way is out of work.       *)
THEOREM TypeCorrect == Spec => []TypeOK
<1>1. LogOK /\ QueueOK /\ ParcelsOK => TypeOK
  <2> SUFFICES ASSUME LogOK, QueueOK, ParcelsOK PROVE TypeOK
    OBVIOUS
  <2>1. ASSUME NEW t \in Tab
        PROVE  /\ ops[t].role \in Roles /\ ops[t].user \in Users
               /\ Len(ops[t].audit) <= MaxAudit
               /\ DOMAIN ops[t].exceptions \subseteq ToSet(Exception)
               /\ \A e \in DOMAIN ops[t].exceptions :
                     ops[t].exceptions[e].status \in WorkflowStatus
    <3>1. OpsOK(ops[t])
      BY DEF LogOK
    <3>2. PICK D \in SUBSET Exceptions : ops[t].exceptions \in [ D -> Workflow ]
      BY <3>1 DEF OpsOK, Works
    <3>3. \A e \in D : ops[t].exceptions[e].status \in WorkflowStatus
      BY <3>2 DEF Workflow
    <3>4. QED
      BY <3>1, <3>2, <3>3 DEF OpsOK, Exceptions
  <2>2. page \in Pages /\ minute <= clock /\ table.selected \subseteq ToSet(Exception)
    BY DEF QueueOK, Tables, Exceptions
  <2>3. \A p \in Parcels : server[p].status \in PackageStatus /\ rows[p].status \in PackageStatus
    BY DEF ParcelsOK, RowType
  <2>4. \A k \in DOMAIN jobs : jobs[k].todo # << >>
    BY DEF ParcelsOK, Jobs
  <2>5. QED
    BY <2>1, <2>2, <2>3, <2>4 DEF TypeOK, Parcels
<1>2. QED
  BY <1>1, LogStays, QueueStays, ParcelsStay, PTL
=============================================================================
