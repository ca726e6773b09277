------------------------ MODULE PortfolioTruthProofs ------------------------
(***************************************************************************)
(* Proofs about PortfolioTruth for every value of its constants: any       *)
(* orders, jobs that capture, position rows, ages and losses of an         *)
(* account, and any number of failed captures and crashes.                 *)
(***************************************************************************)
EXTENDS PortfolioTruth, FiniteSetTheorems, SequenceTheorems, WellFoundedInduction, TLAPS

-----------------------------------------------------------------------------
(* The quantity of the rows                                                 *)

\* A set of numbers that is not empty has a least one.
LEMMA LeastNumber ==
  ASSUME NEW T, T \subseteq Nat, T # {}
  PROVE  \E x \in T : \A y \in T : x <= y
<1> DEFINE Less == {ss \in Nat \X Nat : ss[1] < ss[2]}
<1>1. IsWellFoundedOn(Less, Nat)
  BY NatLessThanWellFounded DEF OpToRel
<1>2. PICK x \in T : \A y \in T : ~(<<y, x>> \in Less)
  <2> HIDE DEF Less
  <2> QED
    BY <1>1, WFMin
<1>3. ASSUME NEW y \in T PROVE x <= y
  <2>1. y \in Nat /\ x \in Nat
    OBVIOUS
  <2>2. <<y, x>> \in Less <=> y < x
    BY <2>1
  <2>3. <<y, x>> \notin Less
    BY <1>2
  <2> QED
    BY <2>1, <2>2, <2>3
<1> QED
  BY <1>3

\* What is held by rows of these quantities, and what its recursive definition makes
\* of a candidate for the sums.
HeldBy(r) == LET Sum[s \in SUBSET RowIds] ==
                   IF s = {} THEN 0 ELSE LET i == CHOOSE i \in s : TRUE IN r[i] + Sum[s \ {i}]
             IN  Sum[RowIds]
Sums(r, u) ==
  [s \in SUBSET RowIds |->
     IF s = {} THEN 0 ELSE LET i == CHOOSE i \in s : TRUE IN r[i] + u[s \ {i}]]

\* When one row at most holds anything, that is what is held.
LEMMA HeldByOne ==
  ASSUME PortfolioAssumption, NEW r, NEW k, NEW q \in Nat,
         \A i \in RowIds : r[i] = IF i = k THEN q ELSE 0
  PROVE  HeldBy(r) = IF k \in RowIds THEN q ELSE 0
<1> DEFINE g == [s \in SUBSET RowIds |-> IF k \in s THEN q ELSE 0]
<1>1. IsFiniteSet(RowIds)
  BY DEF PortfolioAssumption
<1>2. g = Sums(r, g)
  <2>1. ASSUME NEW s \in SUBSET RowIds, s # {}
        PROVE  g[s] = LET i == CHOOSE i \in s : TRUE IN r[i] + g[s \ {i}]
    <3> DEFINE i == CHOOSE i \in s : TRUE
    <3>1. i \in s
      BY <2>1
    <3>2. r[i] = IF i = k THEN q ELSE 0
      BY <3>1
    <3>3. g[s] = r[i] + g[s \ {i}]
      <4> HIDE DEF i
      <4> QED
        BY <3>1, <3>2
    <3> QED
      BY <3>3
  <2>2. g[{}] = 0
    OBVIOUS
  <2>3. g = [s \in SUBSET RowIds |->
               IF s = {} THEN 0 ELSE LET i == CHOOSE i \in s : TRUE IN r[i] + g[s \ {i}]]
    <3> HIDE DEF g
    <3>1. \A s \in SUBSET RowIds :
            g[s] = IF s = {} THEN 0 ELSE LET i == CHOOSE i \in s : TRUE IN r[i] + g[s \ {i}]
      BY <2>1, <2>2
    <3>2. g = [s \in SUBSET RowIds |-> g[s]]
      BY DEF g
    <3> QED
      BY <3>1, <3>2
  <2> QED
    BY <2>3 DEF Sums
<1> DEFINE h == CHOOSE u : u = Sums(r, u)
<1>3. h = Sums(r, h)
  BY <1>2
<1>4. HeldBy(r) = h[RowIds]
  BY DEF HeldBy, Sums
<1> HIDE DEF h
<1>5. h[RowIds] = g[RowIds]
  <2> DEFINE Bad == {s \in SUBSET RowIds : h[s] # g[s]}
             Sizes == {Cardinality(s) : s \in Bad}
  <2>1. Bad = {}
    <3>1. SUFFICES ASSUME Bad # {} PROVE FALSE
      OBVIOUS
    <3>2. \A s \in SUBSET RowIds : IsFiniteSet(s) /\ Cardinality(s) \in Nat
      BY <1>1, FS_Subset, FS_CardinalityType
    <3>3. Sizes \subseteq Nat /\ Sizes # {}
      BY <3>1, <3>2
    <3>4. PICK n \in Sizes : \A m \in Sizes : n <= m
      <4> HIDE DEF Sizes
      <4> QED
        BY <3>3, LeastNumber
    <3>5. PICK s \in Bad : \A t \in Bad : Cardinality(s) <= Cardinality(t)
      BY <3>4
    <3>6. h[s] # g[s] /\ s \in SUBSET RowIds
      BY <3>5
    <3>7. s # {}
      BY <1>2, <1>3, <3>6 DEF Sums
    <3> DEFINE i == CHOOSE i \in s : TRUE
    <3>8. i \in s
      BY <3>7
    <3>9. h[s] = r[i] + h[s \ {i}] /\ g[s] = r[i] + g[s \ {i}]
      <4> HIDE DEF g
      <4> QED
        BY <1>2, <1>3, <3>6, <3>7 DEF Sums
    <3> HIDE DEF i
    <3>10. Cardinality(s \ {i}) = Cardinality(s) - 1
      BY <3>2, <3>6, <3>8, FS_RemoveElement
    <3>11. s \ {i} \in SUBSET RowIds /\ s \ {i} \notin Bad
      <4>1. s \ {i} \in SUBSET RowIds
        BY <3>6
      <4>2. ~(Cardinality(s) <= Cardinality(s \ {i}))
        BY <3>2, <3>6, <3>10
      <4> QED
        BY <3>5, <4>1, <4>2
    <3> QED
      BY <3>6, <3>9, <3>11
  <2> QED
    BY <2>1
<1> QED
  BY <1>4, <1>5

-----------------------------------------------------------------------------
(* Types                                                                    *)

LotSet == [side : {"BUY", "SELL"}, size : Nat \ {0}, price : Nat, fee : Nat]
Steps == {"idle", "local", "listed", "stored", "rebuilt", "done"}

\* The captures and refreshes under way; what they read locally is of any type.
Fields == {"step", "sound", "late", "seen", "held", "working", "fills", "entries", "recovery",
           "quantity"}
Complete(a) == a = [f \in Fields |-> a[f]]
JobTyped(a) ==
  /\ Complete(a)
  /\ a.step \in Steps /\ a.sound \in BOOLEAN /\ a.seen \subseteq RowIds /\ a.quantity \in Nat

VenueTyped ==
  /\ balance \in Nat /\ over \in {"no", "won", "lost"}
  /\ data = [size |-> data.size, lost |-> data.lost, trades |-> data.trades]
  /\ data.size \in Nat /\ data.lost \in BOOLEAN /\ (data.lost => over = "lost")

\* An order at the venue is one that has not matched yet, and is funded.
OrderTyped ==
  /\ order \in {"none", "posted", "matched", "working", "ended"}
  /\ posts \in 0 .. Len(Lots) /\ fills \in Seq(LotSet)
  /\ Len(fills) <= posts /\ booked \in 0 .. Len(fills)
  /\ AtVenue => posts >= 1 /\ Len(fills) < posts /\ balance + Signed(Lot) >= 0

\* The captures that are listed and not stored, each once.
ListedTyped ==
  /\ listed \in Seq(Jobs)
  /\ \A i \in DOMAIN listed : job[listed[i]].step = "listed"
  /\ \A i, k \in DOMAIN listed : listed[i] = listed[k] => i = k

JobsTyped == job = [j \in Jobs |-> job[j]] /\ \A j \in Jobs : JobTyped(job[j])

TruthTyped ==
  /\ completed = [recovery |-> completed.recovery, sound |-> completed.sound]
  /\ completed.sound \in BOOLEAN
  /\ latest = [owner |-> latest.owner, loss |-> latest.loss]
  /\ latest.owner \in Jobs \cup {Nobody}

Typed ==
  /\ VenueTyped /\ OrderTyped /\ rows \in [RowIds -> Nat]
  /\ JobsTyped /\ ListedTyped /\ TruthTyped

LEMMA LotTyped ==
  ASSUME PortfolioAssumption, NEW i \in 1 .. Len(Lots)
  PROVE  Lots[i] \in LotSet /\ Signed(Lots[i]) \in Int
<1>1. Lots \in Seq(LotSet)
  BY DEF PortfolioAssumption, LotSet
<1>2. Lots[i] \in LotSet
  BY <1>1
<1> QED
  BY <1>2 DEF LotSet, Signed

\* A new job and one that is spoilt.
LEMMA RestedTyped == JobTyped(Rested) /\ JobTyped([Rested EXCEPT !.step = "done"])
<1>1. Complete(Rested) /\ Complete([Rested EXCEPT !.step = "done"])
  BY DEF Complete, Fields, Rested
<1>2. Rested.quantity \in Nat /\ [Rested EXCEPT !.step = "done"].quantity \in Nat
  BY DEF Rested
<1>3. \A step \in {"idle", "done"} :
        LET a == [Rested EXCEPT !.step = step]
        IN  a.step = step /\ a.sound = FALSE /\ a.seen = {}
  BY DEF Rested
<1>4. Rested.step = "idle" /\ Rested.sound = FALSE /\ Rested.seen = {}
  BY DEF Rested
<1> QED
  BY <1>1, <1>2, <1>3, <1>4 DEF JobTyped, Steps

Spoilt(a) == [a EXCEPT !.sound = FALSE]
LEMMA SpoiltTyped ==
  ASSUME NEW a, JobTyped(a)
  PROVE  /\ JobTyped(Spoilt(a)) /\ ~Spoilt(a).sound
         /\ Spoilt(a).step = a.step /\ Spoilt(a).seen = a.seen
         /\ Spoilt(a).quantity = a.quantity
<1> DEFINE b == [a EXCEPT !.sound = FALSE]
<1>1. Complete(a)
  BY DEF JobTyped
<1>2. b.step = a.step /\ b.seen = a.seen /\ b.quantity = a.quantity /\ b.sound = FALSE
  BY <1>1 DEF Complete, Fields
<1>3. Complete(b)
  BY <1>1 DEF Complete, Fields
<1> HIDE DEF b
<1>4. JobTyped(b)
  BY <1>2, <1>3 DEF JobTyped
<1> QED
  BY <1>2, <1>4 DEF b, Spoilt

LEMMA TypedInit == PortfolioAssumption /\ Init => Typed
<1> SUFFICES ASSUME PortfolioAssumption, Init PROVE Typed
  OBVIOUS
<1>1. VenueTyped
  BY DEF Init, VenueTyped, PortfolioAssumption
<1>2. Lots \in Seq(LotSet)
  BY DEF PortfolioAssumption, LotSet
<1>3. OrderTyped
  BY <1>2 DEF Init, OrderTyped, AtVenue
<1>4. rows \in [RowIds -> Nat] /\ TruthTyped /\ ListedTyped
  BY DEF Init, ListedTyped, TruthTyped
<1>5. JobsTyped
  BY RestedTyped DEF Init, JobsTyped
<1> QED
  BY <1>1, <1>3, <1>4, <1>5 DEF Typed

\* What happens at the venue moves the balance, the order and the fills.
LEMMA DisturbedTyped ==
  Typed /\ Disturbed => (rows \in [RowIds -> Nat] /\ JobsTyped /\ ListedTyped /\ TruthTyped)'
<1> SUFFICES ASSUME Typed, Disturbed
             PROVE  (rows \in [RowIds -> Nat] /\ JobsTyped /\ ListedTyped /\ TruthTyped)'
  OBVIOUS
<1>1. \A j \in Jobs : job'[j] = Spoilt(job[j]) /\ JobTyped(job[j])
  BY DEF Typed, Disturbed, JobsTyped, Spoilt
<1>4. \A j \in Jobs : JobTyped(job'[j]) /\ job'[j].step = job[j].step
  BY <1>1, SpoiltTyped
<1>5. JobsTyped'
  <2>1. job' = [j \in Jobs |-> job'[j]]
    BY DEF Disturbed
  <2> QED
    BY <1>4, <2>1 DEF JobsTyped
<1>2. ListedTyped'
  <2>1. ListedTyped /\ listed' = listed
    BY DEF Typed, Disturbed
  <2>2. \A i \in DOMAIN listed : listed[i] \in Jobs
    BY <2>1 DEF ListedTyped
  <2> QED
    BY <1>4, <2>1, <2>2 DEF ListedTyped
<1>3. TruthTyped'
  BY DEF Typed, Disturbed, TruthTyped
<1> QED
  BY <1>2, <1>3, <1>5 DEF Typed, Disturbed

LEMMA VenueStepTyped ==
  ASSUME PortfolioAssumption, Typed, PostOrder \/ Match \/ Cancel \/ End
  PROVE  Typed'
<1>1. Disturbed
  BY DEF PostOrder, Match, Cancel, End
<1>2. (rows \in [RowIds -> Nat] /\ JobsTyped /\ ListedTyped /\ TruthTyped)'
  BY <1>1, DisturbedTyped
<1>3. VenueTyped /\ OrderTyped
  BY DEF Typed
<1>4. Lots \in Seq(LotSet)
  BY DEF PortfolioAssumption, LotSet
<1>5. CASE PostOrder
  <2>1. VenueTyped'
    BY <1>3, <1>5 DEF PostOrder, venueVars, VenueTyped
  <2>2. OrderTyped'
    BY <1>3, <1>4, <1>5 DEF PostOrder, venueVars, OrderTyped, AtVenue, Lot
  <2> QED
    BY <1>2, <2>1, <2>2 DEF Typed
<1>6. CASE Match
  <2>1. posts \in 1 .. Len(Lots) /\ Len(fills) < posts /\ balance + Signed(Lot) >= 0
    BY <1>3, <1>4, <1>6 DEF Match, OrderTyped
  <2>2. Lot \in LotSet /\ Signed(Lot) \in Int
    BY <2>1, LotTyped DEF Lot
  <2>3. VenueTyped'
    BY <1>3, <1>6, <2>1, <2>2 DEF Match, VenueTyped
  <2>4. order' \in {"matched", "ended"} /\ ~AtVenue'
    BY <1>6 DEF Match, Leave, AtVenue
  <2>5. OrderTyped'
    BY <1>3, <1>4, <1>6, <2>1, <2>2, <2>4 DEF Match, OrderTyped
  <2> QED
    BY <1>2, <2>3, <2>5 DEF Typed
<1>7. CASE Cancel
  <2>1. VenueTyped'
    BY <1>3, <1>7 DEF Cancel, venueVars, VenueTyped
  <2>2. order' \in {"matched", "ended"} /\ ~AtVenue'
    BY <1>7 DEF Cancel, Leave, AtVenue
  <2>3. OrderTyped'
    BY <1>3, <1>4, <1>7, <2>2 DEF Cancel, OrderTyped
  <2> QED
    BY <1>2, <2>1, <2>3 DEF Typed
<1>8. CASE End
  <2>1. PICK end \in Ends : over' = end /\ balance' = IF end = "won" THEN 0 ELSE balance
    BY <1>8 DEF End
  <2>2. over' \in {"won", "lost"} /\ over = "no"
    BY <1>8, <2>1 DEF End, PortfolioAssumption
  <2>3. VenueTyped'
    BY <1>3, <1>8, <2>1, <2>2 DEF End, VenueTyped
  <2>4. ~AtVenue' /\ UNCHANGED orderVars
    BY <1>8 DEF End, orderVars, AtVenue
  <2>5. OrderTyped'
    BY <1>3, <2>4 DEF OrderTyped, orderVars
  <2> QED
    BY <1>2, <2>3, <2>5 DEF Typed
<1> QED
  BY <1>5, <1>6, <1>7, <1>8

\* What an update leaves of the jobs.
Kept(j) ==
  \A k \in Jobs : k # j => job'[k] = job[k]

LEMMA PutTyped ==
  ASSUME JobsTyped, NEW j \in Jobs, NEW a, JobTyped(a), job' = [job EXCEPT ![j] = a]
  PROVE  JobsTyped' /\ job'[j] = a /\ Kept(j)
<1>1. job = [k \in Jobs |-> job[k]]
  BY DEF JobsTyped
<1>2. job' = [k \in Jobs |-> IF k = j THEN a ELSE job[k]]
  BY <1>1
<1>3. job'[j] = a /\ Kept(j)
  BY <1>2 DEF Kept
<1>4. \A k \in Jobs : JobTyped(job'[k])
  BY <1>3 DEF JobsTyped, Kept
<1>5. job' = [k \in Jobs |-> job'[k]]
  BY <1>2
<1> QED
  BY <1>3, <1>4, <1>5 DEF JobsTyped

(***************************************************************************)
(* What the steps of a capture make of its job.                            *)
(***************************************************************************)
LEMMA AfterRunIs ==
  ASSUME NEW j
  PROVE  JobTyped(AfterRun(j)) /\ AfterRun(j).step \in {"idle", "done"} /\ ~AfterRun(j).sound
<1>1. Rested.step = "idle" /\ ~Rested.sound
  BY DEF Rested
<1>2. LET a == [Rested EXCEPT !.step = "done"] IN a.step = "done" /\ ~a.sound
  BY DEF Rested
<1>3. CASE j \in Once
  BY <1>2, <1>3, RestedTyped DEF AfterRun
<1>4. CASE j \notin Once
  <2>1. AfterRun(j) = Rested
    BY <1>4 DEF AfterRun, Rested
  <2> QED
    BY <1>1, <2>1, RestedTyped
<1> QED
  BY <1>3, <1>4

LEMMA BeginEffect ==
  ASSUME Typed, NEW j \in Jobs, Begin(j)
  PROVE  /\ JobsTyped' /\ job'[j].step = "local" /\ (job'[j].sound => Busy = {})
         /\ job'[j].seen = Open /\ job'[j].held = Held
         /\ job'[j].working = OrdersIf(WorkingRow)
         /\ \A k \in Jobs : k # j => job'[k] = Spoilt(job[k])
<1> DEFINE alone == Busy = {}
           open == Open
           held == Held
           working == OrdersIf(WorkingRow)
           a == [Rested EXCEPT !.step = "local", !.sound = alone, !.seen = open,
                   !.held = held, !.working = working, !.fills = booked]
<1>1. job' = [k \in Jobs |-> IF k # j THEN Spoilt(job[k]) ELSE a]
  BY DEF Begin, Spoilt
<1>3. /\ Complete(a) /\ a.step = "local" /\ a.sound = alone /\ a.seen = open
      /\ a.held = held /\ a.working = working /\ a.quantity = 0
  <2> HIDE DEF alone, open, held, working
  <2>1. Complete(a)
    BY DEF Complete, Fields, Rested
  <2>2. a.step = "local" /\ a.sound = alone /\ a.seen = open
    BY DEF Rested
  <2>3. a.held = held /\ a.working = working /\ a.quantity = 0
    BY DEF Rested
  <2> QED
    BY <2>1, <2>2, <2>3
<1> HIDE DEF a
<1>4. Open \subseteq RowIds
  BY DEF Open
<1>5. JobTyped(a)
  BY <1>3, <1>4 DEF JobTyped, Steps
<1>6. job'[j] = a /\ \A k \in Jobs : k # j => job'[k] = Spoilt(job[k])
  BY <1>1
<1>7. JobsTyped'
  <2>1. \A k \in Jobs : JobTyped(job'[k])
    BY <1>5, <1>6, SpoiltTyped DEF Typed, JobsTyped
  <2>2. job' = [k \in Jobs |-> job'[k]]
    BY <1>1
  <2> QED
    BY <2>1, <2>2 DEF JobsTyped
<1> QED
  BY <1>3, <1>6, <1>7

LEMMA CanonicalIs ==
  ASSUME Typed
  PROVE  /\ Canonical(Reading, Token) = IF data.size > 0 THEN data.size ELSE balance
         /\ Canonical(Reading, Token) \in Nat
<1>1. Token \in Reading.known /\ Reading.size[Token] = data.size
      /\ Reading.balance[Token] = balance
  BY DEF Reading
<1>2. Canonical(Reading, Token) = IF data.size > 0 THEN data.size ELSE balance
  BY <1>1 DEF Canonical
<1> QED
  BY <1>2 DEF Typed, VenueTyped

LEMMA ListEffect ==
  ASSUME Typed, NEW j \in Jobs, List(j)
  PROVE  /\ JobsTyped' /\ job'[j].step = "listed" /\ job'[j].seen = job[j].seen
         /\ job'[j].quantity = Canonical(Reading, Token) /\ Kept(j)
         /\ job'[j].sound => /\ job[j].sound
                             /\ \E age \in Ages :
                                  Permissions(Freshness(age),
                                    Recovery(Divergence(Reading, Local(j)))).entries
<1> PICK age \in Ages :
       LET recovery == Recovery(Divergence(Reading, Local(j)))
           entries == Permissions(Freshness(age), recovery).entries
       IN  job' = [job EXCEPT ![j] =
                     [@ EXCEPT !.step = "listed", !.recovery = recovery, !.entries = entries,
                        !.sound = job[j].sound /\ entries,
                        !.quantity = Canonical(Reading, Token), !.working = {}, !.held = 0]]
  BY DEF List
<1> DEFINE r == Recovery(Divergence(Reading, Local(j)))
           e == Permissions(Freshness(age), r).entries
           n == Canonical(Reading, Token)
           s == job[j].sound /\ e
           a == [job[j] EXCEPT !.step = "listed", !.recovery = r, !.entries = e, !.sound = s,
                   !.quantity = n, !.working = {}, !.held = 0]
<1>1. JobTyped(job[j]) /\ job = [k \in Jobs |-> job[k]]
  BY DEF Typed, JobsTyped
<1>2. job' = [job EXCEPT ![j] = a]
  BY <1>1
<1>4. /\ Complete(a) /\ a.step = "listed" /\ a.sound = s
      /\ a.seen = job[j].seen /\ a.quantity = n
  <2>1. Complete(job[j])
    BY <1>1 DEF JobTyped
  <2> HIDE DEF r, e, n, s
  <2>2. Complete(a)
    BY <2>1 DEF Complete, Fields
  <2>3. a.step = "listed" /\ a.sound = s /\ a.seen = job[j].seen /\ a.quantity = n
    BY <2>1 DEF Complete, Fields
  <2> QED
    BY <2>2, <2>3
<1>5. a.sound => job[j].sound /\ e
  BY <1>4
<1>6. a.sound \in BOOLEAN
  BY <1>4
<1> HIDE DEF a
<1>7. JobTyped(a)
  BY <1>1, <1>4, <1>6, CanonicalIs DEF JobTyped, Steps
<1>8. JobsTyped' /\ job'[j] = a /\ Kept(j)
  BY <1>2, <1>7, PutTyped DEF Typed
<1> QED
  BY <1>4, <1>5, <1>8

LEMMA StoreEffect ==
  ASSUME Typed, NEW j \in Jobs, Store(j)
  PROVE  /\ JobsTyped' /\ Kept(j) /\ ~job'[j].sound
         /\ job'[j].step \in {"idle", "done", "stored"}
         /\ job'[j].step = "stored" => /\ job'[j].seen = job[j].seen
                                       /\ job'[j].quantity = job[j].quantity
<1>1. JobTyped(job[j])
  BY DEF Typed, JobsTyped
<1>2. CASE j \in Pretrades
  <2>1. job' = [job EXCEPT ![j] = AfterRun(j)]
    BY <1>2 DEF Store
  <2>2. JobsTyped' /\ job'[j] = AfterRun(j) /\ Kept(j)
    BY <2>1, AfterRunIs, PutTyped DEF Typed
  <2> QED
    BY <2>2, AfterRunIs
<1>3. CASE j \notin Pretrades
  <2> DEFINE a == [Rested EXCEPT !.step = "stored", !.seen = job[j].seen,
                     !.fills = job[j].fills, !.quantity = job[j].quantity]
  <2>1. job' = [job EXCEPT ![j] = a]
    BY <1>3 DEF Store
  <2>2. Complete(a) /\ a.step = "stored" /\ a.sound = FALSE
    BY DEF Complete, Fields, Rested
  <2>3. a.seen = job[j].seen /\ a.quantity = job[j].quantity
    BY DEF Rested
  <2> HIDE DEF a
  <2>4. JobTyped(a)
    BY <1>1, <2>2, <2>3 DEF JobTyped, Steps
  <2>5. JobsTyped' /\ job'[j] = a /\ Kept(j)
    BY <2>1, <2>4, PutTyped DEF Typed
  <2> QED
    BY <2>2, <2>3, <2>5
<1> QED
  BY <1>2, <1>3

LEMMA RebuildEffect ==
  ASSUME Typed, NEW j \in Jobs, Rebuild(j)
  PROVE  JobsTyped' /\ Kept(j) /\ ~job'[j].sound /\ job'[j].step = "rebuilt"
<1> DEFINE a == [Rested EXCEPT !.step = "rebuilt", !.fills = job[j].fills]
<1>1. job' = [job EXCEPT ![j] = a]
  BY DEF Rebuild
<1>2. Complete(a) /\ a.step = "rebuilt" /\ a.sound = FALSE
  BY DEF Complete, Fields, Rested
<1>3. a.seen = {} /\ a.quantity \in Nat
  BY DEF Rested
<1> HIDE DEF a
<1>4. JobTyped(a)
  BY <1>2, <1>3 DEF JobTyped, Steps
<1>5. JobsTyped' /\ job'[j] = a /\ Kept(j)
  BY <1>1, <1>4, PutTyped DEF Typed
<1> QED
  BY <1>2, <1>5

LEMMA FinishEffect ==
  ASSUME Typed, NEW j \in Jobs, Finish(j)
  PROVE  JobsTyped' /\ Kept(j) /\ ~job'[j].sound /\ job'[j].step \in {"idle", "done"}
<1>1. job' = [job EXCEPT ![j] = AfterRun(j)]
  BY DEF Finish
<1>2. JobsTyped' /\ job'[j] = AfterRun(j) /\ Kept(j)
  BY <1>1, AfterRunIs, PutTyped DEF Typed
<1> QED
  BY <1>2, AfterRunIs

\* A failed capture makes its checkpoint the newest: a listed one comes late.
Late(a) == [a EXCEPT !.late = a.step = "listed"]
LEMMA LateTyped ==
  ASSUME NEW a, JobTyped(a)
  PROVE  /\ JobTyped(Late(a)) /\ Late(a).sound = a.sound
         /\ Late(a).step = a.step /\ Late(a).seen = a.seen /\ Late(a).held = a.held
         /\ Late(a).working = a.working /\ Late(a).quantity = a.quantity
<1> DEFINE l == a.step = "listed"
           b == [a EXCEPT !.late = l]
<1>1. Complete(a)
  BY DEF JobTyped
<1> HIDE DEF l
<1>2. b.step = a.step /\ b.seen = a.seen /\ b.quantity = a.quantity
  BY <1>1 DEF Complete, Fields
<1>3. b.held = a.held /\ b.working = a.working /\ b.sound = a.sound
  BY <1>1 DEF Complete, Fields
<1>7. Late(a) = b
  BY DEF Late, l
<1>4. Complete(b)
  BY <1>1 DEF Complete, Fields
<1> HIDE DEF b
<1>5. JobTyped(b)
  BY <1>2, <1>3, <1>4 DEF JobTyped
<1>6. b = Late(a)
  BY <1>7 DEF b
<1> QED
  BY <1>2, <1>3, <1>5, <1>6

LEMMA FailEffect ==
  ASSUME Typed, NEW j \in Jobs, Fail(j)
  PROVE  /\ JobsTyped' /\ ~job'[j].sound /\ job'[j].step \in {"idle", "done"}
         /\ \A k \in Jobs : k # j => job'[k] = Late(job[k])
<1>1. job' = [k \in Jobs |-> IF k = j THEN AfterRun(j) ELSE Late(job[k])]
  BY DEF Fail, Late
<1>2. job'[j] = AfterRun(j) /\ \A k \in Jobs : k # j => job'[k] = Late(job[k])
  BY <1>1
<1>3. \A k \in Jobs : JobTyped(job'[k])
  BY <1>2, AfterRunIs, LateTyped DEF Typed, JobsTyped
<1>4. job' = [k \in Jobs |-> job'[k]]
  BY <1>1
<1> QED
  BY <1>2, <1>3, <1>4, AfterRunIs DEF JobsTyped

(***************************************************************************)
(* The captures that are listed.                                           *)
(***************************************************************************)
\* The same captures, j apart, each once.
Sifted(l, j) ==
  /\ l \in Seq(Jobs)
  /\ \A i \in DOMAIN l : l[i] # j /\ Newest(l[i])
  /\ \A i, k \in DOMAIN l : l[i] = l[k] => i = k

LEMMA PlaceIs ==
  ASSUME ListedTyped, NEW j, Newest(j)
  PROVE  /\ Place(j) \in 1 .. Len(listed) /\ listed[Place(j)] = j
         /\ \A i \in DOMAIN listed : listed[i] = j => i = Place(j)
<1>1. Place(j) \in DOMAIN listed /\ listed[Place(j)] = j
  BY DEF Newest, Place
<1> QED
  BY <1>1 DEF ListedTyped

LEMMA AfterIs ==
  ASSUME ListedTyped, NEW j, Newest(j)
  PROVE  Sifted(After(j), j)
<1> DEFINE p == Place(j)
<1>1. /\ p \in 1 .. Len(listed) /\ listed[p] = j
      /\ \A i \in DOMAIN listed : listed[i] = j => i = p
  BY PlaceIs
<1> HIDE DEF p
<1>2. listed \in Seq(Jobs)
  BY DEF ListedTyped
<1>3. After(j) = SubSeq(listed, p + 1, Len(listed))
  BY DEF After, p
<1>4. After(j) \in Seq(Jobs) /\ Len(After(j)) = Len(listed) - p
      /\ \A i \in 1 .. Len(listed) - p : After(j)[i] = listed[p + i]
  BY <1>1, <1>2, <1>3
<1>5. \A i \in DOMAIN After(j) : p + i \in DOMAIN listed /\ p + i # p
  BY <1>1, <1>2, <1>4
<1>6. ASSUME NEW i \in DOMAIN After(j)
      PROVE  After(j)[i] # j /\ Newest(After(j)[i])
  <2>1. After(j)[i] = listed[p + i]
    BY <1>4
  <2> QED
    BY <1>1, <1>5, <2>1 DEF Newest
<1>7. ASSUME NEW i \in DOMAIN After(j), NEW k \in DOMAIN After(j), After(j)[i] = After(j)[k]
      PROVE  i = k
  <2>1. listed[p + i] = listed[p + k]
    BY <1>4, <1>7
  <2>2. p + i = p + k
    BY <1>5, <2>1 DEF ListedTyped
  <2> QED
    BY <1>1, <1>2, <1>4, <2>2
<1> QED
  BY <1>4, <1>6, <1>7 DEF Sifted

LEMMA WithoutIs ==
  ASSUME ListedTyped, NEW j
  PROVE  /\ Sifted(Without(j), j)
         /\ \A k : Newest(k) /\ k # j => \E i \in DOMAIN Without(j) : Without(j)[i] = k
<1>1. CASE ~Newest(j)
  BY <1>1 DEF Without, Sifted, ListedTyped, Newest
<1>2. CASE Newest(j)
  <2> DEFINE p == Place(j)
             w == Without(j)
  <2>1. /\ p \in 1 .. Len(listed) /\ listed[p] = j
        /\ \A i \in DOMAIN listed : listed[i] = j => i = p
    BY <1>2, PlaceIs
  <2>2. listed \in Seq(Jobs)
    BY DEF ListedTyped
  <2>3. w = SubSeq(listed, 1, p - 1) \o SubSeq(listed, p + 1, Len(listed))
    BY <1>2 DEF Without, After
  <2> HIDE DEF p, w
  <2> DEFINE at(i) == IF i < p THEN i ELSE i + 1
  <2> DEFINE u == SubSeq(listed, 1, p - 1)
             v == SubSeq(listed, p + 1, Len(listed))
  <2>11. /\ u \in Seq(Jobs) /\ Len(u) = p - 1
         /\ v \in Seq(Jobs) /\ Len(v) = Len(listed) - p
         /\ \A i \in 1 .. p - 1 : u[i] = listed[i]
         /\ \A i \in 1 .. Len(listed) - p : v[i] = listed[p + i]
    BY <2>1, <2>2
  <2> HIDE DEF u, v
  <2>12. /\ w \in Seq(Jobs) /\ Len(w) = Len(u) + Len(v)
         /\ \A i \in 1 .. Len(u) + Len(v) : w[i] = IF i <= Len(u) THEN u[i] ELSE v[i - Len(u)]
    BY <2>3, <2>11, ConcatProperties DEF u, v
  <2>4. w \in Seq(Jobs) /\ Len(w) = Len(listed) - 1
    BY <2>1, <2>2, <2>11, <2>12
  <2>5. \A i \in 1 .. Len(listed) - 1 :
          w[i] = listed[at(i)] /\ at(i) \in DOMAIN listed /\ at(i) # p
    <3> SUFFICES ASSUME NEW i \in 1 .. Len(listed) - 1
                 PROVE  w[i] = listed[at(i)] /\ at(i) \in DOMAIN listed /\ at(i) # p
      OBVIOUS
    <3>2. CASE i < p
      <4>1. i \in 1 .. p - 1 /\ i \in 1 .. Len(u) + Len(v) /\ i <= Len(u)
        BY <2>1, <2>2, <2>11, <3>2
      <4>3. w[i] = u[i] /\ u[i] = listed[i]
        BY <2>11, <2>12, <4>1
      <4>2. w[i] = listed[i]
        BY <4>3
      <4> QED
        BY <2>1, <2>2, <3>2, <4>2
    <3>3. CASE ~(i < p)
      <4>3. i \in 1 .. Len(u) + Len(v) /\ ~(i <= Len(u)) /\ i - Len(u) = i - (p - 1)
        BY <2>1, <2>2, <2>11, <3>3
      <4>4. w[i] = v[i - Len(u)]
        BY <2>12, <4>3
      <4>1. w[i] = v[i - (p - 1)] /\ i - (p - 1) \in 1 .. Len(listed) - p
        BY <2>1, <2>2, <3>3, <4>3, <4>4
      <4>2. w[i] = listed[p + (i - (p - 1))]
        BY <2>11, <4>1
      <4> QED
        BY <2>1, <2>2, <3>3, <4>2
    <3> QED
      BY <3>2, <3>3
  <2>6. \A i, k \in 1 .. Len(listed) - 1 : at(i) = at(k) => i = k
    BY <2>1, <2>2
  <2>7. \A i \in DOMAIN listed : i # p => \E k \in 1 .. Len(listed) - 1 : at(k) = i
    <3> SUFFICES ASSUME NEW i \in DOMAIN listed, i # p
                 PROVE  \E k \in 1 .. Len(listed) - 1 : at(k) = i
      OBVIOUS
    <3>1. CASE i < p
      BY <2>1, <2>2, <3>1
    <3>2. CASE i > p
      <4>1. i - 1 \in 1 .. Len(listed) - 1 /\ at(i - 1) = i
        BY <2>1, <2>2, <3>2
      <4> QED
        BY <4>1
    <3> QED
      BY <2>1, <2>2, <3>1, <3>2
  <2> HIDE DEF at
  <2>8. DOMAIN w = 1 .. Len(listed) - 1
    BY <2>4
  <2>9. Sifted(w, j)
    <3>1. \A i \in DOMAIN w : w[i] # j /\ Newest(w[i])
      BY <2>1, <2>5, <2>8 DEF Newest
    <3>2. \A i, k \in DOMAIN w : w[i] = w[k] => i = k
      BY <2>5, <2>6, <2>8 DEF ListedTyped
    <3> QED
      BY <2>4, <3>1, <3>2 DEF Sifted
  <2>10. ASSUME NEW k, Newest(k), k # j PROVE \E i \in DOMAIN w : w[i] = k
    <3>1. PICK i \in DOMAIN listed : listed[i] = k
      BY <2>10 DEF Newest
    <3>2. i # p
      BY <2>1, <2>10, <3>1
    <3> QED
      BY <2>5, <2>7, <2>8, <3>1, <3>2
  <2> QED
    BY <2>9, <2>10 DEF w
<1> QED
  BY <1>1, <1>2

\* A listing is as typed as before when its captures are the same, j apart.
LEMMA SiftedTyped ==
  ASSUME ListedTyped, NEW j \in Jobs, NEW l, Sifted(l, j), listed' = l,
         \A k \in Jobs : k # j => job'[k].step = job[k].step
  PROVE  ListedTyped'
<1>1. \A i \in DOMAIN l : l[i] \in Jobs /\ l[i] # j /\ job[l[i]].step = "listed"
  BY DEF Sifted, ListedTyped, Newest
<1> QED
  BY <1>1 DEF Sifted, ListedTyped

LEMMA JobStepTyped ==
  ASSUME PortfolioAssumption, Typed, NEW j \in Jobs, Step(j) \/ Fail(j)
  PROVE  Typed'
<1>1. JobsTyped /\ ListedTyped /\ VenueTyped /\ OrderTyped /\ TruthTyped
      /\ rows \in [RowIds -> Nat] /\ JobTyped(job[j])
  BY DEF Typed, JobsTyped
<1>2. UNCHANGED <<venueVars, orderVars>>
  BY DEF Step, Begin, List, Store, Rebuild, Finish, Fail
<1>3. VenueTyped' /\ OrderTyped'
  BY <1>1, <1>2 DEF venueVars, orderVars, VenueTyped, OrderTyped, AtVenue, Lot
<1>4. CASE Begin(j)
  <2>1. JobsTyped' /\ job'[j].step = "local" /\ \A k \in Jobs : k # j => job'[k] = Spoilt(job[k])
    BY <1>4, BeginEffect
  <2>2. job[j].step = "idle" /\ UNCHANGED <<rows, listed, truthVars>>
    BY <1>4 DEF Begin
  <2>3. \A k \in Jobs : k # j => job'[k].step = job[k].step
    BY <1>1, <2>1, SpoiltTyped DEF JobsTyped
  <2>4. ListedTyped'
    BY <1>1, <2>2, <2>3 DEF ListedTyped
  <2>5. TruthTyped'
    BY <1>1, <2>2 DEF TruthTyped, truthVars
  <2> QED
    BY <1>1, <1>3, <2>1, <2>2, <2>4, <2>5 DEF Typed
<1>5. CASE List(j)
  <2>1. JobsTyped' /\ job'[j].step = "listed" /\ Kept(j)
    BY <1>5, ListEffect
  <2>2. job[j].step = "local" /\ listed' = Append(listed, j) /\ UNCHANGED <<rows, truthVars>>
    BY <1>5 DEF List
  <2>3. ListedTyped'
    <3>1. \A i \in DOMAIN listed : listed[i] \in Jobs /\ listed[i] # j
      BY <1>1, <2>2 DEF ListedTyped
    <3>2. listed' \in Seq(Jobs) /\ DOMAIN listed' = 1 .. Len(listed) + 1
          /\ listed'[Len(listed) + 1] = j /\ \A i \in DOMAIN listed : listed'[i] = listed[i]
      BY <1>1, <2>2 DEF ListedTyped
    <3>3. \A i \in DOMAIN listed' : i # Len(listed) + 1 => i \in DOMAIN listed
      BY <1>1, <3>2 DEF ListedTyped
    <3>4. \A i \in DOMAIN listed' : job'[listed'[i]].step = "listed"
      BY <1>1, <2>1, <3>1, <3>2, <3>3 DEF ListedTyped, Kept
    <3>5. \A i, k \in DOMAIN listed' : listed'[i] = listed'[k] => i = k
      <4> SUFFICES ASSUME NEW i \in DOMAIN listed', NEW k \in DOMAIN listed',
                          listed'[i] = listed'[k]
                   PROVE  i = k
        OBVIOUS
      <4>1. CASE i \in DOMAIN listed /\ k \in DOMAIN listed
        BY <1>1, <3>2, <4>1 DEF ListedTyped
      <4>2. CASE i \notin DOMAIN listed \/ k \notin DOMAIN listed
        BY <3>1, <3>2, <3>3, <4>2
      <4> QED
        BY <4>1, <4>2
    <3> QED
      BY <3>2, <3>4, <3>5 DEF ListedTyped
  <2>4. TruthTyped'
    BY <1>1, <2>2 DEF TruthTyped, truthVars
  <2> QED
    BY <1>1, <1>3, <2>1, <2>2, <2>3, <2>4 DEF Typed
<1>6. CASE Store(j)
  <2>1. JobsTyped' /\ Kept(j)
    BY <1>6, StoreEffect
  <2>2. rows' = rows
    BY <1>6 DEF Store
  <2>3. CASE Newest(j)
    <3>1. ListedTyped'
      BY <1>1, <1>6, <2>1, <2>3, AfterIs, SiftedTyped DEF Store, Kept
    <3>2. completed' = [recovery |-> job[j].recovery, sound |-> job[j].sound]
          /\ latest' = [owner |-> IF j \in Refreshers THEN j ELSE Nobody, loss |-> 0]
      BY <1>6, <2>3 DEF Store
    <3>3. TruthTyped'
      BY <1>1, <3>2 DEF TruthTyped, JobTyped
    <3> QED
      BY <1>1, <1>3, <2>1, <2>2, <3>1, <3>3 DEF Typed
  <2>4. CASE ~Newest(j)
    <3>1. UNCHANGED <<listed, truthVars>>
      BY <1>6, <2>4 DEF Store
    <3>2. \A i \in DOMAIN listed : listed[i] # j /\ listed[i] \in Jobs
      BY <1>1, <2>4 DEF Newest, ListedTyped
    <3>3. ListedTyped'
      BY <1>1, <2>1, <3>1, <3>2 DEF ListedTyped, Kept
    <3>4. TruthTyped'
      BY <1>1, <3>1 DEF TruthTyped, truthVars
    <3> QED
      BY <1>1, <1>3, <2>1, <2>2, <3>3, <3>4 DEF Typed
  <2> QED
    BY <2>3, <2>4
<1>7. CASE Rebuild(j)
  <2>1. JobsTyped' /\ Kept(j)
    BY <1>7, RebuildEffect
  <2>2. job[j].step = "stored" /\ rows' = Rebuilt(job[j].seen, job[j].quantity)
        /\ UNCHANGED <<listed, truthVars>>
    BY <1>7 DEF Rebuild
  <2>3. rows' \in [RowIds -> Nat]
    <3>1. job[j].quantity \in Nat
      BY <1>1 DEF JobTyped
    <3> QED
      BY <1>1, <2>2, <3>1 DEF Rebuilt
  <2>4. ListedTyped'
    <3>1. \A i \in DOMAIN listed : listed[i] # j /\ listed[i] \in Jobs
      BY <1>1, <2>2 DEF ListedTyped
    <3> QED
      BY <1>1, <2>1, <2>2, <3>1 DEF ListedTyped, Kept
  <2>5. TruthTyped'
    BY <1>1, <2>2 DEF TruthTyped, truthVars
  <2> QED
    BY <1>3, <2>1, <2>3, <2>4, <2>5 DEF Typed
<1>8. CASE Finish(j)
  <2>1. JobsTyped' /\ Kept(j)
    BY <1>8, FinishEffect
  <2>2. job[j].step = "rebuilt" /\ UNCHANGED <<rows, listed, completed>>
    BY <1>8 DEF Finish
  <2>3. ListedTyped'
    <3>1. \A i \in DOMAIN listed : listed[i] # j /\ listed[i] \in Jobs
      BY <1>1, <2>2 DEF ListedTyped
    <3> QED
      BY <1>1, <2>1, <2>2, <3>1 DEF ListedTyped, Kept
  <2>4. latest' = [owner |-> Nobody, loss |-> LossOf(job[j].fills)] \/ latest' = latest
    BY <1>8 DEF Finish
  <2>5. TruthTyped'
    BY <1>1, <2>2, <2>4 DEF TruthTyped
  <2> QED
    BY <1>1, <1>3, <2>1, <2>2, <2>3, <2>5 DEF Typed
<1>9. CASE Fail(j)
  <2>1. JobsTyped' /\ \A k \in Jobs : k # j => job'[k] = Late(job[k])
    BY <1>9, FailEffect
  <2>2. \A k \in Jobs : k # j => job'[k].step = job[k].step
    BY <1>1, <2>1, LateTyped DEF JobsTyped
  <2>3. listed' = Without(j) /\ UNCHANGED <<rows, completed, latest>>
    BY <1>9 DEF Fail
  <2>4. ListedTyped'
    BY <1>1, <2>2, <2>3, WithoutIs, SiftedTyped
  <2>5. TruthTyped'
    BY <1>1, <2>3 DEF TruthTyped
  <2> QED
    BY <1>1, <1>3, <2>1, <2>3, <2>4, <2>5 DEF Typed
<1> QED
  BY <1>4, <1>5, <1>6, <1>7, <1>8, <1>9 DEF Step

LEMMA TypedStep == PortfolioAssumption /\ Typed /\ [Next]_vars => Typed'
<1> SUFFICES ASSUME PortfolioAssumption, Typed, [Next]_vars PROVE Typed'
  OBVIOUS
<1>1. CASE PostOrder \/ Match \/ Cancel \/ End
  BY <1>1, VenueStepTyped
<1>2. CASE CatchUp
  <2>1. VenueTyped'
    BY <1>2 DEF CatchUp, Typed, VenueTyped
  <2>2. UNCHANGED <<balance, orderVars, rows, job, listed, truthVars>>
    BY <1>2 DEF CatchUp
  <2> QED
    BY <2>1, <2>2 DEF Typed, OrderTyped, AtVenue, Lot, JobsTyped, ListedTyped, TruthTyped,
      orderVars, truthVars
<1>3. CASE Record \/ Resolve
  <2>1. UNCHANGED <<venueVars, posts, fills, rows, job, listed, truthVars>>
    BY <1>3 DEF Record, Resolve, Rowed
  <2>2. OrderTyped'
    <3>1. OrderTyped /\ fills \in Seq(LotSet)
      BY DEF Typed, OrderTyped
    <3>2. CASE Record
      BY <3>1, <3>2 DEF Record, Rowed, venueVars, OrderTyped, AtVenue, Lot
    <3>3. CASE Resolve
      BY <3>1, <3>3 DEF Resolve, Rowed, venueVars, OrderTyped, AtVenue, Lot
    <3> QED
      BY <1>3, <3>2, <3>3
  <2> QED
    BY <2>1, <2>2 DEF Typed, VenueTyped, JobsTyped, ListedTyped, TruthTyped, venueVars,
      truthVars
<1>4. CASE \E j \in Jobs : Step(j) \/ Fail(j)
  BY <1>4, JobStepTyped
<1>5. CASE Crash
  <2>1. UNCHANGED <<venueVars, orderVars, rows, completed>>
    BY <1>5 DEF Crash
  <2>2. VenueTyped' /\ OrderTyped'
    BY <2>1 DEF Typed, venueVars, orderVars, VenueTyped, OrderTyped, AtVenue, Lot
  <2>3. job' = [j \in Jobs |-> Rested] /\ listed' = <<>>
    BY <1>5 DEF Crash
  <2>4. JobsTyped' /\ ListedTyped'
    BY <2>3, RestedTyped DEF JobsTyped, ListedTyped
  <2>5. TruthTyped'
    BY <1>5, <2>1 DEF Crash, Typed, TruthTyped
  <2> QED
    BY <2>1, <2>2, <2>4, <2>5 DEF Typed
<1>6. CASE UNCHANGED vars
  BY <1>6 DEF vars, venueVars, orderVars, truthVars, Typed, VenueTyped, OrderTyped, AtVenue,
    Lot, JobsTyped, ListedTyped, TruthTyped
<1> QED
  BY <1>1, <1>2, <1>3, <1>4, <1>5, <1>6 DEF Next

(***************************************************************************)
(* TypeCorrect: the account, its orders and fills, the position rows and   *)
(* the captures under way keep their types; a listed capture is listed     *)
(* once until it is stored (ExternalPortfolioService, RefreshPortfolioJob).*)
(***************************************************************************)
THEOREM TypeCorrect == ASSUME PortfolioAssumption PROVE Spec => []TypeOK
<1>1. Typed => TypeOK
  <2> SUFFICES ASSUME Typed PROVE TypeOK
    OBVIOUS
  <2>1. \A j \in Jobs : job[j].step \in Steps
    BY DEF Typed, JobsTyped, JobTyped
  <2> QED
    BY <2>1 DEF Typed, TypeOK, VenueTyped, OrderTyped, ListedTyped, TruthTyped, Steps
<1> QED
  BY <1>1, TypedInit, TypedStep, PTL DEF Spec

-----------------------------------------------------------------------------
(* Entries mean truth                                                       *)

Same == Held = balance \/ (over = "lost" /\ Held = 0)

\* A sound capture or refresh has the account for itself until it is stored.
Alone ==
  \A j \in Jobs : job[j].sound =>
    /\ job[j].step \in {"local", "listed"}
    /\ \A k \in Jobs : k # j => job[k].step \in {"idle", "done"}

\* What it read locally is so; an order without a row is not among its rows.
Begun ==
  \A j \in Jobs : job[j].sound =>
    /\ job[j].seen = Open
    /\ job[j].step = "local" => /\ job[j].held = Held
                                /\ order = "posted" => job[j].working = {}

\* When it is listed, what it found is right.
Agreed ==
  \A j \in Jobs : job[j].sound /\ job[j].step = "listed" =>
    Same /\ order # "posted" /\ job[j].quantity = balance

\* While the newest checkpoint is sound, only its refresh may still write the rows,
\* and a capture that is listed comes after it.
Settled ==
  completed.sound =>
    /\ Same /\ order # "posted"
    /\ \A j \in Jobs : job[j].step = "stored" => job[j].seen = Open /\ job[j].quantity = balance
    /\ \A j, k \in Jobs : job[j].step = "stored" /\ job[k].step = "stored" => j = k
    /\ \A j \in Jobs : job[j].step = "listed" => Newest(j)

Truth == Alone /\ Begun /\ Agreed /\ Settled

LEMMA SameRows == UNCHANGED rows => Held' = Held /\ Open' = Open
BY DEF Held, Open

\* A refresh that saw the open rows leaves the quantity it took over.
LEMMA RebuiltHolds ==
  ASSUME PortfolioAssumption, rows \in [RowIds -> Nat], NEW q \in Nat,
         Open = {} /\ q > 0 => Spare # {}, rows' = Rebuilt(Open, q)
  PROVE  Held' = q
<1> DEFINE Least(s) == CHOOSE i \in s : \A k \in s : i <= k
           kept == IF Open # {} THEN {Least(Open)} ELSE IF q > 0 THEN {Least(Spare)} ELSE {}
<1>1. ASSUME NEW s, s \subseteq RowIds, s # {} PROVE Least(s) \in s
  <2>1. \E i \in s : \A k \in s : i <= k
    BY <1>1, LeastNumber DEF PortfolioAssumption
  <2> QED
    BY <2>1
<1>2. Open \subseteq RowIds /\ Spare \subseteq RowIds /\ \A i \in RowIds \ Open : rows[i] = 0
  BY DEF Open, Spare
<1>3. rows' = [i \in RowIds |-> IF i \in kept THEN q ELSE IF i \in Open THEN 0 ELSE rows[i]]
  BY DEF Rebuilt
<1> HIDE DEF Least
<1>4. Held' = HeldBy(rows')
  BY DEF Held, HeldBy
<1>5. CASE kept = {}
  <2>1. q = 0 /\ Open = {}
    BY <1>5
  <2>2. \A i \in RowIds : rows'[i] = IF i = 0 THEN q ELSE 0
    BY <1>2, <1>3, <1>5, <2>1
  <2>3. HeldBy(rows') = IF 0 \in RowIds THEN q ELSE 0
    BY <2>2, HeldByOne
  <2> QED
    BY <1>4, <2>1, <2>3
<1>6. CASE kept # {}
  <2>1. PICK k \in RowIds : kept = {k}
    BY <1>1, <1>2, <1>6
  <2> HIDE DEF kept
  <2>2. \A i \in RowIds : rows'[i] = IF i = k THEN q ELSE 0
    BY <1>2, <1>3, <2>1
  <2>3. HeldBy(rows') = IF k \in RowIds THEN q ELSE 0
    BY <2>2, HeldByOne
  <2> QED
    BY <1>4, <2>3
<1> QED
  BY <1>5, <1>6

\* A capture that allows entries found the venue and the local rows alike.
LEMMA EntriesAgree ==
  ASSUME Typed, NEW j \in Jobs, NEW age,
         Permissions(Freshness(age), Recovery(Divergence(Reading, Local(j)))).entries
  PROVE  /\ balance = data.size
         /\ job[j].held = data.size \/ (job[j].held = 0 /\ data.lost)
         /\ AtVenue => posts \in job[j].working
<1> DEFINE r == Reading
           l == Local(j)
           d == Divergence(r, l)
<1>1. Recovery(d) = "none"
  BY DEF Permissions
<1>2. d = {}
  BY <1>1 DEF Recovery
<1>3. Mismatched(r, l) = {} /\ BalanceOff(r) = {} /\ {o.id : o \in r.orders} \ l.orders = {}
  <2>1. "inventory_mismatch" \notin d /\ "balance_mismatch" \notin d
        /\ "order_unknown_to_local" \notin d
    BY <1>2
  <2> QED
    BY <2>1 DEF Divergence
<1>4. r.size[Token] = data.size /\ r.balance[Token] = balance /\ r.lost[Token] = data.lost
  BY DEF Reading
<1>5. l.held[Token] = job[j].held /\ l.orders = job[j].working
  BY DEF Local
<1>6. balance = data.size
  BY <1>3, <1>4 DEF BalanceOff
<1>7. job[j].held = data.size \/ (job[j].held = 0 /\ data.lost)
  BY <1>3, <1>4, <1>5 DEF Mismatched, Residue
<1>8. ASSUME AtVenue PROVE posts \in job[j].working
  <2>1. r.orders = {[id |-> i, token |-> Token] : i \in {posts}}
    BY <1>8 DEF Reading, OrdersIf
  <2>2. [id |-> posts, token |-> Token] \in r.orders
    BY <2>1
  <2>3. [id |-> posts, token |-> Token].id \in {o.id : o \in r.orders}
    BY <2>2
  <2>4. posts \in {o.id : o \in r.orders}
    BY <2>3
  <2> QED
    BY <1>3, <1>5, <2>4
<1> QED
  BY <1>6, <1>7, <1>8

LEMMA TruthInit == Init => Truth
<1> SUFFICES ASSUME Init PROVE Truth
  OBVIOUS
<1>1. \A j \in Jobs : ~job[j].sound
  BY DEF Init, Rested
<1>2. ~completed.sound
  BY DEF Init
<1> QED
  BY <1>1, <1>2 DEF Truth, Alone, Begun, Agreed, Settled

\* What happens at the venue spoils what was read.
LEMMA DisturbedTruth == Typed /\ Disturbed => Truth'
<1> SUFFICES ASSUME Typed, Disturbed PROVE Truth'
  OBVIOUS
<1>1. \A j \in Jobs : job'[j] = Spoilt(job[j])
  BY DEF Disturbed, Spoilt
<1>2. \A j \in Jobs : ~job'[j].sound
  BY <1>1, SpoiltTyped DEF Typed, JobsTyped
<1>3. ~completed'.sound
  <2>1. completed' = [completed EXCEPT !.sound = FALSE]
    BY DEF Disturbed
  <2>2. completed = [recovery |-> completed.recovery, sound |-> completed.sound]
    BY DEF Typed, TruthTyped
  <2> QED
    BY <2>1, <2>2
<1> QED
  BY <1>2, <1>3 DEF Truth, Alone, Begun, Agreed, Settled

\* The rows of orders and what the Data API shows do not spoil it.
LEMMA RecordTruth ==
  ASSUME Truth, UNCHANGED <<balance, over, rows, job, listed, completed>>,
         order' = "posted" => order = "posted"
  PROVE  Truth'
<1>1. Held' = Held /\ Open' = Open
  BY SameRows
<1>2. Alone'
  BY DEF Truth, Alone
<1>3. Begun'
  BY <1>1 DEF Truth, Begun
<1>4. Agreed'
  BY <1>1 DEF Truth, Agreed, Same
<1>5. Settled'
  BY <1>1 DEF Truth, Settled, Same, Newest
<1> QED
  BY <1>2, <1>3, <1>4, <1>5 DEF Truth

LEMMA BeginTruth ==
  ASSUME Typed, Truth, NEW j \in Jobs, Begin(j)
  PROVE  Truth'
<1>1. /\ job'[j].step = "local" /\ (job'[j].sound => Busy = {})
      /\ job'[j].seen = Open /\ job'[j].held = Held /\ job'[j].working = OrdersIf(WorkingRow)
      /\ \A k \in Jobs : k # j => job'[k] = Spoilt(job[k])
  BY BeginEffect
<1>2. \A k \in Jobs : k # j => /\ job'[k].step = job[k].step /\ ~job'[k].sound
                               /\ job'[k].seen = job[k].seen
                               /\ job'[k].quantity = job[k].quantity
  BY <1>1, SpoiltTyped DEF Typed, JobsTyped
<1>3. UNCHANGED <<venueVars, orderVars, rows, listed, truthVars>>
  BY DEF Begin
<1>4. Held' = Held /\ Open' = Open /\ Same' = Same /\ order' = order
  BY <1>3, SameRows DEF Same, venueVars, orderVars
<1>5. Alone'
  <2>1. job'[j].sound => \A k \in Jobs : k # j => job'[k].step \in {"idle", "done"}
    BY <1>1, <1>2 DEF Busy
  <2> QED
    BY <1>1, <1>2, <2>1 DEF Alone
<1>6. Begun'
  <2>1. order = "posted" => job'[j].working = {}
    BY <1>1 DEF OrdersIf, WorkingRow
  <2> QED
    BY <1>1, <1>2, <1>4, <2>1 DEF Begun
<1>7. Agreed'
  BY <1>1, <1>2 DEF Agreed
<1>8. Settled'
  <2>1. balance' = balance /\ listed' = listed /\ completed' = completed
    BY <1>3 DEF venueVars, truthVars
  <2> QED
    BY <1>1, <1>2, <1>4, <2>1 DEF Truth, Settled, Newest
<1> QED
  BY <1>5, <1>6, <1>7, <1>8 DEF Truth

LEMMA ListTruth ==
  ASSUME Typed, Truth, NEW j \in Jobs, List(j)
  PROVE  Truth'
<1>1. /\ job'[j].step = "listed" /\ job'[j].seen = job[j].seen
      /\ job'[j].quantity = Canonical(Reading, Token) /\ Kept(j)
      /\ job'[j].sound => /\ job[j].sound
                          /\ \E age \in Ages :
                               Permissions(Freshness(age),
                                 Recovery(Divergence(Reading, Local(j)))).entries
  BY ListEffect
<1>2. job[j].step = "local" /\ listed' = Append(listed, j)
      /\ UNCHANGED <<venueVars, orderVars, rows, truthVars>>
  BY DEF List
<1>3. Held' = Held /\ Open' = Open /\ Same' = Same /\ order' = order /\ balance' = balance
  BY <1>2, SameRows DEF Same, venueVars, orderVars
<1>4. \A k \in Jobs : k # j => ~job'[k].sound \/ ~job[j].sound
  BY <1>1, <1>2 DEF Truth, Alone, Kept
<1>5. \A k \in Jobs : k # j => ~job'[k].sound
  <2>1. \A k \in Jobs : k # j /\ job[k].sound => job[j].step \in {"idle", "done"}
    BY DEF Truth, Alone
  <2> QED
    BY <1>1, <1>2, <2>1 DEF Kept
<1>6. Alone'
  BY <1>1, <1>2, <1>5 DEF Truth, Alone, Kept
<1>7. Begun'
  BY <1>1, <1>3, <1>5 DEF Truth, Begun
<1>8. Agreed'
  <2> SUFFICES ASSUME job'[j].sound
               PROVE  Same /\ order # "posted" /\ job'[j].quantity = balance
    BY <1>3, <1>5 DEF Agreed
  <2>1. PICK age \in Ages :
          Permissions(Freshness(age), Recovery(Divergence(Reading, Local(j)))).entries
    BY <1>1
  <2>2. /\ balance = data.size
        /\ job[j].held = data.size \/ (job[j].held = 0 /\ data.lost)
        /\ AtVenue => posts \in job[j].working
    BY <2>1, EntriesAgree
  <2>3. job[j].held = Held /\ (order = "posted" => job[j].working = {})
    BY <1>1, <1>2 DEF Truth, Begun
  <2>4. Same
    BY <2>2, <2>3 DEF Same, Typed, VenueTyped
  <2>5. order # "posted"
    BY <2>2, <2>3 DEF AtVenue
  <2>6. job'[j].quantity = balance
    BY <1>1, <2>2, CanonicalIs
  <2> QED
    BY <2>4, <2>5, <2>6
<1>9. Settled'
  <2>1. Newest(j)' /\ \A k : Newest(k) => Newest(k)'
    <3>1. listed \in Seq(Jobs)
      BY DEF Typed, ListedTyped
    <3>2. /\ DOMAIN listed' = 1 .. Len(listed) + 1 /\ listed'[Len(listed) + 1] = j
          /\ \A i \in DOMAIN listed : i \in DOMAIN listed' /\ listed'[i] = listed[i]
      BY <1>2, <3>1
    <3>3. Len(listed) + 1 \in DOMAIN listed'
      BY <3>1, <3>2
    <3> QED
      BY <3>2, <3>3 DEF Newest
  <2>2. completed' = completed
    BY <1>2 DEF truthVars
  <2>3. \A k \in Jobs : job'[k].step = "stored" => k # j /\ job'[k] = job[k]
    BY <1>1 DEF Kept
  <2>4. \A k \in Jobs : job'[k].step = "listed" => k = j \/ job[k].step = "listed"
    BY <1>1 DEF Kept
  <2> QED
    BY <1>3, <2>1, <2>2, <2>3, <2>4 DEF Truth, Settled
<1> QED
  BY <1>6, <1>7, <1>8, <1>9 DEF Truth

\* A step of a job that is busy and not sound afterwards leaves no sound job.
LEMMA NoneSound ==
  ASSUME Truth, NEW j \in Jobs, job[j].step \notin {"idle", "done"}, ~job'[j].sound,
         \A k \in Jobs : k # j => job'[k].sound = job[k].sound
  PROVE  Alone' /\ Begun' /\ Agreed' /\ \A k \in Jobs : ~job'[k].sound
<1>1. \A k \in Jobs : ~job'[k].sound
  BY DEF Truth, Alone
<1> QED
  BY <1>1 DEF Alone, Begun, Agreed

LEMMA StoreTruth ==
  ASSUME Typed, Truth, NEW j \in Jobs, Store(j)
  PROVE  Truth'
<1>1. /\ Kept(j) /\ ~job'[j].sound /\ job'[j].step \in {"idle", "done", "stored"}
      /\ job'[j].step = "stored" => /\ job'[j].seen = job[j].seen
                                    /\ job'[j].quantity = job[j].quantity
  BY StoreEffect
<1>2. job[j].step = "listed" /\ UNCHANGED <<venueVars, orderVars, rows>>
  BY DEF Store
<1>3. Held' = Held /\ Open' = Open /\ Same' = Same /\ order' = order /\ balance' = balance
  BY <1>2, SameRows DEF Same, venueVars, orderVars
<1>4. Alone' /\ Begun' /\ Agreed'
  BY <1>1, <1>2, NoneSound DEF Kept
<1>5. CASE Newest(j)
  <2>1. completed' = [recovery |-> job[j].recovery, sound |-> job[j].sound]
    BY <1>5 DEF Store
  <2> SUFFICES ASSUME job[j].sound PROVE Settled'
    BY <1>4, <2>1 DEF Truth, Settled
  <2>2. Same /\ order # "posted" /\ job[j].quantity = balance /\ job[j].seen = Open
    BY <1>2 DEF Truth, Agreed, Begun
  <2>3. \A k \in Jobs : k # j => job'[k].step \in {"idle", "done"}
    BY <1>1 DEF Truth, Alone, Kept
  <2>4. \A k \in Jobs : job'[k].step \notin {"idle", "done"} => k = j /\ job'[k].step = "stored"
    BY <1>1, <2>3
  <2> QED
    BY <1>1, <1>3, <2>2, <2>4 DEF Settled
<1>6. CASE ~Newest(j)
  <2>1. ~completed.sound
    BY <1>2, <1>6 DEF Truth, Settled
  <2>2. completed' = completed
    BY <1>6 DEF Store, truthVars
  <2> QED
    BY <1>4, <2>1, <2>2 DEF Truth, Settled
<1> QED
  BY <1>5, <1>6

LEMMA RebuildTruth ==
  ASSUME PortfolioAssumption, Typed, Truth, NEW j \in Jobs, Rebuild(j)
  PROVE  Truth'
<1>1. Kept(j) /\ ~job'[j].sound /\ job'[j].step = "rebuilt"
  BY RebuildEffect
<1>2. /\ job[j].step = "stored"
      /\ job[j].seen = {} /\ job[j].quantity > 0 => Spare # {}
      /\ rows' = Rebuilt(job[j].seen, job[j].quantity)
      /\ UNCHANGED <<venueVars, orderVars, listed, truthVars>>
  BY DEF Rebuild
<1>3. Alone' /\ Begun' /\ Agreed'
  BY <1>1, <1>2, NoneSound DEF Kept
<1>4. Settled'
  <2> SUFFICES ASSUME completed.sound PROVE Settled'
    BY <1>2 DEF Settled, truthVars
  <2>1. job[j].seen = Open /\ job[j].quantity = balance /\ order # "posted"
    BY <1>2 DEF Truth, Settled
  <2>2. Held' = balance
    BY <1>2, <2>1, RebuiltHolds DEF Typed, VenueTyped
  <2>3. \A k \in Jobs : job'[k].step # "stored"
    BY <1>1, <1>2 DEF Truth, Settled, Kept
  <2>4. \A k \in Jobs : job'[k].step = "listed" => Newest(k)'
    BY <1>1, <1>2 DEF Truth, Settled, Kept, Newest
  <2> QED
    BY <1>2, <2>1, <2>2, <2>3, <2>4 DEF Settled, Same, venueVars, orderVars
<1> QED
  BY <1>3, <1>4 DEF Truth

LEMMA FinishTruth ==
  ASSUME Typed, Truth, NEW j \in Jobs, Finish(j)
  PROVE  Truth'
<1>1. Kept(j) /\ ~job'[j].sound /\ job'[j].step \in {"idle", "done"}
  BY FinishEffect
<1>2. job[j].step = "rebuilt" /\ UNCHANGED <<venueVars, orderVars, rows, listed, completed>>
  BY DEF Finish
<1>3. Alone' /\ Begun' /\ Agreed'
  BY <1>1, <1>2, NoneSound DEF Kept
<1>4. Held' = Held /\ Open' = Open /\ Same' = Same /\ order' = order /\ balance' = balance
  BY <1>2, SameRows DEF Same, venueVars, orderVars
<1>5. Settled'
  BY <1>1, <1>2, <1>4 DEF Truth, Settled, Kept, Newest
<1> QED
  BY <1>3, <1>5 DEF Truth

LEMMA FailTruth ==
  ASSUME Typed, Truth, NEW j \in Jobs, Fail(j)
  PROVE  Truth'
<1>1. /\ ~job'[j].sound /\ job'[j].step \in {"idle", "done"}
      /\ \A k \in Jobs : k # j => job'[k] = Late(job[k])
  BY FailEffect
<1>2. \A k \in Jobs : k # j => /\ job'[k].step = job[k].step /\ job'[k].sound = job[k].sound
                               /\ job'[k].seen = job[k].seen
                               /\ job'[k].quantity = job[k].quantity
  BY <1>1, LateTyped DEF Typed, JobsTyped
<1>3. /\ job[j].step \in {"local", "listed"} /\ listed' = Without(j)
      /\ UNCHANGED <<venueVars, orderVars, rows, completed>>
  BY DEF Fail
<1>4. Alone' /\ Begun' /\ Agreed'
  BY <1>1, <1>2, <1>3, NoneSound
<1>5. Held' = Held /\ Open' = Open /\ Same' = Same /\ order' = order /\ balance' = balance
  BY <1>3, SameRows DEF Same, venueVars, orderVars
<1>6. \A k : Newest(k) /\ k # j => Newest(k)'
  BY <1>3, WithoutIs DEF Typed, Newest
<1>7. Settled'
  BY <1>1, <1>2, <1>3, <1>5, <1>6 DEF Truth, Settled
<1> QED
  BY <1>4, <1>7 DEF Truth

LEMMA CrashTruth ==
  ASSUME Typed, Truth, Crash
  PROVE  Truth'
<1>1. \A j \in Jobs : ~job'[j].sound /\ job'[j].step = "idle"
  BY DEF Crash, Rested
<1>2. UNCHANGED <<venueVars, orderVars, rows, completed>>
  BY DEF Crash
<1>3. Same' = Same /\ order' = order
  BY <1>2, SameRows DEF Same, venueVars, orderVars
<1>4. Settled'
  BY <1>1, <1>2, <1>3 DEF Truth, Settled
<1> QED
  BY <1>1, <1>4 DEF Truth, Alone, Begun, Agreed

LEMMA TruthStep == PortfolioAssumption /\ Typed /\ Truth /\ [Next]_vars => Truth'
<1> SUFFICES ASSUME PortfolioAssumption, Typed, Truth, [Next]_vars PROVE Truth'
  OBVIOUS
<1>1. CASE PostOrder \/ Match \/ Cancel \/ End
  BY <1>1, DisturbedTruth DEF PostOrder, Match, Cancel, End
<1>2. CASE CatchUp
  BY <1>2, RecordTruth DEF CatchUp, orderVars, truthVars
<1>3. CASE Record \/ Resolve
  BY <1>3, RecordTruth DEF Record, Resolve, Rowed, venueVars, truthVars
<1>4. CASE \E j \in Jobs : Step(j) \/ Fail(j)
  BY <1>4, BeginTruth, ListTruth, StoreTruth, RebuildTruth, FinishTruth, FailTruth DEF Step
<1>5. CASE Crash
  BY <1>5, CrashTruth
<1>6. CASE UNCHANGED vars
  BY <1>6, RecordTruth DEF vars, venueVars, orderVars, truthVars
<1> QED
  BY <1>1, <1>2, <1>3, <1>4, <1>5, <1>6 DEF Next

(***************************************************************************)
(* EntriesTrue: while the newest checkpoint comes from an undisturbed      *)
(* capture that allows entries, the rows hold what the venue holds, a      *)
(* worthless token apart, and no order is at the venue without a row, also *)
(* while the refresh it belongs to rebuilds the rows and others begin,     *)
(* fail or crash (capturePortfolioTruth, reconcileOpenPositions).          *)
(***************************************************************************)
THEOREM EntriesTrue == ASSUME PortfolioAssumption PROVE Spec => []EntriesMeanTruth
<1>1. Truth => EntriesMeanTruth
  BY DEF Truth, Settled, Same, EntriesMeanTruth
<1>2. Init => Typed /\ Truth
  BY TypedInit, TruthInit
<1>3. Typed /\ Truth /\ [Next]_vars => (Typed /\ Truth)'
  BY TypedStep, TruthStep
<1> QED
  BY <1>1, <1>2, <1>3, PTL DEF Spec
=============================================================================
