------------------------ MODULE OrderLifecycleProofs ------------------------
(***************************************************************************)
(* Proofs about OrderLifecycle for every value of its constants: any       *)
(* number of signals, plans, attempts, reconciliations, crashes and lots.  *)
(***************************************************************************)
EXTENDS OrderLifecycle, FiniteSetTheorems, WellFoundedInduction, TLAPS

-----------------------------------------------------------------------------
(* Sums over the attempts                                                   *)

\* A set of numbers that is not empty has a least one.
LEMMA LeastNumber ==
  ASSUME NEW T, T \subseteq Nat, T # {}
  PROVE  \E x \in T : \A y \in T : x <= y
<1> DEFINE Less == {ss \in Nat \X Nat : ss[1] < ss[2]}
<1>1. IsWellFoundedOn(Less, Nat)
  BY NatLessThanWellFounded DEF OpToRel
<1>2. PICK x \in T : \A y \in T : ~(<<y, x>> \in Less)
  <2> HIDE DEF Less
  <2> QED
    BY <1>1, WFMin
<1>3. ASSUME NEW y \in T PROVE x <= y
  <2>1. y \in Nat /\ x \in Nat
    OBVIOUS
  <2>2. <<y, x>> \in Less <=> y < x
    BY <2>1
  <2>3. <<y, x>> \notin Less
    BY <1>2
  <2> QED
    BY <2>1, <2>2, <2>3
<1> QED
  BY <1>3

\* g holds the running sums of t up to n.
RunningSums(g, t, n) ==
  g \in [0 .. n -> Int] /\ g[0] = 0 /\ \A k \in 1 .. n : g[k] = g[k - 1] + t[k]

LEMMA RunningSumsExist ==
  ASSUME NEW t \in [Attempts -> Int]
  PROVE  \E g : RunningSums(g, t, MaxAttempts)
<1> DEFINE Bad == {n \in 0 .. MaxAttempts : ~ \E g : RunningSums(g, t, n)}
<1>1. ASSUME Bad # {} PROVE FALSE
  <2>1. PICK n \in Bad : \A k \in Bad : n <= k
    <3>1. Bad \subseteq Nat /\ Bad # {}
      BY <1>1, OrderAssumption
    <3> HIDE DEF Bad
    <3> QED
      BY <3>1, LeastNumber
  <2>2. n # 0
    <3>1. RunningSums([k \in 0 .. 0 |-> 0], t, 0)
      BY DEF RunningSums
    <3> QED
      BY <3>1, <2>1
  <2>3. n - 1 \in 0 .. MaxAttempts /\ n - 1 \notin Bad
    BY <2>1, <2>2, OrderAssumption
  <2>4. PICK g : RunningSums(g, t, n - 1)
    BY <2>3
  <2>5. RunningSums([k \in 0 .. n |-> IF k = n THEN g[n - 1] + t[n] ELSE g[k]], t, n)
    <3> DEFINE h == [k \in 0 .. n |-> IF k = n THEN g[n - 1] + t[n] ELSE g[k]]
    <3>1. n \in 1 .. MaxAttempts
      BY <2>1, <2>2, OrderAssumption
    <3>2. g \in [0 .. n - 1 -> Int] /\ g[0] = 0
      BY <2>4 DEF RunningSums
    <3>3. h \in [0 .. n -> Int]
      BY <3>1, <3>2, OrderAssumption DEF Attempts
    <3>4. h[0] = 0
      BY <3>1, <3>2, OrderAssumption
    <3>5. ASSUME NEW k \in 1 .. n PROVE h[k] = h[k - 1] + t[k]
      BY <3>1, <3>2, <2>4, OrderAssumption DEF RunningSums
    <3> QED
      BY <3>3, <3>4, <3>5 DEF RunningSums
  <2> QED
    BY <2>5, <2>1
<1> QED
  BY <1>1, OrderAssumption

\* What an attempt adds to a sum.
Part(f, S, a) == IF a \in S THEN f[a] ELSE 0

\* Sums is what its recursive definition says.
LEMMA SumsRun ==
  ASSUME NEW f \in [Attempts -> Int], NEW S
  PROVE  RunningSums(Sums(f, S), [a \in Attempts |-> Part(f, S, a)], MaxAttempts)
<1> DEFINE t == [a \in Attempts |-> Part(f, S, a)]
           F(u) == [n \in 0 .. MaxAttempts |->
                      IF n = 0 THEN 0 ELSE u[n - 1] + (IF n \in S THEN f[n] ELSE 0)]
<1>1. PICK g : RunningSums(g, t, MaxAttempts)
  <2>1. t \in [Attempts -> Int]
    BY DEF Part
  <2> QED
    BY <2>1, RunningSumsExist
<1>2. g = F(g)
  BY <1>1, OrderAssumption DEF RunningSums, Attempts, Part
<1>3. Sums(f, S) = CHOOSE u : u = F(u)
  BY DEF Sums
<1>4. Sums(f, S) = F(Sums(f, S))
  BY <1>2, <1>3
<1> DEFINE s == Sums(f, S)
<1> HIDE DEF s
<1>5. s = F(s)
  BY <1>4 DEF s
<1>6. s[0] = 0 /\ \A k \in 1 .. MaxAttempts : s[k] = s[k - 1] + t[k]
  BY <1>5, OrderAssumption DEF Attempts, Part
<1>7. s = g
  <2> DEFINE Bad == {n \in 0 .. MaxAttempts : s[n] # g[n]}
  <2>1. Bad = {}
    <3>1. SUFFICES ASSUME Bad # {} PROVE FALSE
      OBVIOUS
    <3>2. Bad \subseteq Nat
      BY OrderAssumption
    <3>3. PICK n \in Bad : \A k \in Bad : n <= k
      <4> HIDE DEF Bad
      <4> QED
        BY <3>1, <3>2, LeastNumber
    <3>4. n # 0
      BY <1>1, <1>6, <3>3 DEF RunningSums
    <3>5. n \in 1 .. MaxAttempts /\ n - 1 \in 0 .. MaxAttempts /\ n - 1 \notin Bad
      BY <3>3, <3>4, OrderAssumption
    <3> QED
      BY <1>1, <1>6, <3>3, <3>5 DEF RunningSums
  <2>2. g \in [0 .. MaxAttempts -> Int]
    BY <1>1 DEF RunningSums
  <2>3. \A n \in 0 .. MaxAttempts : s[n] = g[n]
    BY <2>1
  <2>4. s = [n \in 0 .. MaxAttempts |-> s[n]]
    BY <1>5
  <2> QED
    BY <2>2, <2>3, <2>4
<1> QED
  BY <1>1, <1>7 DEF s

LEMMA TotalInt ==
  ASSUME NEW f \in [Attempts -> Int], NEW S
  PROVE  Total(f, S) \in Int
BY SumsRun, OrderAssumption DEF Total, RunningSums

\* When no part is larger in the first sum, and one part is smaller by d, so is
\* the first sum.
LEMMA TotalShift ==
  ASSUME NEW f \in [Attempts -> Int], NEW g \in [Attempts -> Int], NEW S, NEW T,
         NEW b \in Attempts, NEW d \in Int,
         \A a \in Attempts \ {b} : Part(f, S, a) <= Part(g, T, a),
         Part(f, S, b) + d <= Part(g, T, b)
  PROVE  Total(f, S) + d <= Total(g, T)
<1> DEFINE u == [a \in Attempts |-> Part(f, S, a)]
           v == [a \in Attempts |-> Part(g, T, a)]
           Shift(n) == IF n >= b THEN d ELSE 0
           Bad == {n \in 0 .. MaxAttempts : ~(Sums(f, S)[n] + Shift(n) <= Sums(g, T)[n])}
<1>1. RunningSums(Sums(f, S), u, MaxAttempts) /\ RunningSums(Sums(g, T), v, MaxAttempts)
  BY SumsRun
<1>2. b \in 1 .. MaxAttempts
  BY DEF Attempts
<1>3. ASSUME Bad # {} PROVE FALSE
  <2>1. Bad \subseteq Nat
    BY OrderAssumption
  <2>2. PICK n \in Bad : \A k \in Bad : n <= k
    <3> HIDE DEF Bad
    <3> QED
      BY <1>3, <2>1, LeastNumber
  <2>3. n # 0
    BY <1>1, <1>2, <2>2, OrderAssumption DEF RunningSums
  <2>4. n \in 1 .. MaxAttempts /\ n - 1 \in 0 .. MaxAttempts /\ n - 1 \notin Bad
    BY <2>2, <2>3, OrderAssumption
  <2>5. Sums(f, S)[n - 1] + Shift(n - 1) <= Sums(g, T)[n - 1]
    BY <2>4
  <2>6. Sums(f, S)[n] = Sums(f, S)[n - 1] + Part(f, S, n)
        /\ Sums(g, T)[n] = Sums(g, T)[n - 1] + Part(g, T, n)
    BY <1>1, <2>4 DEF RunningSums, Attempts
  <2>7. Sums(f, S)[n] \in Int /\ Sums(f, S)[n - 1] \in Int
        /\ Sums(g, T)[n] \in Int /\ Sums(g, T)[n - 1] \in Int
    BY <1>1, <2>4, OrderAssumption DEF RunningSums
  <2>8. Part(f, S, n) \in Int /\ Part(g, T, n) \in Int /\ n \in Attempts
    BY <2>4 DEF Part, Attempts
  <2>9. CASE n = b
    <3>1. Shift(n) = d /\ Shift(n - 1) = 0
      BY <1>2, <2>9
    <3>2. Part(f, S, n) + d <= Part(g, T, n)
      BY <2>9
    <3>3. Sums(f, S)[n] + d <= Sums(g, T)[n]
      <4> HIDE DEF Shift
      <4> QED
        BY <2>5, <2>6, <2>7, <2>8, <3>1, <3>2
    <3> QED
      BY <2>2, <3>1, <3>3
  <2>10. CASE n # b
    <3>1. Shift(n) = Shift(n - 1) /\ Shift(n) \in Int
      BY <1>2, <2>4, <2>10, OrderAssumption
    <3>2. Part(f, S, n) <= Part(g, T, n)
      BY <2>8, <2>10
    <3>3. Sums(f, S)[n] + Shift(n) <= Sums(g, T)[n]
      <4> HIDE DEF Shift
      <4> QED
        BY <2>5, <2>6, <2>7, <2>8, <3>1, <3>2
    <3> QED
      BY <2>2, <3>3
  <2> QED
    BY <2>9, <2>10
<1>4. MaxAttempts \in 0 .. MaxAttempts /\ Shift(MaxAttempts) = d
  BY <1>2, OrderAssumption
<1> QED
  BY <1>3, <1>4 DEF Total

LEMMA TotalMonotone ==
  ASSUME NEW f \in [Attempts -> Int], NEW g \in [Attempts -> Int], NEW S, NEW T,
         \A a \in Attempts : Part(f, S, a) <= Part(g, T, a)
  PROVE  Total(f, S) <= Total(g, T)
<1>1. 1 \in Attempts
  BY OrderAssumption DEF Attempts
<1>2. Part(f, S, 1) + 0 <= Part(g, T, 1)
  BY <1>1 DEF Part
<1>3. Total(f, S) + 0 <= Total(g, T)
  BY <1>1, <1>2, TotalShift
<1>4. Total(f, S) \in Int
  BY TotalInt
<1> QED
  BY <1>3, <1>4

LEMMA TotalSame ==
  ASSUME NEW f \in [Attempts -> Int], NEW g \in [Attempts -> Int], NEW S, NEW T,
         \A a \in Attempts : Part(f, S, a) = Part(g, T, a)
  PROVE  Total(f, S) = Total(g, T)
<1>1. \A a \in Attempts : Part(f, S, a) \in Int
  BY DEF Part
<1>2. Total(f, S) <= Total(g, T)
  BY <1>1, TotalMonotone
<1>3. Total(g, T) <= Total(f, S)
  BY <1>1, TotalMonotone
<1>4. Total(f, S) \in Int /\ Total(g, T) \in Int
  BY TotalInt
<1> QED
  BY <1>2, <1>3, <1>4

\* A part that counts makes a sum of parts that are not negative positive.
LEMMA TotalPositive ==
  ASSUME NEW f \in [Attempts -> Int], NEW S, \A a \in Attempts : Part(f, S, a) >= 0,
         NEW b \in Attempts, Part(f, S, b) > 0
  PROVE  Total(f, S) > 0
<1> DEFINE Bad == {n \in 0 .. MaxAttempts : Sums(f, {})[n] # 0}
<1>1. RunningSums(Sums(f, {}), [a \in Attempts |-> Part(f, {}, a)], MaxAttempts)
  BY SumsRun
<1>2. ASSUME Bad # {} PROVE FALSE
  <2>1. Bad \subseteq Nat
    BY OrderAssumption
  <2>2. PICK n \in Bad : \A k \in Bad : n <= k
    <3> HIDE DEF Bad
    <3> QED
      BY <1>2, <2>1, LeastNumber
  <2>3. n # 0
    BY <1>1, <2>2 DEF RunningSums
  <2>4. n \in 1 .. MaxAttempts /\ n - 1 \in 0 .. MaxAttempts /\ n - 1 \notin Bad
    BY <2>2, <2>3, OrderAssumption
  <2> QED
    BY <1>1, <2>2, <2>4 DEF RunningSums, Attempts, Part
<1>3. Total(f, {}) = 0
  BY <1>2, OrderAssumption DEF Total
<1>4. \A a \in Attempts : Part(f, {}, a) = 0 /\ Part(f, S, a) \in Int
  BY DEF Part
<1>5. Total(f, {}) + 1 <= Total(f, S)
  <2>1. \A a \in Attempts \ {b} : Part(f, {}, a) <= Part(f, S, a)
    BY <1>4
  <2>2. Part(f, {}, b) + 1 <= Part(f, S, b)
    BY <1>4
  <2> QED
    BY <2>1, <2>2, TotalShift
<1> QED
  BY <1>3, <1>5, TotalInt

-----------------------------------------------------------------------------
(* Types                                                                    *)

Intents == {"prepared", "submitted", "unknown_visibility", "terminal"}
AttemptRecords == [signal : Signals, epoch : 0 .. MaxAttempts, plan : Plans, intent : Intents]
RowRecords == [status : RowStatuses, label : VenueLabels, error : ErrorTexts,
               filled : 0 .. Size, canceledAt : BOOLEAN]
Listings == {"missing", "live", "filled", "canceled"}
Ages == 0 .. 2
Calls == [at : 0 .. MaxAttempts, label : VenueLabels, rejects : BOOLEAN, lots : 0 .. Size]
Points == {"idle", "loaded", "listed", "managing", "cancel", "mark", "fills", "applying",
           "append", "done"}
LoopRecords ==
  [pc : Points, rows : [Attempts -> RowRecords], todo : SUBSET Attempts,
   open : [Attempts -> Listings], ages : [Attempts -> Ages], call : Calls,
   trades : [Attempts -> 0 .. Size], failed : BOOLEAN]
ExecRecords ==
  {Idle}
  \cup [pc : {"planned"}, signal : Signals, epoch : 0 .. MaxAttempts, plan : Plans]
  \cup [pc : {"checked"}, signal : Signals, epoch : 0 .. MaxAttempts, plan : Plans,
        position : Int, venueSame : Int]
  \cup [pc : {"prepared"}, at : Attempts]
  \cup [pc : {"answered", "stored"}, at : Attempts, reply : Replies]
BootRecords ==
  [pc : {"up", "down", "recovering"}, unresolved : SUBSET Attempts, open : SUBSET Attempts]

\* A reconciliation works on the first row it has left.
LoopAt(l) ==
  /\ l.pc \in {"cancel", "mark"} => l.todo # {} /\ l.call.at = Min(l.todo)
  /\ l.pc = "append" => l.call.at \in Attempts

\* Attempts are used in order, and a plan under way has one left or taken.
Numbered ==
  /\ \E k \in 0 .. MaxAttempts : Used = 1 .. k
  /\ exec.pc \in {"planned", "checked"} => Used # Attempts
  /\ exec.pc \in {"prepared", "answered", "stored"} => exec.at \in Used

BooksTyped ==
  /\ signal \in [Signals -> {"approved", "rejected"}]
  /\ attempt \in [Attempts -> AttemptRecords \cup {NoAttempt}]
  /\ row \in [Attempts -> RowRecords]
  /\ age \in [Attempts -> 0 .. 2]
  /\ booked \in [Attempts -> 0 .. Size] /\ ledger \in [Attempts -> 0 .. Size]
  /\ posLocal \in Int
WorldTyped ==
  /\ venue \in [Attempts -> [state : {"absent", "open", "filled", "canceled"},
                             executed : 0 .. Size]]
  /\ shown \in [Attempts -> [open : BOOLEAN, lots : 0 .. Size]]
  /\ lag \in {"nothing", "orders", "trades"}
JobsTyped ==
  /\ exec \in ExecRecords
  /\ loop \in [Reconcilers -> LoopRecords] /\ \A r \in Reconcilers : LoopAt(loop[r])
  /\ boot \in BootRecords
  /\ crashes \in 0 .. MaxCrashes

\* An open order has lots left and a filled one none.
Lotted ==
  \A a \in Attempts :
    /\ venue[a].state \in {"open", "canceled"} => venue[a].executed < Size
    /\ venue[a].state = "absent" => venue[a].executed = 0
    /\ venue[a].state = "filled" => venue[a].executed = Size

Typed == BooksTyped /\ WorldTyped /\ JobsTyped /\ Numbered /\ Lotted

LEMMA TypedImpliesTypeOK == Typed => TypeOK
BY DEF Typed, BooksTyped, WorldTyped, JobsTyped, TypeOK, AttemptRecords, RowRecords, Intents,
       ExecRecords, BootRecords, Idle

\* The least attempt of a set is one of them.
LEMMA MinIn ==
  ASSUME NEW T, T \subseteq Attempts, T # {}
  PROVE  Min(T) \in T
<1>1. T \subseteq Nat
  BY OrderAssumption DEF Attempts
<1>2. \E x \in T : \A y \in T : x <= y
  BY <1>1, LeastNumber
<1> QED
  BY <1>2 DEF Min

\* Positions and what rests at the venue are numbers.
LEMMA SumsTyped ==
  ASSUME Typed
  PROVE  /\ Reported \in [Attempts -> 0 .. Size]
         /\ ExternalPosition \in Int
         /\ \A side : OpenLots(side) \in Int
<1>1. Reported \in [Attempts -> 0 .. Size]
  BY DEF Typed, WorldTyped, Reported
<1>2. Size \in Nat
  BY OrderAssumption
<1>3. Reported \in [Attempts -> Int] /\ [a \in Attempts |-> Size - Reported[a]] \in [Attempts -> Int]
  BY <1>1, <1>2
<1> QED
  BY <1>1, <1>3, TotalInt DEF ExternalPosition, OpenLots

LEMMA TypedInit == Init => Typed
<1> SUFFICES ASSUME Init PROVE Typed
  OBVIOUS
<1>0. Size \in Nat /\ Size > 0 /\ MaxAttempts \in Nat /\ MaxCrashes \in Nat
  BY OrderAssumption
<1>1. BooksTyped
  BY <1>0 DEF Init, BooksTyped, RowRecords, NoRow, RowStatuses, VenueLabels, ErrorTexts
<1>2. WorldTyped
  BY <1>0, OrderAssumption DEF Init, WorldTyped
<1>3. IdleLoop \in LoopRecords /\ LoopAt(IdleLoop)
  BY <1>0 DEF IdleLoop, LoopRecords, LoopAt, Points, RowRecords, NoRow, RowStatuses,
            VenueLabels, ErrorTexts, Listings, None, NoCall, Calls, Ages
<1>4. JobsTyped
  <2>1. exec \in ExecRecords /\ boot \in BootRecords /\ crashes \in 0 .. MaxCrashes
    BY <1>0 DEF Init, ExecRecords, BootRecords, Up
  <2>2. \A r \in Reconcilers : loop[r] = IdleLoop
    BY DEF Init
  <2>3. loop \in [Reconcilers -> LoopRecords]
    BY <1>3 DEF Init
  <2> QED
    BY <1>3, <2>1, <2>2, <2>3, Zenon DEF JobsTyped
<1>5. Used = 1 .. 0
  BY DEF Init, Used, NoAttempt
<1>6. Numbered
  BY <1>0, <1>5 DEF Init, Numbered, Idle
<1>7. Lotted
  BY DEF Init, Lotted
<1> QED
  BY <1>1, <1>2, <1>4, <1>6, <1>7 DEF Typed

LEMMA BlanksTyped == NoRow \in RowRecords /\ NoCall \in Calls
<1>1. Size \in Nat /\ MaxAttempts \in Nat
  BY OrderAssumption
<1> QED
  BY <1>1 DEF RowRecords, NoRow, RowStatuses, VenueLabels, ErrorTexts, NoCall, Calls

\* A reconciliation that has nothing in hand.
LEMMA IdleLoopTyped == IdleLoop \in LoopRecords /\ LoopAt(IdleLoop)
<1>1. None \in [Attempts -> 0 .. Size] /\ None \in [Attempts -> Ages]
  BY OrderAssumption DEF None, Ages
<1>2. [a \in Attempts |-> NoRow] \in [Attempts -> RowRecords]
  BY BlanksTyped
<1>3. [a \in Attempts |-> "missing"] \in [Attempts -> Listings]
  BY DEF Listings
<1> QED
  BY <1>1, <1>2, <1>3, BlanksTyped DEF IdleLoop, LoopRecords, LoopAt, Points

LEMMA IdleTyped ==
  ASSUME NEW p \in Points \ {"cancel", "mark", "append"}, NEW f \in BOOLEAN
  PROVE  LET l == [IdleLoop EXCEPT !.pc = p, !.failed = f]
         IN  l \in LoopRecords /\ LoopAt(l)
<1>1. NoRow \in RowRecords /\ NoCall \in Calls
  BY BlanksTyped
<1>2. None \in [Attempts -> 0 .. Size] /\ None \in [Attempts -> Ages]
  BY OrderAssumption DEF None, Ages
<1>3. p \notin {"cancel", "mark", "append"}
  OBVIOUS
<1> QED
  BY <1>1, <1>2, <1>3 DEF IdleLoop, LoopRecords, LoopAt, Points, Listings

\* One step of a reconciliation.
LEMMA StepTyped ==
  ASSUME JobsTyped, NEW r \in Reconcilers, NEW l \in LoopRecords, LoopAt(l), Step(r, l)
  PROVE  /\ loop' \in [Reconcilers -> LoopRecords]
         /\ \A q \in Reconcilers : LoopAt(loop'[q])
<1>1. loop' = [loop EXCEPT ![r] = l] /\ loop \in [Reconcilers -> LoopRecords]
  BY DEF JobsTyped, Step
<1>2. ASSUME NEW q \in Reconcilers PROVE LoopAt(loop'[q])
  <2>1. CASE q = r
    <3>1. loop'[q] = l
      BY <1>1, <2>1
    <3> QED
      BY <3>1
  <2>2. CASE q # r
    <3>1. loop'[q] = loop[q]
      BY <1>1, <2>2
    <3> QED
      BY <3>1 DEF JobsTyped
  <2> QED
    BY <2>1, <2>2
<1>3. loop' \in [Reconcilers -> LoopRecords]
  BY <1>1
<1> QED
  BY <1>2, <1>3

\* What the jobs keep when only a reconciliation moves.
LEMMA LoopMoves ==
  ASSUME Typed, NEW r \in Reconcilers, NEW l \in LoopRecords, LoopAt(l), Step(r, l),
         UNCHANGED <<exec, boot, crashes>>
  PROVE  JobsTyped'
BY StepTyped DEF Typed, JobsTyped

\* What a row becomes when it is written back and the next one is taken.
LEMMA NextRowTyped ==
  ASSUME Typed, NEW r \in Reconcilers, NextRow(r), UNCHANGED <<exec, boot, crashes>>
  PROVE  JobsTyped'
<1> DEFINE a == Current(r)
           l == [loop[r] EXCEPT !.pc = "managing", !.todo = @ \ {a}, !.call = NoCall,
                   !.rows[a] = NoRow, !.open[a] = "missing", !.ages[a] = 0]
<1>1. loop[r] \in LoopRecords
  BY DEF Typed, JobsTyped
<1>2. NoRow \in RowRecords /\ NoCall \in Calls
  BY BlanksTyped
<1>3. 0 \in Ages
  BY DEF Ages
<1>4. l \in LoopRecords
  BY <1>1, <1>2, <1>3 DEF LoopRecords, Points, Listings
<1>5. LoopAt(l)
  BY <1>1 DEF LoopRecords, LoopAt
<1>6. Step(r, l)
  BY DEF NextRow
<1> QED
  BY <1>4, <1>5, <1>6, LoopMoves

\* A step that only moves a reconciliation.
LEMMA LoopOnlyTyped ==
  ASSUME Typed, NEW r \in Reconcilers, NEW l \in LoopRecords, LoopAt(l), Step(r, l),
         UNCHANGED <<exec, boot, crashes, books, world>>
  PROVE  Typed'
<1>1. JobsTyped'
  BY LoopMoves
<1>2. BooksTyped' /\ WorldTyped' /\ Lotted'
  BY DEF Typed, BooksTyped, WorldTyped, Lotted, books, world
<1>3. Numbered'
  BY DEF Typed, Numbered, Used, books
<1> QED
  BY <1>1, <1>2, <1>3 DEF Typed

\* The row in hand.
LEMMA CurrentTyped ==
  ASSUME Typed, NEW r \in Reconcilers, loop[r].todo # {}
  PROVE  /\ Current(r) \in loop[r].todo /\ Current(r) \in Attempts
         /\ RowNow(r) \in RowRecords /\ RowThen(r) \in RowRecords
         /\ ListedAs(r) \in Listings /\ AgeThen(r) \in Ages
<1>1. loop[r] \in LoopRecords /\ row \in [Attempts -> RowRecords]
  BY DEF Typed, JobsTyped, BooksTyped
<1>2. loop[r].todo \subseteq Attempts
  BY <1>1 DEF LoopRecords
<1>3. Current(r) \in loop[r].todo
  BY <1>2, MinIn DEF Current
<1> QED
  BY <1>1, <1>2, <1>3 DEF LoopRecords, RowNow, RowThen, ListedAs, AgeThen

\* A row is written and the next one taken.
LEMMA WriteTyped ==
  ASSUME Typed, NEW r \in Reconcilers, NEW new \in RowRecords, WriteRow(r, new)
  PROVE  Typed'
<1>1. JobsTyped'
  BY NextRowTyped DEF WriteRow
<1>2. row' \in [Attempts -> RowRecords]
  BY DEF Typed, BooksTyped, WriteRow
<1>3. BooksTyped' /\ WorldTyped' /\ Lotted'
  BY <1>2 DEF Typed, BooksTyped, WorldTyped, Lotted, WriteRow, world
<1>4. Numbered'
  BY DEF Typed, Numbered, Used, WriteRow
<1> QED
  BY <1>1, <1>3, <1>4 DEF Typed

\* What a row may be written as.
LEMMA RowUpdatesTyped ==
  ASSUME NEW w \in RowRecords, NEW status \in RowStatuses, NEW label \in VenueLabels,
         NEW error \in ErrorTexts, NEW canceled \in BOOLEAN
  PROVE  /\ [w EXCEPT !.error = error] \in RowRecords
         /\ [w EXCEPT !.status = status, !.label = label, !.error = error] \in RowRecords
         /\ [w EXCEPT !.status = status, !.label = label, !.canceledAt = canceled] \in RowRecords
         /\ [w EXCEPT !.status = status, !.error = error, !.label = label,
                      !.canceledAt = canceled] \in RowRecords
BY DEF RowRecords

LEMMA Named ==
  /\ WorkingStatuses \subseteq RowStatuses
  /\ {"none", "filled", "canceled", "rejected", "submitted", "acknowledged",
      "partially_filled"} \subseteq RowStatuses
  /\ {"none", "venue", "trade_applied", "missing_from_open_orders", "cancel_requested"}
       \subseteq VenueLabels
  /\ {"other", "failed", "retry"} \subseteq ErrorTexts
BY DEF WorkingStatuses, RowStatuses, VenueLabels, ErrorTexts

\* The labels under which a resting order is asked to be canceled.
LEMMA VerdictTyped ==
  ASSUME NEW entry \in BOOLEAN, NEW v \in RestingVerdicts(entry)
  PROVE  v.label \in VenueLabels /\ v.rejects \in BOOLEAN
<1>1. PICK f \in RestingFacts, d \in Directives : v = RestingVerdict(entry, f, d)
  BY DEF RestingVerdicts
<1> DEFINE policy == CancelReplaceAction(entry,
                       [f EXCEPT !.budgetSpent = f.budgetSpent \/ d.avoidBlindReposts])
           forced == f.ineligible \/ d.cancelOnly
           action == IF d.avoidBlindReposts /\ policy = "replace" THEN "cancel" ELSE policy
           label == IF policy = "replace" THEN "cancel_requested_for_replace"
                                           ELSE "cancel_requested"
           rejects == entry /\ (forced \/ action = "cancel")
<1>2. \/ v = [act |-> "keep", label |-> "none", rejects |-> FALSE]
      \/ v = [act |-> "cancel", label |-> label, rejects |-> rejects]
  <2> HIDE DEF policy
  <2> QED
    BY <1>1, Zenon DEF RestingVerdict, policy
<1>3. label \in VenueLabels
  BY DEF VenueLabels
<1>4. rejects \in BOOLEAN
  OBVIOUS
<1> HIDE DEF label, rejects
<1>5. CASE v = [act |-> "keep", label |-> "none", rejects |-> FALSE]
  BY <1>5 DEF VenueLabels
<1>6. CASE v = [act |-> "cancel", label |-> label, rejects |-> rejects]
  BY <1>3, <1>4, <1>6, Zenon
<1> QED
  BY <1>2, <1>5, <1>6

-----------------------------------------------------------------------------
(* Every step keeps the types                                               *)

LEMMA ManageTyped ==
  ASSUME Typed, NEW r \in Reconcilers, Manage(r)
  PROVE  Typed'
<1> USE Named
<1>0. loop[r] \in LoopRecords /\ LoopAt(loop[r]) /\ row \in [Attempts -> RowRecords]
  BY DEF Typed, JobsTyped, BooksTyped
<1>1. CASE Load(r)
  <2> DEFINE mine == [a \in Attempts |-> IF a \in Working
                        THEN [NoRow EXCEPT !.status = row[a].status,
                                !.label = row[a].label, !.filled = row[a].filled]
                        ELSE NoRow]
             l == [IdleLoop EXCEPT !.pc = "loaded", !.todo = Working, !.rows = mine]
  <2>1. mine \in [Attempts -> RowRecords]
    BY <1>0, BlanksTyped DEF RowRecords
  <2>2. Working \subseteq Attempts
    BY DEF Working
  <2>3. IdleLoop \in LoopRecords
    BY IdleLoopTyped
  <2>4. l \in LoopRecords
    <3> HIDE DEF mine
    <3> QED
      BY <2>1, <2>2, <2>3 DEF LoopRecords, Points
  <2>5. LoopAt(l)
    BY <2>3 DEF LoopRecords, LoopAt
  <2>6. Step(r, l)
    BY <1>1 DEF Load
  <2> HIDE DEF l
  <2> QED
    BY <1>1, <2>4, <2>5, <2>6, LoopOnlyTyped DEF Load
<1>2. CASE ListOpenOrders(r)
  <2>1. PICK o \in Listing(loop[r].todo) :
          Step(r, [loop[r] EXCEPT !.pc = "listed", !.open = o])
    BY <1>2 DEF ListOpenOrders
  <2> DEFINE l == [loop[r] EXCEPT !.pc = "listed", !.open = o]
  <2>2. o \in [Attempts -> Listings]
    BY <2>1 DEF Listing, Listings
  <2>3. l \in LoopRecords /\ LoopAt(l)
    BY <1>0, <2>2 DEF LoopRecords, LoopAt, Points
  <2> HIDE DEF l
  <2> QED
    BY <1>2, <2>1, <2>3, LoopOnlyTyped DEF ListOpenOrders, l
<1>3. CASE ListFails(r)
  <2> DEFINE l == [IdleLoop EXCEPT !.pc = "fills", !.failed = TRUE]
  <2>1. l \in LoopRecords /\ LoopAt(l)
    BY IdleTyped DEF Points
  <2> HIDE DEF l
  <2> QED
    BY <1>3, <2>1, LoopOnlyTyped DEF ListFails, l
<1>4. CASE ReadClock(r)
  <2> DEFINE ages == [a \in Attempts |-> IF a \in loop[r].todo THEN age[a] ELSE 0]
             l == [loop[r] EXCEPT !.pc = "managing", !.ages = ages]
  <2>1. ages \in [Attempts -> Ages]
    BY DEF Typed, BooksTyped, Ages
  <2>2. l \in LoopRecords /\ LoopAt(l)
    <3> HIDE DEF ages
    <3> QED
      BY <1>0, <2>1 DEF LoopRecords, LoopAt, Points
  <2> HIDE DEF l
  <2> QED
    BY <1>4, <2>2, LoopOnlyTyped DEF ReadClock, l
<1>5. CASE loop[r].todo # {} /\ \E new \in RowRecords : WriteRow(r, new)
  BY <1>5, WriteTyped
<1>6. CASE KeepMissing(r) \/ AwaitCancel(r) \/ KeepResting(r)
  <2>1. loop[r].todo # {} /\ WriteRow(r, [RowNow(r) EXCEPT !.error = "other"])
    BY <1>6 DEF KeepMissing, AwaitCancel, KeepResting, Resting, Managing
  <2>2. [RowNow(r) EXCEPT !.error = "other"] \in RowRecords
    BY <2>1, CurrentTyped DEF RowRecords
  <2> QED
    BY <1>5, <2>1, <2>2
<1>7. CASE ResolveMissing(r)
  <2> DEFINE status == MissingStatus(RowThen(r), Size)
             new == [RowNow(r) EXCEPT !.status = status, !.error = "other",
                       !.label = "missing_from_open_orders",
                       !.canceledAt = @ \/ status = "canceled"]
  <2>1. loop[r].todo # {} /\ WriteRow(r, new)
    BY <1>7 DEF ResolveMissing, Managing
  <2>2. status \in RowStatuses
    BY DEF MissingStatus
  <2>3. RowNow(r) \in RowRecords
    BY <2>1, CurrentTyped
  <2>4. new \in RowRecords
    <3> HIDE DEF status
    <3> QED
      BY <2>2, <2>3 DEF RowRecords
  <2> QED
    BY <1>5, <2>1, <2>4
<1>8. CASE TakeListedStatus(r)
  <2> DEFINE new == [RowNow(r) EXCEPT !.status = ListedAs(r), !.label = "venue",
                       !.canceledAt = @ \/ ListedAs(r) = "canceled"]
  <2>1. loop[r].todo # {} /\ WriteRow(r, new) /\ ListedAs(r) \in RowStatuses
    BY <1>8 DEF TakeListedStatus, Managing
  <2>2. RowNow(r) \in RowRecords
    BY <2>1, CurrentTyped
  <2>3. new \in RowRecords
    BY <2>1, <2>2 DEF RowRecords
  <2> QED
    BY <1>5, <2>1, <2>3
<1>9. CASE AskCancel(r)
  <2>1. loop[r].todo # {} /\ loop[r].pc = "managing"
    BY <1>9 DEF AskCancel, Resting, Managing
  <2>2. PICK v \in {[act |-> "cancel", label |-> "cancel_requested", rejects |-> FALSE]}
                     \cup {w \in VerdictsFor(r) : w.act = "cancel" /\ AgeThen(r) < 2} :
          Step(r, [loop[r] EXCEPT !.pc = "cancel",
                    !.call = [NoCall EXCEPT !.at = Current(r), !.label = v.label,
                                            !.rejects = v.rejects]])
    BY <1>9 DEF AskCancel
  <2>3. v.label \in VenueLabels /\ v.rejects \in BOOLEAN
    <3>1. CASE v = [act |-> "cancel", label |-> "cancel_requested", rejects |-> FALSE]
      BY <3>1
    <3>2. CASE v \in VerdictsFor(r)
      BY <3>2, VerdictTyped DEF VerdictsFor, EntryVerdicts, ExitVerdicts
    <3> QED
      BY <2>2, <3>1, <3>2
  <2> DEFINE c == [NoCall EXCEPT !.at = Current(r), !.label = v.label, !.rejects = v.rejects]
             l == [loop[r] EXCEPT !.pc = "cancel", !.call = c]
  <2>4. Current(r) \in 0 .. MaxAttempts
    BY <2>1, CurrentTyped, OrderAssumption DEF Attempts
  <2>5. c \in Calls /\ c.at = Current(r)
    BY <2>3, <2>4, BlanksTyped DEF Calls, NoCall
  <2>6. l \in LoopRecords /\ LoopAt(l)
    <3> HIDE DEF c
    <3> QED
      BY <1>0, <2>1, <2>5 DEF LoopRecords, LoopAt, Points, Current
  <2> HIDE DEF l
  <2> QED
    BY <1>9, <2>2, <2>6, LoopOnlyTyped DEF AskCancel, l
<1>10. CASE CancelAnswers(r)
  <2> DEFINE l == [loop[r] EXCEPT !.pc = "mark"]
  <2>1. l \in LoopRecords /\ LoopAt(l)
    BY <1>0, <1>10 DEF LoopRecords, LoopAt, Points, CancelAnswers
  <2>2. JobsTyped'
    <3> HIDE DEF l
    <3> QED
      BY <1>10, <2>1, LoopMoves DEF CancelAnswers, l
  <2>3. WorldTyped' /\ Lotted'
    <3>1. CASE UNCHANGED venue
      BY <1>10, <3>1 DEF CancelAnswers, Typed, WorldTyped, Lotted
    <3>2. CASE venue' = [venue EXCEPT ![loop[r].call.at].state =
                           IF @ = "open" THEN "canceled" ELSE @]
      <4> DEFINE Places == [state : {"absent", "open", "filled", "canceled"},
                            executed : 0 .. Size]
                 c == loop[r].call.at
      <4>1. venue \in [Attempts -> Places] /\ Lotted
        BY DEF Typed, WorldTyped
      <4>2. \A a \in Attempts : venue'[a] = IF a = c /\ Open(a)
                                            THEN [venue[a] EXCEPT !.state = "canceled"]
                                            ELSE venue[a]
        BY <3>2, <4>1 DEF Open
      <4>3. venue' \in [Attempts -> Places]
        <5>1. venue' = [a \in Attempts |-> venue'[a]]
          BY <3>2, <4>1
        <5>2. \A a \in Attempts : venue'[a] \in Places
          BY <4>1, <4>2
        <5> QED
          BY <5>1, <5>2
      <4>4. Lotted'
        <5> SUFFICES ASSUME NEW a \in Attempts
                     PROVE /\ venue'[a].state \in {"open", "canceled"} => venue'[a].executed < Size
                           /\ venue'[a].state = "absent" => venue'[a].executed = 0
                           /\ venue'[a].state = "filled" => venue'[a].executed = Size
          BY DEF Lotted
        <5>1. venue[a] \in Places
          BY <4>1
        <5>2. CASE a = c /\ Open(a)
          <6>1. venue'[a].state = "canceled" /\ venue'[a].executed = venue[a].executed
            BY <4>2, <5>1, <5>2
          <6> QED
            BY <4>1, <5>2, <6>1 DEF Lotted, Open
        <5>3. CASE ~(a = c /\ Open(a))
          BY <4>1, <4>2, <5>3 DEF Lotted
        <5> QED
          BY <5>2, <5>3
      <4> QED
        BY <1>10, <4>3, <4>4 DEF CancelAnswers, Typed, WorldTyped
    <3> QED
      BY <1>10, <3>1, <3>2 DEF CancelAnswers
  <2>4. BooksTyped' /\ Numbered'
    BY <1>10 DEF CancelAnswers, Typed, BooksTyped, Numbered, Used, books
  <2> QED
    BY <2>2, <2>3, <2>4 DEF Typed
<1>11. ASSUME NEW text \in CancelErrors, CancelFails(r, text) PROVE Typed'
  <2>1. loop[r].todo # {} /\ WriteRow(r, [RowNow(r) EXCEPT !.error = text])
    BY <1>0, <1>11 DEF CancelFails, LoopAt
  <2>2. text \in ErrorTexts
    BY OrderAssumption
  <2>3. [RowNow(r) EXCEPT !.error = text] \in RowRecords
    BY <2>1, <2>2, CurrentTyped DEF RowRecords
  <2> QED
    BY <1>5, <2>1, <2>3
<1>12. CASE MarkCanceling(r)
  <2> DEFINE a == loop[r].call.at
  <2>1. JobsTyped'
    BY <1>12, NextRowTyped DEF MarkCanceling
  <2>2. loop[r].call.label \in VenueLabels
    BY <1>0 DEF LoopRecords, Calls
  <2>3. row' \in [Attempts -> RowRecords]
    <3> DEFINE s == IF RowThen(r).status = "partially_filled"
                    THEN "partially_filled" ELSE "acknowledged"
               c == loop[r].call.label
    <3>1. row' = [row EXCEPT ![a] = [@ EXCEPT !.status = s, !.label = c, !.error = "other"]]
      BY <1>12 DEF MarkCanceling
    <3>2. s \in RowStatuses
      OBVIOUS
    <3> HIDE DEF s, c, a
    <3>3. [row[a] EXCEPT !.status = s, !.label = c, !.error = "other"] \in RowRecords
            \/ a \notin Attempts
      BY <1>0, <2>2, <3>2 DEF RowRecords, c
    <3> QED
      BY <1>0, <3>1, <3>3
  <2>4. signal' \in [Signals -> {"approved", "rejected"}]
    BY <1>12 DEF MarkCanceling, RejectSignal, Typed, BooksTyped
  <2>5. BooksTyped' /\ WorldTyped' /\ Lotted'
    BY <1>12, <2>3, <2>4 DEF MarkCanceling, Typed, BooksTyped, WorldTyped, Lotted, world
  <2>6. Numbered'
    BY <1>12 DEF MarkCanceling, Typed, Numbered, Used
  <2> QED
    BY <2>1, <2>5, <2>6 DEF Typed
<1>13. CASE DoneManaging(r)
  <2> DEFINE l == [IdleLoop EXCEPT !.pc = "fills"]
  <2>2. l \in LoopRecords /\ LoopAt(l)
    BY IdleLoopTyped DEF LoopRecords, LoopAt, Points
  <2> HIDE DEF l
  <2> QED
    BY <1>13, <2>2, LoopOnlyTyped DEF DoneManaging, l
<1> QED
  BY <1>1, <1>2, <1>3, <1>4, <1>6, <1>7, <1>8, <1>9, <1>10, <1>11, <1>12, <1>13 DEF Manage

\* What the execution job carries, by where it is.
LEMMA ExecTyped ==
  ASSUME exec \in ExecRecords
  PROVE  /\ exec.pc \in {"planned", "checked"} =>
              exec.signal \in Signals /\ exec.epoch \in 0 .. MaxAttempts /\ exec.plan \in Plans
         /\ exec.pc = "checked" => exec.position \in Int /\ exec.venueSame \in Int
         /\ exec.pc \in {"prepared", "answered", "stored"} => exec.at \in Attempts
         /\ exec.pc \in {"answered", "stored"} =>
              exec.reply \in Replies
              /\ exec = [pc |-> exec.pc, at |-> exec.at, reply |-> exec.reply]
<1>1. CASE exec = Idle
  BY <1>1 DEF Idle
<1>2. CASE exec \in [pc : {"planned"}, signal : Signals, epoch : 0 .. MaxAttempts, plan : Plans]
  BY <1>2
<1>3. CASE exec \in [pc : {"checked"}, signal : Signals, epoch : 0 .. MaxAttempts, plan : Plans,
                     position : Int, venueSame : Int]
  BY <1>3
<1>4. CASE exec \in [pc : {"prepared"}, at : Attempts]
  BY <1>4
<1>5. CASE exec \in [pc : {"answered", "stored"}, at : Attempts, reply : Replies]
  BY <1>5
<1> QED
  BY <1>1, <1>2, <1>3, <1>4, <1>5 DEF ExecRecords

\* The attempts used are counted by the last of them.
LEMMA UsedCounted ==
  ASSUME Typed
  PROVE  /\ IsFiniteSet(Used) /\ Cardinality(Used) \in 0 .. MaxAttempts
         /\ Used = 1 .. Cardinality(Used)
         /\ Used # Attempts <=> Cardinality(Used) < MaxAttempts
         /\ \A s : EpochOf(s) \in 0 .. MaxAttempts
<1>1. PICK k \in 0 .. MaxAttempts : Used = 1 .. k
  BY DEF Typed, Numbered
<1>2. MaxAttempts \in Nat /\ k \in Nat
  BY OrderAssumption
<1>3. IsFiniteSet(Used) /\ Cardinality(Used) = k
  <2>1. IsFiniteSet(1 .. k) /\ Cardinality(1 .. k) = IF 1 > k THEN 0 ELSE k - 1 + 1
    BY <1>2, FS_Interval
  <2> QED
    BY <1>1, <1>2, <2>1
<1>4. Used # Attempts <=> k < MaxAttempts
  <2>1. CASE k = MaxAttempts
    BY <1>1, <1>2, <2>1 DEF Attempts
  <2>2. CASE k # MaxAttempts
    <3>1. k < MaxAttempts /\ MaxAttempts \in Attempts /\ MaxAttempts \notin Used
      BY <1>1, <1>2, <2>2, OrderAssumption DEF Attempts
    <3> QED
      BY <3>1
  <2> QED
    BY <2>1, <2>2
<1>5. ASSUME NEW s PROVE EpochOf(s) \in 0 .. MaxAttempts
  <2> DEFINE C == {a \in Used : SignalOf(a) = s /\ row[a].status = "canceled"}
  <2>1. C \subseteq Used
    OBVIOUS
  <2> HIDE DEF C
  <2>2. Cardinality(C) <= Cardinality(Used) /\ IsFiniteSet(C)
    BY <1>3, <2>1, FS_Subset
  <2>3. Cardinality(C) \in Nat
    BY <2>2, FS_CardinalityType
  <2> QED
    BY <1>2, <1>3, <2>2, <2>3 DEF EpochOf, C
<1> QED
  BY <1>1, <1>2, <1>3, <1>4, <1>5

LEMMA ExecutingTyped ==
  ASSUME Typed, Executing
  PROVE  Typed'
<1>0. /\ exec \in ExecRecords /\ attempt \in [Attempts -> AttemptRecords \cup {NoAttempt}]
      /\ signal \in [Signals -> {"approved", "rejected"}]
      /\ row \in [Attempts -> RowRecords]
  BY DEF Typed, JobsTyped, BooksTyped
<1>1. ASSUME NEW e \in ExecRecords, exec' = e, UNCHANGED <<loop, boot, crashes>>
      PROVE  JobsTyped'
  BY <1>1 DEF Typed, JobsTyped
<1>2. ASSUME UNCHANGED <<attempt, row, age, booked, ledger, posLocal>>,
             signal' = signal \/ \E s \in Signals : RejectSignal(s)
      PROVE  BooksTyped'
  BY <1>2 DEF Typed, BooksTyped, RejectSignal
<1>3. ASSUME UNCHANGED world PROVE WorldTyped' /\ Lotted'
  BY <1>3 DEF Typed, WorldTyped, Lotted, world
<1>4. ASSUME UNCHANGED attempt,
             exec'.pc = "idle" \/ (exec'.pc \in {"planned", "checked"} /\ Used # Attempts)
             \/ (exec'.pc \in {"prepared", "answered", "stored"} /\ exec'.at \in Used)
      PROVE  Numbered'
  BY <1>4 DEF Typed, Numbered, Used
<1>5. Idle \in ExecRecords /\ Idle.pc = "idle"
  BY DEF ExecRecords, Idle
<1>6. ASSUME NEW s \in Signals, GateReject(s) PROVE Typed'
  <2>1. JobsTyped' /\ Numbered'
    BY <1>6 DEF GateReject, Typed, JobsTyped, Numbered, Used, jobs
  <2> QED
    BY <1>2, <1>3, <1>6, <2>1 DEF GateReject, Typed
<1>7. ASSUME NEW s \in Signals, NEW p \in Plans, Begin(s, p) PROVE Typed'
  <2> DEFINE e == [pc |-> "planned", signal |-> s, epoch |-> EpochOf(s), plan |-> p]
  <2>1. EpochOf(s) \in 0 .. MaxAttempts /\ Used # Attempts
    BY <1>7, UsedCounted DEF Begin
  <2>2. e \in ExecRecords /\ e.pc = "planned"
    BY <2>1 DEF ExecRecords
  <2>3. exec' = e /\ UNCHANGED <<loop, boot, crashes, books, world>>
    BY <1>7 DEF Begin
  <2> HIDE DEF e
  <2>4. JobsTyped'
    BY <1>1, <2>2, <2>3
  <2>5. BooksTyped' /\ Numbered'
    BY <1>2, <1>4, <2>1, <2>2, <2>3 DEF books
  <2> QED
    BY <1>3, <2>3, <2>4, <2>5 DEF Typed
<1>8. CASE Capture
  <2> DEFINE side == SideOf(exec.signal)
             e == [pc |-> "checked", signal |-> exec.signal, epoch |-> exec.epoch,
                   plan |-> exec.plan, position |-> ExternalPosition,
                   venueSame |-> OpenLots(side)]
  <2>1. /\ exec.pc = "planned"
        /\ (exec' = e /\ UNCHANGED signal) \/ (exec' = Idle /\ RejectSignal(exec.signal))
        /\ UNCHANGED <<loop, boot, crashes, attempt, row, age, booked, ledger, posLocal, world>>
    BY <1>8 DEF Capture
  <2>2. exec.signal \in Signals /\ exec.epoch \in 0 .. MaxAttempts /\ exec.plan \in Plans
    BY <1>0, <2>1, ExecTyped
  <2>3. ExternalPosition \in Int /\ OpenLots(side) \in Int
    BY SumsTyped
  <2>4. e \in ExecRecords /\ e.pc = "checked"
    <3> HIDE DEF side
    <3> QED
      BY <2>2, <2>3 DEF ExecRecords
  <2> HIDE DEF e
  <2>5. JobsTyped'
    BY <1>1, <1>5, <2>1, <2>4
  <2>6. BooksTyped'
    BY <1>2, <2>1, <2>2
  <2>7. Used # Attempts
    BY <2>1 DEF Typed, Numbered
  <2>8. Numbered'
    BY <1>4, <1>5, <2>1, <2>4, <2>7
  <2> QED
    BY <1>3, <2>1, <2>5, <2>6, <2>8 DEF Typed
<1>9. CASE Prepare
  <2> DEFINE n == Cardinality(Used) + 1
             new == [signal |-> exec.signal, epoch |-> exec.epoch, plan |-> exec.plan,
                     intent |-> "prepared"]
  <2>1. exec.pc = "checked"
        /\ UNCHANGED <<loop, boot, crashes, row, age, booked, ledger, posLocal, world>>
    BY <1>9 DEF Prepare
  <2>2. exec.signal \in Signals /\ exec.epoch \in 0 .. MaxAttempts /\ exec.plan \in Plans
    BY <1>0, <2>1, ExecTyped
  <2>3. CASE exec' = Idle /\ RejectSignal(exec.signal) /\ UNCHANGED attempt
    <3>1. JobsTyped'
      BY <1>1, <1>5, <2>1, <2>3
    <3>2. BooksTyped' /\ Numbered'
      BY <1>2, <1>4, <1>5, <2>1, <2>2, <2>3
    <3> QED
      BY <1>3, <2>1, <3>1, <3>2 DEF Typed
  <2>4. CASE attempt' = [attempt EXCEPT ![n] = new] /\ exec' = [pc |-> "prepared", at |-> n]
             /\ UNCHANGED signal
    <3>1. Used # Attempts
      BY <2>1 DEF Typed, Numbered
    <3>2. n \in Attempts /\ Used = 1 .. n - 1 /\ n \in Nat /\ n >= 1
      <4>1. Cardinality(Used) \in 0 .. MaxAttempts /\ Used = 1 .. Cardinality(Used)
            /\ Cardinality(Used) < MaxAttempts /\ MaxAttempts \in Nat
        BY <3>1, UsedCounted, OrderAssumption
      <4> QED
        BY <4>1 DEF Attempts
    <3> HIDE DEF n
    <3>3. new \in AttemptRecords /\ new.intent = "prepared"
      BY <2>2 DEF AttemptRecords, Intents
    <3> HIDE DEF new
    <3>4. [pc |-> "prepared", at |-> n] \in ExecRecords
      BY <3>2 DEF ExecRecords
    <3>5. JobsTyped'
      BY <1>1, <2>1, <2>4, <3>4
    <3>6. attempt' \in [Attempts -> AttemptRecords \cup {NoAttempt}]
      BY <1>0, <2>4, <3>3
    <3>7. BooksTyped'
      BY <2>1, <2>4, <3>6 DEF Typed, BooksTyped
    <3>8. Used' = Used \cup {n}
      <4>1. attempt'[n].intent # "none" /\ \A a \in Attempts \ {n} : attempt'[a] = attempt[a]
        BY <1>0, <2>4, <3>2, <3>3
      <4> QED
        BY <3>2, <4>1 DEF Used
    <3>9. Used' = 1 .. n
      BY <3>2, <3>8
    <3>10. n \in 0 .. MaxAttempts /\ n \in Used'
      BY <3>2, <3>8, OrderAssumption DEF Attempts
    <3>11. exec'.pc = "prepared" /\ exec'.at = n
      BY <2>4
    <3>12. Numbered'
      BY <3>9, <3>10, <3>11 DEF Numbered
    <3> QED
      BY <1>3, <2>1, <3>5, <3>7, <3>12 DEF Typed
  <2> QED
    BY <1>9, <2>3, <2>4 DEF Prepare
<1>10. ASSUME NEW reply \in Replies, Post(reply) PROVE Typed'
  <2>1. exec.pc = "prepared" /\ exec' = [pc |-> "answered", at |-> exec.at, reply |-> reply]
        /\ UNCHANGED <<loop, boot, crashes, books, shown, lag>>
    BY <1>10 DEF Post
  <2>2. exec.at \in Attempts /\ exec.at \in Used
    BY <1>0, <2>1, ExecTyped DEF Typed, Numbered
  <2>3. [pc |-> "answered", at |-> exec.at, reply |-> reply] \in ExecRecords
    BY <2>2 DEF ExecRecords
  <2>4. JobsTyped'
    BY <1>1, <2>1, <2>3
  <2>5. BooksTyped' /\ Numbered'
    BY <1>2, <1>4, <2>1, <2>2 DEF books
  <2>6. Size \in Nat /\ Size > 0
    BY OrderAssumption
  <2>7. \/ venue' = venue
        \/ venue' = [venue EXCEPT ![exec.at] = [state |-> "filled", executed |-> Size]]
        \/ venue' = [venue EXCEPT ![exec.at] = [state |-> "open", executed |-> 0]]
    BY <1>10 DEF Post
  <2>8. WorldTyped'
    BY <2>1, <2>2, <2>6, <2>7 DEF Typed, WorldTyped
  <2>9. Lotted'
    <3>1. ASSUME NEW a \in Attempts
          PROVE  \/ venue'[a] = venue[a]
                 \/ venue'[a] = [state |-> "filled", executed |-> Size]
                 \/ venue'[a] = [state |-> "open", executed |-> 0]
      BY <2>2, <2>7 DEF Typed, WorldTyped
    <3> SUFFICES ASSUME NEW a \in Attempts
                 PROVE /\ venue'[a].state \in {"open", "canceled"} => venue'[a].executed < Size
                       /\ venue'[a].state = "absent" => venue'[a].executed = 0
                       /\ venue'[a].state = "filled" => venue'[a].executed = Size
      BY DEF Lotted
    <3>2. CASE venue'[a] = venue[a]
      BY <3>2 DEF Typed, Lotted
    <3>3. CASE venue'[a] = [state |-> "filled", executed |-> Size]
      BY <3>3
    <3>4. CASE venue'[a] = [state |-> "open", executed |-> 0]
      BY <2>6, <3>4
    <3> QED
      BY <3>1, <3>2, <3>3, <3>4
  <2> QED
    BY <2>4, <2>5, <2>8, <2>9 DEF Typed
<1>11. CASE RecordUnknown \/ Settle
  <2>1. /\ exec.pc \in {"answered", "stored"} /\ exec' = Idle
        /\ UNCHANGED <<loop, boot, crashes, row, age, booked, ledger, posLocal, world>>
        /\ \E i \in Intents : attempt' = [attempt EXCEPT ![exec.at].intent = i]
    BY <1>11 DEF RecordUnknown, Settle, Intents
  <2>2. exec.at \in Used /\ exec.at \in Attempts
    BY <1>0, <2>1, ExecTyped DEF Typed, Numbered
  <2>3. attempt[exec.at] \in AttemptRecords
    BY <1>0, <2>2 DEF Used, NoAttempt
  <2>4. PICK i \in Intents : attempt' = [attempt EXCEPT ![exec.at].intent = i]
    BY <2>1
  <2>5. [attempt[exec.at] EXCEPT !.intent = i] \in AttemptRecords
        /\ [attempt[exec.at] EXCEPT !.intent = i].intent = i
    BY <2>3 DEF AttemptRecords
  <2>6. attempt' \in [Attempts -> AttemptRecords \cup {NoAttempt}]
    BY <1>0, <2>2, <2>4, <2>5
  <2>7. attempt[exec.at].signal \in Signals
    BY <2>3 DEF AttemptRecords
  <2>8. signal' \in [Signals -> {"approved", "rejected"}]
    BY <1>0, <1>11, <2>7 DEF RecordUnknown, Settle, RejectSignal, SignalOf
  <2>9. Used' = Used
    BY <1>0, <2>2, <2>4, <2>5 DEF Used, Intents
  <2>10. JobsTyped'
    BY <1>1, <1>5, <2>1
  <2>11. BooksTyped'
    BY <2>1, <2>6, <2>8 DEF Typed, BooksTyped
  <2>12. Numbered'
    BY <1>5, <2>1, <2>9 DEF Typed, Numbered
  <2> QED
    BY <1>3, <2>1, <2>10, <2>11, <2>12 DEF Typed
<1>12. CASE CreateRow
  <2> DEFINE new == [NoRow EXCEPT !.status = CASE exec.reply = "live" -> "submitted"
                                  [] OTHER -> exec.reply,
                     !.label = "venue",
                     !.error = IF exec.reply = "rejected" THEN "failed" ELSE "other",
                     !.filled = IF exec.reply = "filled" THEN Size ELSE 0]
             e == [exec EXCEPT !.pc = "stored"]
  <2>1. /\ exec.pc = "answered" /\ exec.reply # "uncertain"
        /\ row' = [row EXCEPT ![exec.at] = new] /\ exec' = e
        /\ UNCHANGED <<loop, boot, crashes, signal, attempt, age, booked, ledger, posLocal, world>>
    BY <1>12 DEF CreateRow
  <2>2. exec.at \in Attempts /\ exec.at \in Used /\ exec.reply \in Replies
        /\ exec = [pc |-> exec.pc, at |-> exec.at, reply |-> exec.reply]
    BY <1>0, <2>1, ExecTyped DEF Typed, Numbered
  <2>3. exec.reply \in {"live", "filled", "rejected"} /\ Size \in Nat
    BY <2>1, <2>2, OrderAssumption
  <2>4. new \in RowRecords
    <3> DEFINE status == CASE exec.reply = "live" -> "submitted" [] OTHER -> exec.reply
               error == IF exec.reply = "rejected" THEN "failed" ELSE "other"
               filled == IF exec.reply = "filled" THEN Size ELSE 0
    <3>1. status \in RowStatuses
      BY <2>3, Named
    <3>2. error \in ErrorTexts
      BY Named
    <3>3. filled \in 0 .. Size
      BY <2>3
    <3> HIDE DEF status, error, filled
    <3>4. [NoRow EXCEPT !.status = status, !.label = "venue", !.error = error,
                        !.filled = filled] \in RowRecords
      BY <3>1, <3>2, <3>3, BlanksTyped, Named DEF RowRecords
    <3> QED
      BY <3>4 DEF status, error, filled
  <2> HIDE DEF new
  <2>5. e \in ExecRecords /\ e.pc = "stored" /\ e.at = exec.at
    BY <2>2 DEF ExecRecords
  <2> HIDE DEF e
  <2>6. JobsTyped'
    BY <1>1, <2>1, <2>5
  <2>7. BooksTyped'
    BY <2>1, <2>4 DEF Typed, BooksTyped
  <2>8. Numbered'
    BY <1>4, <2>1, <2>2, <2>5
  <2> QED
    BY <1>3, <2>1, <2>6, <2>7, <2>8 DEF Typed
<1> QED
  BY <1>6, <1>7, <1>8, <1>9, <1>10, <1>11, <1>12 DEF Executing

\* A row that is credited a fill stays a row.
LEMMA FillTyped ==
  ASSUME NEW w \in RowRecords
  PROVE  /\ StatusAfterFill(w, AtMost(Size, w.filled + 1), Size)
              \in {"acknowledged", "rejected", "filled", "partially_filled"}
         /\ AtMost(Size, w.filled + 1) \in 0 .. Size
         /\ AfterFill(w, Size) \in RowRecords
<1> DEFINE filled == AtMost(Size, w.filled + 1)
           status == StatusAfterFill(w, filled, Size)
<1>1. Size \in Nat /\ w.filled \in 0 .. Size
  BY OrderAssumption DEF RowRecords
<1>2. filled \in 0 .. Size
  BY <1>1 DEF AtMost
<1>3. status \in {"acknowledged", "rejected", "filled", "partially_filled"}
  <2> HIDE DEF filled
  <2> DEFINE life == LifecycleAfterFill(w, filled, Size)
  <2>1. status = CASE life = "retrying" -> "acknowledged"
                   [] life = "failed"   -> "rejected"
                   [] life = "economically_final_enough" /\ filled >= Size -> "filled"
                   [] OTHER -> "partially_filled"
    BY DEF StatusAfterFill
  <2> HIDE DEF life
  <2> QED
    BY <2>1
<1>4. [w EXCEPT !.status = status, !.filled = filled, !.label = "trade_applied"] \in RowRecords
  <2>1. status \in RowStatuses
    BY <1>3, Named
  <2> HIDE DEF status, filled
  <2> QED
    BY <1>2, <2>1, Named DEF RowRecords
<1> QED
  BY <1>2, <1>3, <1>4 DEF AfterFill

\* What a fill makes of a row.
LEMMA FillOutcome ==
  ASSUME NEW w \in RowRecords
  PROVE  LET filled == AtMost(Size, w.filled + 1)
             next == AfterFill(w, Size)
         IN  /\ next.filled = filled /\ next.error = w.error
             /\ next.status \in {"acknowledged", "rejected", "filled", "partially_filled"}
             /\ next.status = "filled" => filled >= Size
             /\ next.status = "rejected" => w.error = "failed"
<1> DEFINE filled == AtMost(Size, w.filled + 1)
           next == AfterFill(w, Size)
           life == LifecycleAfterFill(w, filled, Size)
<1>1. next.status = StatusAfterFill(w, filled, Size) /\ next.filled = filled
      /\ next.error = w.error
  BY DEF AfterFill, RowRecords
<1>2. next.status \in {"acknowledged", "rejected", "filled", "partially_filled"}
  BY <1>1, FillTyped
<1> HIDE DEF next, filled
<1>3. next.status = CASE life = "retrying" -> "acknowledged"
                      [] life = "failed"   -> "rejected"
                      [] life = "economically_final_enough" /\ filled >= Size -> "filled"
                      [] OTHER -> "partially_filled"
  BY <1>1 DEF StatusAfterFill
<1>4. life = "failed" => w.error = "failed"
  BY DEF LifecycleAfterFill, RowRecords, ErrorTexts, CancelMentioned
<1> HIDE DEF life
<1>5. next.status = "filled" => filled >= Size
  BY <1>3
<1>6. next.status = "rejected" => life = "failed"
  BY <1>3
<1> QED
  BY <1>1, <1>2, <1>4, <1>5, <1>6 DEF filled, next

LEMMA ReconcileTyped ==
  ASSUME Typed, NEW r \in Reconcilers, Reconcile(r)
  PROVE  Typed'
<1>0. /\ loop[r] \in LoopRecords /\ LoopAt(loop[r]) /\ row \in [Attempts -> RowRecords]
      /\ booked \in [Attempts -> 0 .. Size] /\ ledger \in [Attempts -> 0 .. Size]
      /\ Size \in Nat
  BY OrderAssumption DEF Typed, JobsTyped, BooksTyped
<1>1. CASE FetchTrades(r)
  <2> DEFINE l == [loop[r] EXCEPT !.pc = "applying", !.trades = Reported]
             m == [loop[r] EXCEPT !.pc = "done", !.failed = TRUE]
  <2>1. l \in LoopRecords /\ LoopAt(l)
    BY <1>0, SumsTyped DEF LoopRecords, LoopAt, Points
  <2>2. m \in LoopRecords /\ LoopAt(m)
    BY <1>0 DEF LoopRecords, LoopAt, Points
  <2>3. (Step(r, l) \/ Step(r, m)) /\ UNCHANGED <<exec, boot, crashes, books, world>>
    BY <1>1 DEF FetchTrades
  <2> HIDE DEF l, m
  <2> QED
    BY <2>1, <2>2, <2>3, LoopOnlyTyped
<1>2. ASSUME NEW a \in Attempts, ApplyTrade(r, a) PROVE Typed'
  <2> DEFINE lots == booked[a] + 1
             l == [loop[r] EXCEPT !.pc = "append", !.call = [NoCall EXCEPT !.at = a, !.lots = lots]]
  <2>1. /\ booked[a] < loop[r].trades[a]
        /\ booked' = [booked EXCEPT ![a] = lots]
        /\ row' = [row EXCEPT ![a] = AfterFill(@, Size)]
        /\ Step(r, l) \/ UNCHANGED loop
        /\ UNCHANGED <<exec, boot, crashes, signal, attempt, age, ledger, posLocal, world>>
    BY <1>2 DEF ApplyTrade
  <2>2. loop[r].trades[a] \in 0 .. Size
    BY <1>0 DEF LoopRecords
  <2>3. lots \in 0 .. Size /\ a \in 0 .. MaxAttempts
    BY <1>0, <2>1, <2>2, OrderAssumption DEF Attempts
  <2> HIDE DEF lots
  <2>4. [NoCall EXCEPT !.at = a, !.lots = lots] \in Calls
        /\ [NoCall EXCEPT !.at = a, !.lots = lots].at = a
    BY <2>3, BlanksTyped DEF Calls, NoCall
  <2>5. l \in LoopRecords /\ LoopAt(l)
    BY <1>0, <2>4 DEF LoopRecords, LoopAt, Points
  <2> HIDE DEF l
  <2>6. JobsTyped'
    <3>1. CASE Step(r, l)
      BY <2>1, <2>5, <3>1, LoopMoves
    <3>2. CASE UNCHANGED loop
      BY <2>1, <3>2 DEF Typed, JobsTyped
    <3> QED
      BY <2>1, <3>1, <3>2
  <2>7. row' \in [Attempts -> RowRecords]
    BY <1>0, <2>1, FillTyped
  <2>8. booked' \in [Attempts -> 0 .. Size]
    BY <1>0, <2>1, <2>3
  <2>9. BooksTyped'
    BY <2>1, <2>7, <2>8 DEF Typed, BooksTyped
  <2>10. WorldTyped' /\ Lotted' /\ Numbered'
    BY <2>1 DEF Typed, WorldTyped, Lotted, Numbered, Used, world
  <2> QED
    BY <2>6, <2>9, <2>10 DEF Typed
<1>3. ASSUME NEW a \in Attempts, SkipOrphan(r, a) PROVE Typed'
  <2> DEFINE l == [loop[r] EXCEPT !.trades[a] = booked[a]]
  <2>1. l \in LoopRecords
    BY <1>0 DEF LoopRecords
  <2>2. LoopAt(l)
    BY <1>0, <1>3 DEF LoopRecords, LoopAt, SkipOrphan
  <2> HIDE DEF l
  <2> QED
    BY <1>3, <2>1, <2>2, LoopOnlyTyped DEF SkipOrphan, l
<1>4. CASE AppendLedger(r)
  <2> DEFINE a == loop[r].call.at
             l == [loop[r] EXCEPT !.pc = "applying", !.call = NoCall]
  <2>1. l \in LoopRecords /\ LoopAt(l)
    BY <1>0, BlanksTyped DEF LoopRecords, LoopAt, Points
  <2>2. JobsTyped'
    <3> HIDE DEF l
    <3> QED
      BY <1>4, <2>1, LoopMoves DEF AppendLedger, l
  <2>3. loop[r].call.lots \in 0 .. Size
    BY <1>0 DEF LoopRecords, Calls
  <2>4. ledger' \in [Attempts -> 0 .. Size]
    BY <1>0, <1>4, <2>3 DEF AppendLedger
  <2>5. BooksTyped'
    BY <1>4, <2>4 DEF AppendLedger, Typed, BooksTyped
  <2>6. WorldTyped' /\ Lotted' /\ Numbered'
    BY <1>4 DEF AppendLedger, Typed, WorldTyped, Lotted, Numbered, Used, world
  <2> QED
    BY <2>2, <2>5, <2>6 DEF Typed
<1>5. CASE DoneReconciling(r)
  <2> DEFINE m == [IdleLoop EXCEPT !.pc = "done", !.failed = loop[r].failed]
             l == IF boot.pc = "up" THEN IdleLoop ELSE m
  <2>1. loop[r].failed \in BOOLEAN
    BY <1>0 DEF LoopRecords
  <2>2. m \in LoopRecords /\ LoopAt(m)
    BY <2>1, IdleTyped DEF Points
  <2>3. l \in LoopRecords /\ LoopAt(l)
    <3> HIDE DEF m
    <3> QED
      BY <2>2, IdleLoopTyped
  <2>4. Step(r, l) /\ UNCHANGED <<exec, boot, crashes, books, world>>
    BY <1>5 DEF DoneReconciling
  <2> HIDE DEF l
  <2> QED
    BY <2>3, <2>4, LoopOnlyTyped
<1> QED
  BY <1>1, <1>2, <1>3, <1>4, <1>5 DEF Reconcile

LEMMA WorldMovesTyped ==
  ASSUME Typed, Venue \/ Time
  PROVE  Typed'
<1> DEFINE Places == [state : {"absent", "open", "filled", "canceled"}, executed : 0 .. Size]
<1>0. /\ venue \in [Attempts -> Places] /\ Lotted
      /\ shown \in [Attempts -> [open : BOOLEAN, lots : 0 .. Size]]
      /\ age \in [Attempts -> 0 .. 2]
      /\ Size \in Nat /\ Size > 0 /\ MaxAge \in 0 .. 2
  BY OrderAssumption DEF Typed, WorldTyped, BooksTyped
<1>1. ASSUME UNCHANGED jobs PROVE JobsTyped'
  BY <1>1 DEF Typed, JobsTyped, jobs
<1>2. ASSUME UNCHANGED <<jobs, attempt>> PROVE Numbered'
  BY <1>2 DEF Typed, Numbered, Used, jobs
<1>3. ASSUME UNCHANGED books PROVE BooksTyped'
  BY <1>3 DEF Typed, BooksTyped, books
<1>4. ASSUME NEW a \in Attempts, Execute(a) PROVE Typed'
  <2> DEFINE m == venue[a].executed + 1
             v == [state |-> IF m = Size THEN "filled" ELSE "open", executed |-> m]
  <2>1. venue' = [venue EXCEPT ![a] = v] /\ UNCHANGED <<shown, lag, books, jobs>>
    BY <1>4 DEF Execute
  <2>2. venue[a].executed \in 0 .. Size /\ venue[a].executed < Size
    BY <1>0, <1>4 DEF Lotted, Execute, Open
  <2>3. m \in 0 .. Size
    BY <1>0, <2>2
  <2>4. v \in Places
    <3> HIDE DEF m
    <3> QED
      BY <2>3
  <2>5. /\ v.state \in {"open", "canceled"} => v.executed < Size
        /\ v.state = "absent" => v.executed = 0
        /\ v.state = "filled" => v.executed = Size
    <3> HIDE DEF m
    <3>1. CASE m = Size
      BY <3>1
    <3>2. CASE m # Size
      <4>1. m < Size
        BY <1>0, <2>3, <3>2
      <4> QED
        BY <3>2, <4>1
    <3> QED
      BY <3>1, <3>2
  <2> HIDE DEF v
  <2>6. WorldTyped'
    BY <1>0, <2>1, <2>4 DEF Typed, WorldTyped
  <2>7. Lotted'
    <3>1. \A b \in Attempts : venue'[b] = IF b = a THEN v ELSE venue[b]
      BY <1>0, <2>1
    <3> QED
      BY <1>0, <2>5, <3>1 DEF Lotted
  <2> QED
    BY <1>1, <1>2, <1>3, <2>1, <2>6, <2>7 DEF Typed, books
<1>5. ASSUME NEW a \in Attempts, Expire(a) PROVE Typed'
  <2>1. venue' = [venue EXCEPT ![a].state = "canceled"] /\ UNCHANGED <<shown, lag, books, jobs>>
    BY <1>5 DEF Expire
  <2>2. venue[a].executed \in 0 .. Size /\ venue[a].executed < Size
    BY <1>0, <1>5 DEF Lotted, Expire, Open
  <2>3. WorldTyped'
    BY <1>0, <2>1 DEF Typed, WorldTyped
  <2>4. Lotted'
    <3>1. \A b \in Attempts : venue'[b] = IF b = a THEN [venue[a] EXCEPT !.state = "canceled"]
                                                   ELSE venue[b]
      BY <1>0, <2>1
    <3>2. [venue[a] EXCEPT !.state = "canceled"].state = "canceled"
          /\ [venue[a] EXCEPT !.state = "canceled"].executed = venue[a].executed
      BY <1>0
    <3> QED
      BY <1>0, <2>2, <3>1, <3>2 DEF Lotted
  <2> QED
    BY <1>1, <1>2, <1>3, <2>1, <2>3, <2>4 DEF Typed, books
<1>6. ASSUME NEW a \in Attempts, Publish(a) PROVE Typed'
  <2>1. shown' = [shown EXCEPT ![a] = IF lag = "orders" THEN [@ EXCEPT !.open = Open(a)]
                                      ELSE [@ EXCEPT !.lots = venue[a].executed]]
        /\ UNCHANGED <<venue, lag, books, jobs>>
    BY <1>6 DEF Publish
  <2>2. venue[a].executed \in 0 .. Size /\ Open(a) \in BOOLEAN
    BY <1>0 DEF Open
  <2>3. shown' \in [Attempts -> [open : BOOLEAN, lots : 0 .. Size]]
    <3>1. CASE lag = "orders"
      <4>1. [shown[a] EXCEPT !.open = Open(a)] \in [open : BOOLEAN, lots : 0 .. Size]
        BY <1>0, <2>2
      <4> QED
        BY <1>0, <2>1, <3>1, <4>1
    <3>2. CASE lag # "orders"
      <4>1. [shown[a] EXCEPT !.lots = venue[a].executed] \in [open : BOOLEAN, lots : 0 .. Size]
        BY <1>0, <2>2
      <4> QED
        BY <1>0, <2>1, <3>2, <4>1
    <3> QED
      BY <3>1, <3>2
  <2>4. WorldTyped' /\ Lotted'
    BY <2>1, <2>3 DEF Typed, WorldTyped, Lotted
  <2> QED
    BY <1>1, <1>2, <1>3, <2>1, <2>4 DEF Typed, books
<1>7. ASSUME NEW a \in Attempts, Grow(a) PROVE Typed'
  <2>1. age' = [age EXCEPT ![a] = @ + 1] /\ age[a] < MaxAge
        /\ UNCHANGED <<signal, attempt, row, booked, ledger, posLocal, jobs, world>>
    BY <1>7 DEF Grow
  <2>2. age' \in [Attempts -> 0 .. 2]
    BY <1>0, <2>1
  <2>3. BooksTyped' /\ WorldTyped' /\ Lotted'
    BY <2>1, <2>2 DEF Typed, BooksTyped, WorldTyped, Lotted, world
  <2> QED
    BY <1>1, <1>2, <2>1, <2>3 DEF Typed
<1> QED
  BY <1>4, <1>5, <1>6, <1>7 DEF Venue, Time

LEMMA RestartTyped ==
  ASSUME Typed, RefreshPortfolio \/ Crash \/ StartRecovery \/ FinishRecovery
  PROVE  Typed'
<1>0. ExternalPosition \in Int /\ MaxCrashes \in Nat /\ Recoverer \in Reconcilers
  BY SumsTyped, OrderAssumption DEF Recoverer
<1>1. ASSUME UNCHANGED world PROVE WorldTyped' /\ Lotted'
  BY <1>1 DEF Typed, WorldTyped, Lotted, world
<1>2. CASE RefreshPortfolio
  <2>1. posLocal' = ExternalPosition
        /\ UNCHANGED <<signal, attempt, row, age, booked, ledger, jobs, world>>
    BY <1>2 DEF RefreshPortfolio
  <2>2. BooksTyped'
    BY <1>0, <2>1 DEF Typed, BooksTyped
  <2>3. JobsTyped' /\ Numbered'
    BY <2>1 DEF Typed, JobsTyped, Numbered, Used, jobs
  <2> QED
    BY <1>1, <2>1, <2>2, <2>3 DEF Typed
<1>3. CASE Crash
  <2>1. /\ crashes < MaxCrashes /\ crashes' = crashes + 1 /\ exec' = Idle
        /\ loop' = [r \in Reconcilers |-> IdleLoop]
        /\ boot' = [Up EXCEPT !.pc = "down"] /\ UNCHANGED <<books, world>>
    BY <1>3 DEF Crash
  <2>2. crashes' \in 0 .. MaxCrashes
    BY <1>0, <2>1 DEF Typed, JobsTyped
  <2>3. boot' \in BootRecords /\ exec' \in ExecRecords
    BY <2>1 DEF BootRecords, Up, ExecRecords
  <2>4. loop' \in [Reconcilers -> LoopRecords]
    BY <2>1, IdleLoopTyped
  <2>5. \A r \in Reconcilers : LoopAt(loop'[r])
    <3>1. \A r \in Reconcilers : loop'[r] = IdleLoop
      BY <2>1
    <3> QED
      BY <3>1, IdleLoopTyped, Zenon
  <2>6. JobsTyped'
    BY <2>2, <2>3, <2>4, <2>5, Zenon DEF JobsTyped
  <2>7. BooksTyped' /\ Numbered'
    BY <2>1 DEF Typed, BooksTyped, Numbered, Used, books, Idle
  <2> QED
    BY <1>1, <2>1, <2>6, <2>7 DEF Typed
<1>4. CASE StartRecovery
  <2>1. /\ boot' = [pc |-> "recovering", unresolved |-> BlockingIntents, open |-> ListedOpen]
        /\ UNCHANGED <<exec, loop, crashes, books, world>>
    BY <1>4 DEF StartRecovery
  <2>2. BlockingIntents \subseteq Attempts /\ ListedOpen \subseteq Attempts
    BY DEF BlockingIntents, ListedOpen, Used
  <2>3. boot' \in BootRecords
    BY <2>1, <2>2 DEF BootRecords
  <2>4. JobsTyped'
    BY <2>1, <2>3 DEF Typed, JobsTyped
  <2>5. BooksTyped' /\ Numbered'
    BY <2>1 DEF Typed, BooksTyped, Numbered, Used, books
  <2> QED
    BY <1>1, <2>1, <2>4, <2>5 DEF Typed
<1>5. CASE FinishRecovery
  <2>1. /\ posLocal' = ExternalPosition
        /\ boot' = IF Recovered THEN Up ELSE [Up EXCEPT !.pc = "down"]
        /\ Step(Recoverer, IdleLoop)
        /\ UNCHANGED <<exec, crashes, signal, attempt, row, age, booked, ledger, world>>
    BY <1>5 DEF FinishRecovery, Step
  <2>2. boot' \in BootRecords
    BY <2>1 DEF BootRecords, Up
  <2>3. loop' \in [Reconcilers -> LoopRecords] /\ \A r \in Reconcilers : LoopAt(loop'[r])
    BY <1>0, <2>1, IdleLoopTyped, StepTyped DEF Typed
  <2>4. JobsTyped'
    BY <2>1, <2>2, <2>3 DEF Typed, JobsTyped
  <2>5. BooksTyped'
    BY <1>0, <2>1 DEF Typed, BooksTyped
  <2>6. Numbered'
    BY <2>1 DEF Typed, Numbered, Used
  <2> QED
    BY <1>1, <2>1, <2>4, <2>5, <2>6 DEF Typed
<1> QED
  BY <1>2, <1>3, <1>4, <1>5

LEMMA TypedStep ==
  ASSUME Typed, [Next]_vars
  PROVE  Typed'
<1>1. CASE UNCHANGED vars
  BY <1>1 DEF vars, jobs, books, world, Typed, BooksTyped, WorldTyped, JobsTyped, Numbered,
              Lotted, Used
<1>2. CASE Next
  BY <1>2, ExecutingTyped, ManageTyped, ReconcileTyped, WorldMovesTyped, RestartTyped DEF Next
<1> QED
  BY <1>1, <1>2

\* Every reachable state has the types of TypeOK: no order is filled, booked or
\* executed beyond its size, whatever the interleaving and the crashes.
THEOREM TypeCorrect == Spec => []TypeOK
<1>1. Spec => []Typed
  BY TypedInit, TypedStep, PTL DEF Spec
<1> QED
  BY <1>1, TypedImpliesTypeOK, PTL

-----------------------------------------------------------------------------
(* What the books, the jobs and the venue know of each other                *)

\* An open order is in the venue's list, when it is the list that lags.
Seen(a) == lag = "orders" /\ Open(a) => shown[a].open

VenueMatched(a) ==
  /\ shown[a].lots <= venue[a].executed
  /\ venue[a].state # "absent" => a \in Used
  /\ booked[a] <= venue[a].executed

\* A row stands for an attempt; without one its intent blocks a restart.
RowMatched(a) ==
  /\ row[a].status # "none" => a \in Used
  /\ row[a].status = "none" => row[a] = NoRow /\ age[a] = 0 /\ booked[a] = 0
  /\ row[a].status = "none" /\ a \in Used => a \in BlockingIntents
  /\ row[a].filled = booked[a] \/ (row[a].filled = Size /\ venue[a].executed = Size)
  /\ row[a].status = "filled" => ~Open(a)
  /\ age[a] > 0 \/ row[a].error = "failed" \/ row[a].status = "rejected" => Seen(a)

\* What a reconciliation read is still so, or was true and is final.
LoopMatched(l) ==
  /\ l.pc \in {"idle", "fills", "applying", "append", "done"} => l.todo = {}
  /\ l.pc \in {"cancel", "mark"} => l.open[l.call.at] = "live"
  /\ \A a \in Attempts : l.trades[a] <= venue[a].executed
  /\ \A a \in l.todo :
       /\ row[a].status # "none"
       /\ l.rows[a].filled <= venue[a].executed
       /\ l.pc # "loaded" /\ l.open[a] \in {"filled", "canceled"} => venue[a].state = l.open[a]
       /\ l.pc # "loaded" /\ l.open[a] = "live" => Seen(a)

ExecMatched ==
  /\ exec.pc \in {"prepared", "answered", "stored"} => attempt[exec.at].intent = "prepared"
  /\ exec.pc = "prepared" => venue[exec.at].state = "absent"
  /\ exec.pc \in {"prepared", "answered"} => row[exec.at].status = "none"
  /\ exec.pc = "stored" => row[exec.at].status # "none"
  /\ exec.pc = "answered" /\ exec.reply = "rejected" => venue[exec.at].state = "absent"
  /\ exec.pc = "answered" /\ exec.reply = "filled" => venue[exec.at].state = "filled"

Matched ==
  /\ \A a \in Attempts : VenueMatched(a) /\ RowMatched(a)
  /\ \A r \in Reconcilers : LoopMatched(loop[r])
  /\ ExecMatched

LEMMA MatchedInit == Init => Matched
<1> SUFFICES ASSUME Init PROVE Matched
  OBVIOUS
<1>1. \A a \in Attempts : VenueMatched(a)
  BY DEF Init, VenueMatched
<1>2. \A a \in Attempts : RowMatched(a)
  BY DEF Init, RowMatched, Used, NoRow, NoAttempt, Open
<1>3. LoopMatched(IdleLoop)
  BY DEF Init, LoopMatched, IdleLoop, None
<1>4. \A r \in Reconcilers : loop[r] = IdleLoop
  BY DEF Init
<1>5. ExecMatched
  BY DEF Init, ExecMatched, Idle
<1> QED
  BY <1>1, <1>2, <1>3, <1>4, <1>5, Zenon DEF Matched

\* What a reconciliation may write in a row: never an end the venue has not
\* reached, nor a failure of an order it has not seen.
Fits(a, new) ==
  /\ new.filled = row[a].filled
  /\ new.status # "none"
  /\ new.status = "filled" => ~Open(a)
  /\ new.error = "failed" \/ new.status = "rejected" => Seen(a)
  /\ new.error = "failed" => row[a].error = "failed" \/ "failed" \in CancelErrors
  /\ new.status = "rejected" => row[a].status = "rejected"

\* What is open has lots left.
LEMMA FullMeansEnded ==
  ASSUME Typed, NEW a \in Attempts, venue[a].executed >= Size
  PROVE  ~Open(a)
BY OrderAssumption DEF Typed, WorldTyped, Lotted, Open

LEMMA ManageRows ==
  ASSUME Typed, Matched, NEW r \in Reconcilers, Manage(r)
  PROVE  /\ UNCHANGED <<attempt, age, booked, ledger, posLocal, exec, boot, crashes, shown, lag>>
         /\ \/ row' = row
            \/ /\ venue' = venue /\ loop[r].todo # {} /\ NextRow(r)
               /\ \E new \in RowRecords :
                    Fits(Current(r), new) /\ row' = [row EXCEPT ![Current(r)] = new]
<1> DEFINE a == Current(r)
           Writes(new) == new \in RowRecords /\ Fits(a, new) /\ row' = [row EXCEPT ![a] = new]
           Others == UNCHANGED <<attempt, age, booked, ledger, posLocal, exec, boot, crashes,
                                 shown, lag>>
<1>0. loop[r] \in LoopRecords /\ LoopAt(loop[r]) /\ LoopMatched(loop[r])
  BY DEF Typed, JobsTyped, Matched
<1>1. ASSUME loop[r].todo # {}
      PROVE  /\ a \in Attempts /\ a \in loop[r].todo /\ RowNow(r) \in RowRecords
             /\ RowNow(r) = row[a] /\ row[a].status # "none" /\ RowMatched(a)
             /\ RowThen(r) \in RowRecords /\ RowThen(r).filled <= venue[a].executed
  BY <1>0, <1>1, CurrentTyped DEF LoopMatched, Matched, RowNow, RowThen
<1>2. ASSUME NEW text \in ErrorTexts, loop[r].todo # {},
             text = "failed" => Seen(a) /\ "failed" \in CancelErrors
      PROVE  /\ [RowNow(r) EXCEPT !.error = text] \in RowRecords
             /\ Fits(a, [RowNow(r) EXCEPT !.error = text])
  BY <1>1, <1>2 DEF RowRecords, Fits, RowMatched
<1>3. ASSUME NEW new, WriteRow(r, new)
      PROVE  Others /\ venue' = venue /\ NextRow(r) /\ row' = [row EXCEPT ![a] = new]
  BY <1>3 DEF WriteRow, world
<1>4. ASSUME NEW new \in RowRecords, Fits(a, new), loop[r].todo # {}, WriteRow(r, new)
      PROVE  /\ Others /\ venue' = venue /\ loop[r].todo # {} /\ NextRow(r)
             /\ \E w \in RowRecords : Fits(a, w) /\ row' = [row EXCEPT ![a] = w]
  BY <1>3, <1>4
<1>5. CASE Load(r) \/ ListOpenOrders(r) \/ ListFails(r) \/ ReadClock(r) \/ AskCancel(r)
           \/ DoneManaging(r) \/ CancelAnswers(r)
  BY <1>5 DEF Load, ListOpenOrders, ListFails, ReadClock, AskCancel, DoneManaging,
              CancelAnswers, books, world
<1>6. CASE KeepMissing(r) \/ AwaitCancel(r) \/ KeepResting(r)
  <2>1. loop[r].todo # {} /\ WriteRow(r, [RowNow(r) EXCEPT !.error = "other"])
    BY <1>6 DEF KeepMissing, AwaitCancel, KeepResting, Resting, Managing
  <2>2. "other" \in ErrorTexts
    BY Named
  <2> QED
    BY <1>2, <1>4, <2>1, <2>2
<1>7. CASE ResolveMissing(r)
  <2> DEFINE status == MissingStatus(RowThen(r), Size)
             new == [RowNow(r) EXCEPT !.status = status, !.error = "other",
                       !.label = "missing_from_open_orders",
                       !.canceledAt = @ \/ status = "canceled"]
  <2>1. loop[r].todo # {} /\ WriteRow(r, new)
    BY <1>7 DEF ResolveMissing, Managing
  <2>2. status \in {"filled", "canceled"}
    BY DEF MissingStatus
  <2>3. status = "filled" => ~Open(a)
    <3>1. status = "filled" => RowThen(r).filled >= Size
      BY <1>1, <2>1, OrderAssumption DEF MissingStatus, Remaining, AtLeastZero, RowRecords
    <3>2. venue[a].executed \in 0 .. Size /\ RowThen(r).filled \in 0 .. Size /\ Size \in Nat
      BY <1>1, <2>1, OrderAssumption DEF Typed, WorldTyped, RowRecords
    <3> QED
      BY <1>1, <2>1, <3>1, <3>2, FullMeansEnded
  <2> HIDE DEF status
  <2>4. new \in RowRecords
    BY <1>1, <2>1, <2>2, Named DEF RowRecords
  <2>5. new.status = status /\ new.error = "other" /\ new.filled = RowNow(r).filled
    BY <1>1, <2>1 DEF RowRecords
  <2>6. Fits(a, new)
    <3> HIDE DEF new
    <3> QED
      BY <1>1, <2>1, <2>2, <2>3, <2>5 DEF Fits
  <2> HIDE DEF new
  <2> QED
    BY <1>4, <2>1, <2>4, <2>6
<1>8. CASE TakeListedStatus(r)
  <2> DEFINE status == ListedAs(r)
             new == [RowNow(r) EXCEPT !.status = status, !.label = "venue",
                       !.canceledAt = @ \/ status = "canceled"]
  <2>1. loop[r].todo # {} /\ WriteRow(r, new) /\ status \in {"filled", "canceled"}
        /\ loop[r].pc = "managing"
    BY <1>8 DEF TakeListedStatus, Managing
  <2>2. venue[a].state = status
    BY <1>0, <1>1, <2>1 DEF LoopMatched, ListedAs
  <2> HIDE DEF status
  <2>3. new \in RowRecords
    BY <1>1, <2>1, Named DEF RowRecords
  <2>4. new.status = status /\ new.error = RowNow(r).error /\ new.filled = RowNow(r).filled
    BY <1>1, <2>1 DEF RowRecords
  <2>5. Fits(a, new)
    <3> HIDE DEF new
    <3> QED
      BY <1>1, <2>1, <2>2, <2>4 DEF Fits, Open, RowMatched
  <2> HIDE DEF new
  <2> QED
    BY <1>4, <2>1, <2>3, <2>5
<1>9. ASSUME loop[r].pc \in {"cancel", "mark"}
      PROVE  loop[r].todo # {} /\ loop[r].call.at = a /\ Seen(a)
  BY <1>0, <1>1, <1>9 DEF LoopAt, LoopMatched, Current
<1>10. ASSUME NEW text \in CancelErrors, CancelFails(r, text)
       PROVE  /\ Others /\ venue' = venue /\ loop[r].todo # {} /\ NextRow(r)
              /\ \E w \in RowRecords : Fits(a, w) /\ row' = [row EXCEPT ![a] = w]
  <2>1. text \in ErrorTexts
    BY OrderAssumption
  <2>2. loop[r].pc = "cancel" /\ WriteRow(r, [RowNow(r) EXCEPT !.error = text])
    BY <1>10 DEF CancelFails
  <2> QED
    BY <1>2, <1>4, <1>9, <2>1, <2>2
<1>11. CASE MarkCanceling(r)
  <2> DEFINE status == IF RowThen(r).status = "partially_filled"
                       THEN "partially_filled" ELSE "acknowledged"
             label == loop[r].call.label
             new == [RowNow(r) EXCEPT !.status = status, !.label = label, !.error = "other"]
  <2>1. loop[r].todo # {} /\ loop[r].call.at = a
    BY <1>9, <1>11 DEF MarkCanceling
  <2>2. /\ row' = [row EXCEPT ![a] = new] /\ venue' = venue /\ NextRow(r) /\ Others
    BY <1>11, <2>1 DEF MarkCanceling, RowNow, world
  <2>3. status \in {"partially_filled", "acknowledged"} /\ label \in VenueLabels
    BY <1>0 DEF LoopRecords, Calls
  <2> HIDE DEF status, label
  <2>4. new \in RowRecords
    BY <1>1, <2>1, <2>3, Named DEF RowRecords
  <2>5. new.status = status /\ new.error = "other" /\ new.filled = RowNow(r).filled
    BY <1>1, <2>1 DEF RowRecords
  <2>6. Fits(a, new)
    <3> HIDE DEF new
    <3> QED
      BY <1>1, <2>1, <2>3, <2>5 DEF Fits
  <2> HIDE DEF new
  <2> QED
    BY <2>1, <2>2, <2>4, <2>6
<1> QED
  BY <1>5, <1>6, <1>7, <1>8, <1>10, <1>11 DEF Manage

\* A step that leaves the intents, the rows, the fills and the venue alone.
Quiet == UNCHANGED <<attempt, row, age, booked, world>>

\* A reconciliation writes the row in hand.
Managed(r) ==
  /\ UNCHANGED <<attempt, age, booked, ledger, posLocal, exec, boot, crashes, world>>
  /\ loop[r].todo # {} /\ NextRow(r)
  /\ \E new \in RowRecords :
       Fits(Current(r), new) /\ row' = [row EXCEPT ![Current(r)] = new]

LEMMA StepKinds ==
  ASSUME Typed, Matched, [Next]_vars
  PROVE  \/ Quiet
         \/ Prepare /\ attempt' # attempt
         \/ (\E reply \in Replies : Post(reply)) \/ RecordUnknown \/ CreateRow \/ Settle
         \/ \E a \in Attempts : Execute(a) \/ Expire(a) \/ Publish(a) \/ Grow(a)
         \/ \E r \in Reconcilers : CancelAnswers(r) \/ Managed(r)
         \/ \E r \in Reconcilers, a \in Attempts : ApplyTrade(r, a)
<1>1. CASE UNCHANGED vars
  BY <1>1 DEF vars, books, world, Quiet
<1>2. CASE Executing
  <2>1. ASSUME NEW s \in Signals, GateReject(s) \/ \E p \in Plans : Begin(s, p) PROVE Quiet
    BY <2>1 DEF GateReject, Begin, Quiet, books, world
  <2>2. CASE Capture
    BY <2>2 DEF Capture, Quiet, world
  <2>3. Prepare => Quiet \/ attempt' # attempt
    BY DEF Prepare, Quiet, world
  <2> QED
    BY <1>2, <2>1, <2>2, <2>3 DEF Executing
<1>3. CASE Venue \/ Time
  BY <1>3 DEF Venue, Time
<1>4. ASSUME NEW r \in Reconcilers, Manage(r)
      PROVE  Quiet \/ CancelAnswers(r) \/ Managed(r)
  <2>1. CASE row' # row
    <3>1. venue' = venue
      BY <1>4, <2>1, ManageRows
    <3> QED
      BY <1>4, <2>1, <3>1, ManageRows DEF Managed, world
  <2>2. CASE row' = row /\ venue' = venue
    BY <1>4, <2>2, ManageRows DEF Quiet, world
  <2>3. CASE venue' # venue
    <3>1. ~(\E new : WriteRow(r, new)) /\ ~MarkCanceling(r)
      BY <2>3 DEF WriteRow, MarkCanceling, world
    <3>2. ~KeepMissing(r) /\ ~ResolveMissing(r) /\ ~AwaitCancel(r) /\ ~TakeListedStatus(r)
          /\ ~KeepResting(r) /\ ~ \E text \in CancelErrors : CancelFails(r, text)
      BY <3>1 DEF KeepMissing, ResolveMissing, AwaitCancel, TakeListedStatus, KeepResting,
                  CancelFails
    <3>3. ~Load(r) /\ ~ListOpenOrders(r) /\ ~ListFails(r) /\ ~ReadClock(r) /\ ~AskCancel(r)
          /\ ~DoneManaging(r)
      BY <2>3 DEF Load, ListOpenOrders, ListFails, ReadClock, AskCancel, DoneManaging, world
    <3> QED
      BY <1>4, <3>1, <3>2, <3>3 DEF Manage
  <2> QED
    BY <2>1, <2>2, <2>3
<1>5. ASSUME NEW r \in Reconcilers, Reconcile(r)
      PROVE  Quiet \/ \E a \in Attempts : ApplyTrade(r, a)
  BY <1>5 DEF Reconcile, FetchTrades, SkipOrphan, AppendLedger, DoneReconciling, Quiet, books
<1>6. CASE RefreshPortfolio \/ Crash \/ StartRecovery \/ FinishRecovery
  BY <1>6 DEF RefreshPortfolio, Crash, StartRecovery, FinishRecovery, Quiet, books
<1>7. CASE Next
  BY <1>2, <1>3, <1>4, <1>5, <1>6, <1>7 DEF Next
<1> QED
  BY <1>1, <1>7

\* What one step does to the venue's side of an attempt.
LEMMA VenueMoves ==
  ASSUME Typed, Matched, [Next]_vars, NEW a \in Attempts
  PROVE  /\ lag' = lag
         /\ \/ venue'[a] = venue[a]
            \/ /\ exec.pc = "prepared" /\ exec.at = a /\ exec'.pc = "answered"
               /\ UNCHANGED <<books, shown>>
               /\ \/ venue'[a] = [state |-> "filled", executed |-> Size]
                  \/ venue'[a] = [state |-> "open", executed |-> 0]
            \/ /\ Open(a) /\ venue'[a].executed = venue[a].executed
               /\ venue'[a].state = "canceled" /\ UNCHANGED shown
            \/ /\ Open(a) /\ venue'[a].executed = venue[a].executed + 1
               /\ venue'[a].state \in {"open", "filled"} /\ UNCHANGED shown
         /\ \/ shown'[a] = shown[a]
            \/ /\ lag = "orders" /\ shown'[a].open = Open(a) /\ shown'[a].lots = shown[a].lots
               /\ venue' = venue
            \/ /\ lag # "orders" /\ shown'[a].open = shown[a].open
               /\ shown'[a].lots = venue[a].executed /\ venue' = venue
<1> DEFINE Places == [state : {"absent", "open", "filled", "canceled"}, executed : 0 .. Size]
<1>0. /\ venue \in [Attempts -> Places]
      /\ shown \in [Attempts -> [open : BOOLEAN, lots : 0 .. Size]]
  BY DEF Typed, WorldTyped
<1>1. CASE UNCHANGED world
  BY <1>1 DEF world
<1>2. ASSUME NEW reply \in Replies, Post(reply)
      PROVE  /\ lag' = lag /\ shown' = shown
             /\ \/ venue'[a] = venue[a]
                \/ /\ exec.pc = "prepared" /\ exec.at = a /\ exec'.pc = "answered"
                   /\ UNCHANGED <<books, shown>>
                   /\ \/ venue'[a] = [state |-> "filled", executed |-> Size]
                      \/ venue'[a] = [state |-> "open", executed |-> 0]
  <2>1. exec.pc = "prepared" /\ exec'.pc = "answered" /\ UNCHANGED <<books, shown>> /\ lag' = lag
    BY <1>2 DEF Post
  <2>2. \/ venue' = venue
        \/ venue' = [venue EXCEPT ![exec.at] = [state |-> "filled", executed |-> Size]]
        \/ venue' = [venue EXCEPT ![exec.at] = [state |-> "open", executed |-> 0]]
    BY <1>2 DEF Post
  <2> QED
    BY <1>0, <2>1, <2>2
<1>3. ASSUME NEW b \in Attempts, Execute(b)
      PROVE  /\ UNCHANGED <<lag, shown>>
             /\ \/ venue'[a] = venue[a]
                \/ /\ Open(a) /\ venue'[a].executed = venue[a].executed + 1
                   /\ venue'[a].state \in {"open", "filled"}
  BY <1>0, <1>3 DEF Execute
<1>4. ASSUME NEW b \in Attempts, Expire(b)
      PROVE  /\ UNCHANGED <<lag, shown>>
             /\ \/ venue'[a] = venue[a]
                \/ /\ Open(a) /\ venue'[a].executed = venue[a].executed
                   /\ venue'[a].state = "canceled"
  BY <1>0, <1>4 DEF Expire
<1>5. ASSUME NEW r \in Reconcilers, CancelAnswers(r)
      PROVE  /\ UNCHANGED <<lag, shown>>
             /\ \/ venue'[a] = venue[a]
                \/ /\ Open(a) /\ venue'[a].executed = venue[a].executed
                   /\ venue'[a].state = "canceled"
  <2>1. UNCHANGED <<lag, shown>>
    BY <1>5 DEF CancelAnswers
  <2>2. CASE UNCHANGED venue
    BY <2>1, <2>2
  <2>3. CASE venue' = [venue EXCEPT ![loop[r].call.at].state =
                         IF @ = "open" THEN "canceled" ELSE @]
    BY <1>0, <2>1, <2>3 DEF Open
  <2> QED
    BY <1>5, <2>2, <2>3 DEF CancelAnswers
<1>6. ASSUME NEW b \in Attempts, Publish(b)
      PROVE  /\ UNCHANGED <<lag, venue>>
             /\ \/ shown'[a] = shown[a]
                \/ /\ lag = "orders" /\ shown'[a].open = Open(a) /\ shown'[a].lots = shown[a].lots
                \/ /\ lag # "orders" /\ shown'[a].open = shown[a].open
                   /\ shown'[a].lots = venue[a].executed
  <2>1. CASE a = b
    BY <1>0, <1>6, <2>1 DEF Publish
  <2>2. CASE a # b
    BY <1>0, <1>6, <2>2 DEF Publish
  <2> QED
    BY <2>1, <2>2
<1>7. Quiet \/ Prepare \/ RecordUnknown \/ CreateRow \/ Settle
      \/ (\E b \in Attempts : Grow(b)) \/ (\E r \in Reconcilers : Managed(r))
      \/ (\E r \in Reconcilers, b \in Attempts : ApplyTrade(r, b))
      => UNCHANGED world
  BY DEF Quiet, Prepare, RecordUnknown, CreateRow, Settle, Grow, Managed, ApplyTrade
<1> QED
  BY <1>1, <1>2, <1>3, <1>4, <1>5, <1>6, <1>7, StepKinds

\* What one step does to a row.
LEMMA RowMoves ==
  ASSUME Typed, Matched, [Next]_vars, NEW a \in Attempts
  PROVE  \/ row'[a] = row[a] /\ booked'[a] = booked[a]
         \/ /\ row[a].status # "none" /\ Fits(a, row'[a])
            /\ UNCHANGED <<attempt, age, booked, world, exec>>
         \/ /\ row[a].status # "none" /\ row'[a] = AfterFill(row[a], Size)
            /\ booked'[a] = booked[a] + 1
            /\ \E r \in Reconcilers :
                 loop[r].pc = "applying" /\ booked[a] < loop[r].trades[a]
            /\ UNCHANGED <<attempt, age, world, exec>>
         \/ /\ exec.pc = "answered" /\ exec.at = a /\ CreateRow
<1>0. /\ row \in [Attempts -> RowRecords] /\ booked \in [Attempts -> 0 .. Size]
  BY DEF Typed, BooksTyped
<1>1. CASE UNCHANGED <<row, booked>>
  BY <1>1
<1>2. ASSUME NEW r \in Reconcilers, Managed(r)
      PROVE  \/ row'[a] = row[a] /\ booked'[a] = booked[a]
             \/ /\ row[a].status # "none" /\ Fits(a, row'[a])
                /\ UNCHANGED <<attempt, age, booked, world, exec>>
  <2>1. PICK new \in RowRecords :
          Fits(Current(r), new) /\ row' = [row EXCEPT ![Current(r)] = new]
    BY <1>2 DEF Managed
  <2>2. loop[r].todo # {} /\ UNCHANGED <<attempt, age, booked, world, exec>>
    BY <1>2 DEF Managed
  <2>3. Current(r) \in loop[r].todo
    BY <2>2, CurrentTyped
  <2>4. row[Current(r)].status # "none"
    BY <2>3 DEF Matched, LoopMatched
  <2>5. CASE a = Current(r)
    <3>1. row'[a] = new
      BY <1>0, <2>1, <2>5
    <3> QED
      BY <2>1, <2>2, <2>4, <2>5, <3>1
  <2>6. CASE a # Current(r)
    BY <1>0, <2>1, <2>2, <2>6
  <2> QED
    BY <2>5, <2>6
<1>3. ASSUME NEW r \in Reconcilers, NEW b \in Attempts, ApplyTrade(r, b)
      PROVE  \/ row'[a] = row[a] /\ booked'[a] = booked[a]
             \/ /\ row[a].status # "none" /\ row'[a] = AfterFill(row[a], Size)
                /\ booked'[a] = booked[a] + 1
                /\ loop[r].pc = "applying" /\ booked[a] < loop[r].trades[a]
                /\ UNCHANGED <<attempt, age, world, exec>>
  <2>1. /\ loop[r].pc = "applying" /\ booked[b] < loop[r].trades[b] /\ row[b].status # "none"
        /\ booked' = [booked EXCEPT ![b] = booked[b] + 1]
        /\ row' = [row EXCEPT ![b] = AfterFill(@, Size)]
        /\ UNCHANGED <<attempt, age, world, exec>>
    BY <1>3 DEF ApplyTrade
  <2> QED
    BY <1>0, <2>1
<1>4. CreateRow => exec.pc = "answered" /\ booked' = booked
                   /\ (exec.at # a => row'[a] = row[a])
  BY <1>0 DEF CreateRow
<1>5. Quiet \/ Prepare \/ (\E reply \in Replies : Post(reply)) \/ RecordUnknown \/ Settle
      \/ (\E b \in Attempts : Execute(b) \/ Expire(b) \/ Publish(b) \/ Grow(b))
      \/ (\E r \in Reconcilers : CancelAnswers(r))
      => UNCHANGED <<row, booked>>
  BY DEF Quiet, Prepare, RecordUnknown, Post, Settle, Grow, Execute, Expire, Publish,
         CancelAnswers, books
<1> QED
  BY <1>1, <1>2, <1>3, <1>4, <1>5, StepKinds

\* What was once true of an attempt and stays true.
Ahead(a) ==
  /\ venue[a].executed <= venue'[a].executed
  /\ venue[a].state \in {"filled", "canceled"} => venue'[a].state = venue[a].state
  /\ venue[a].state # "absent" => venue'[a].state # "absent"
  /\ row[a].status # "none" =>
       /\ row'[a].status # "none"
       /\ Seen(a) => Seen(a)'
       /\ ~Open(a) => ~Open(a)'

LEMMA AheadStep ==
  ASSUME Typed, Matched, [Next]_vars, NEW a \in Attempts
  PROVE  Ahead(a)
<1>0. /\ venue[a] \in [state : {"absent", "open", "filled", "canceled"}, executed : 0 .. Size]
      /\ row[a] \in RowRecords /\ Size \in Nat
      /\ exec.pc = "prepared" /\ exec.at = a =>
           venue[a].state = "absent" /\ venue[a].executed = 0 /\ row[a].status = "none"
  BY OrderAssumption DEF Typed, WorldTyped, BooksTyped, Matched, ExecMatched, Lotted
<1>1. venue[a].executed <= venue'[a].executed
  BY <1>0, VenueMoves
<1>2. venue[a].state \in {"filled", "canceled"} => venue'[a].state = venue[a].state
  BY <1>0, VenueMoves DEF Open
<1>3. venue[a].state # "absent" => venue'[a].state # "absent"
  BY <1>0, VenueMoves DEF Open
<1>4. ASSUME row[a].status # "none" PROVE row'[a].status # "none"
  <2>1. AfterFill(row[a], Size).status # "none"
    BY <1>0, FillOutcome
  <2>2. ~(exec.pc = "answered" /\ exec.at = a)
    BY <1>4 DEF Matched, ExecMatched
  <2> QED
    BY <1>4, <2>1, <2>2, RowMoves DEF Fits
<1>5. ASSUME row[a].status # "none", ~Open(a) PROVE ~Open(a)'
  BY <1>0, <1>5, VenueMoves DEF Open
<1>6. ASSUME row[a].status # "none", Seen(a) PROVE Seen(a)'
  <2>1. CASE shown'[a] = shown[a]
    BY <1>0, <1>5, <1>6, <2>1, VenueMoves DEF Seen, Open
  <2>2. CASE shown'[a] # shown[a]
    BY <1>0, <1>5, <1>6, <2>2, VenueMoves DEF Seen, Open
  <2> QED
    BY <2>1, <2>2
<1> QED
  BY <1>1, <1>2, <1>3, <1>4, <1>5, <1>6 DEF Ahead

\* The row an answer leaves behind.
LEMMA RowCreated ==
  ASSUME Typed, CreateRow
  PROVE  LET w == row'[exec.at]
         IN  /\ exec.at \in Attempts /\ exec.reply \in {"live", "filled", "rejected"}
             /\ w.status \in {"submitted", "filled", "rejected"}
             /\ w.status = "filled" <=> exec.reply = "filled"
             /\ w.status = "rejected" <=> exec.reply = "rejected"
             /\ w.error = "failed" => exec.reply = "rejected"
             /\ w.filled = IF exec.reply = "filled" THEN Size ELSE 0
             /\ UNCHANGED <<attempt, age, booked, world>>
             /\ exec.pc = "answered" /\ exec'.pc = "stored" /\ exec'.at = exec.at
<1> DEFINE status == CASE exec.reply = "live" -> "submitted" [] OTHER -> exec.reply
           error == IF exec.reply = "rejected" THEN "failed" ELSE "other"
           filled == IF exec.reply = "filled" THEN Size ELSE 0
           w == [NoRow EXCEPT !.status = status, !.label = "venue", !.error = error,
                              !.filled = filled]
<1>1. /\ exec.pc = "answered" /\ exec.reply # "uncertain"
      /\ row' = [row EXCEPT ![exec.at] = w] /\ exec' = [exec EXCEPT !.pc = "stored"]
      /\ UNCHANGED <<attempt, age, booked, world>>
  BY DEF CreateRow
<1>2. /\ exec.at \in Attempts /\ exec.reply \in Replies
      /\ exec = [pc |-> exec.pc, at |-> exec.at, reply |-> exec.reply]
      /\ row \in [Attempts -> RowRecords]
  BY <1>1, ExecTyped DEF Typed, JobsTyped, BooksTyped
<1>3. exec.reply \in {"live", "filled", "rejected"}
  BY <1>1, <1>2, OrderAssumption
<1>4. status \in {"submitted", "filled", "rejected"}
      /\ (status = "filled" <=> exec.reply = "filled")
      /\ (status = "rejected" <=> exec.reply = "rejected")
  BY <1>3
<1>5. error = "failed" => exec.reply = "rejected"
  OBVIOUS
<1>6. exec'.pc = "stored" /\ exec'.at = exec.at
  BY <1>1, <1>2
<1> HIDE DEF status, error, filled
<1>7. row'[exec.at].status = status /\ row'[exec.at].error = error
      /\ row'[exec.at].filled = filled
  BY <1>1, <1>2 DEF NoRow
<1> QED
  BY <1>1, <1>2, <1>3, <1>4, <1>5, <1>6, <1>7 DEF filled

\* What one step does to an intent.
LEMMA AttemptMoves ==
  ASSUME Typed, Matched, [Next]_vars, NEW a \in Attempts
  PROVE  \/ attempt'[a] = attempt[a]
         \/ /\ a \notin Used /\ attempt'[a].intent = "prepared"
            /\ attempt'[a].signal = exec.signal
            /\ exec.pc = "checked" /\ exec'.pc = "prepared" /\ exec'.at = a
            /\ UNCHANGED <<row, age, booked, world>>
         \/ /\ exec.pc = "answered" /\ exec.at = a /\ exec.reply = "uncertain"
            /\ attempt'[a].intent = "unknown_visibility"
            /\ attempt'[a].signal = attempt[a].signal
            /\ exec' = Idle /\ UNCHANGED <<row, age, booked, world>>
         \/ /\ exec.pc = "stored" /\ exec.at = a
            /\ attempt'[a].intent \in {"submitted", "terminal"}
            /\ attempt'[a].signal = attempt[a].signal
            /\ exec' = Idle /\ UNCHANGED <<row, age, booked, world>>
<1>0. attempt \in [Attempts -> AttemptRecords \cup {NoAttempt}]
      /\ \A b \in Used : attempt[b] \in AttemptRecords
  BY DEF Typed, BooksTyped, Used, NoAttempt
<1>1. ASSUME Prepare, attempt' # attempt
      PROVE  \/ attempt'[a] = attempt[a]
             \/ /\ a \notin Used /\ attempt'[a].intent = "prepared"
                /\ attempt'[a].signal = exec.signal
                /\ exec.pc = "checked" /\ exec'.pc = "prepared" /\ exec'.at = a
                /\ UNCHANGED <<row, age, booked, world>>
  <2> DEFINE n == Cardinality(Used) + 1
             new == [signal |-> exec.signal, epoch |-> exec.epoch, plan |-> exec.plan,
                     intent |-> "prepared"]
  <2>1. /\ exec.pc = "checked" /\ attempt' = [attempt EXCEPT ![n] = new]
        /\ exec' = [pc |-> "prepared", at |-> n] /\ UNCHANGED <<row, age, booked, world>>
    BY <1>1 DEF Prepare
  <2>2. n \notin Used
    <3>1. Cardinality(Used) \in 0 .. MaxAttempts /\ Used = 1 .. Cardinality(Used)
      BY UsedCounted
    <3> QED
      BY <3>1
  <2> HIDE DEF n
  <2>3. CASE a = n
    BY <1>0, <2>1, <2>2, <2>3
  <2>4. CASE a # n
    BY <1>0, <2>1, <2>4
  <2> QED
    BY <2>3, <2>4
<1>2. ASSUME RecordUnknown \/ Settle
      PROVE  /\ exec.at \in Attempts /\ attempt[exec.at] \in AttemptRecords
             /\ exec' = Idle /\ UNCHANGED <<row, age, booked, world>>
             /\ \A b \in Attempts \ {exec.at} : attempt'[b] = attempt[b]
             /\ attempt'[exec.at].signal = attempt[exec.at].signal
  <2>1. exec.pc \in {"answered", "stored"} /\ exec' = Idle /\ UNCHANGED <<row, age, booked, world>>
        /\ \E i : attempt' = [attempt EXCEPT ![exec.at].intent = i]
    BY <1>2 DEF RecordUnknown, Settle
  <2>2. exec.at \in Used /\ exec.at \in Attempts
    BY <2>1, ExecTyped DEF Typed, JobsTyped, Numbered
  <2>3. attempt[exec.at] \in AttemptRecords
    BY <1>0, <2>2
  <2>4. PICK i : attempt' = [attempt EXCEPT ![exec.at].intent = i]
    BY <2>1
  <2>5. attempt'[exec.at].signal = attempt[exec.at].signal
    BY <1>0, <2>2, <2>3, <2>4 DEF AttemptRecords
  <2>6. \A b \in Attempts \ {exec.at} : attempt'[b] = attempt[b]
    BY <1>0, <2>2, <2>4
  <2> QED
    BY <2>1, <2>2, <2>3, <2>5, <2>6
<1>3. ASSUME RecordUnknown
      PROVE  /\ exec.pc = "answered" /\ exec.reply = "uncertain"
             /\ attempt'[exec.at].intent = "unknown_visibility"
  BY <1>0, <1>2, <1>3 DEF RecordUnknown, AttemptRecords
<1>4. ASSUME Settle
      PROVE  exec.pc = "stored" /\ attempt'[exec.at].intent \in {"submitted", "terminal"}
  BY <1>0, <1>2, <1>4 DEF Settle, AttemptRecords
<1>5. Quiet \/ (\E reply \in Replies : Post(reply)) \/ CreateRow
      \/ (\E b \in Attempts : Execute(b) \/ Expire(b) \/ Publish(b) \/ Grow(b))
      \/ (\E r \in Reconcilers : CancelAnswers(r) \/ Managed(r))
      \/ (\E r \in Reconcilers, b \in Attempts : ApplyTrade(r, b))
      => attempt' = attempt
  BY DEF Quiet, Post, CreateRow, Execute, Expire, Publish, Grow, CancelAnswers, Managed,
         ApplyTrade, books
<1>6. CASE RecordUnknown
  BY <1>2, <1>3, <1>6
<1>7. CASE Settle
  BY <1>2, <1>4, <1>7
<1> QED
  BY <1>1, <1>5, <1>6, <1>7, StepKinds

\* The clock moves only over an order that is listed.
LEMMA AgeMoves ==
  ASSUME Typed, Matched, [Next]_vars, NEW a \in Attempts
  PROVE  \/ age'[a] = age[a]
         \/ /\ a \in Working /\ Seen(a) /\ UNCHANGED <<row, booked, attempt, world, jobs>>
            /\ age'[a] = age[a] + 1
            /\ SlowReplies \/ \A r \in Reconcilers : loop[r].pc # "listed"
<1>0. age \in [Attempts -> 0 .. 2]
  BY DEF Typed, BooksTyped
<1>1. ASSUME NEW b \in Attempts, Grow(b)
      PROVE  \/ age'[a] = age[a]
             \/ /\ a \in Working /\ Seen(a) /\ UNCHANGED <<row, booked, attempt, world, jobs>>
                /\ age'[a] = age[a] + 1
                /\ SlowReplies \/ \A r \in Reconcilers : loop[r].pc # "listed"
  BY <1>0, <1>1 DEF Grow, Seen
<1>2. Quiet \/ Prepare \/ (\E reply \in Replies : Post(reply)) \/ RecordUnknown \/ CreateRow
      \/ Settle \/ (\E b \in Attempts : Execute(b) \/ Expire(b) \/ Publish(b))
      \/ (\E r \in Reconcilers : CancelAnswers(r) \/ Managed(r))
      \/ (\E r \in Reconcilers, b \in Attempts : ApplyTrade(r, b))
      => age' = age
  BY DEF Quiet, Prepare, RecordUnknown, Post, CreateRow, Settle, Execute, Expire, Publish,
         CancelAnswers, Managed, ApplyTrade, books
<1> QED
  BY <1>1, <1>2, StepKinds

LEMMA VenueMatchedStep ==
  ASSUME Typed, Typed', Matched, [Next]_vars, NEW a \in Attempts
  PROVE  VenueMatched(a)'
<1>0. /\ venue[a] \in [state : {"absent", "open", "filled", "canceled"}, executed : 0 .. Size]
      /\ venue'[a] \in [state : {"absent", "open", "filled", "canceled"}, executed : 0 .. Size]
      /\ shown[a].lots \in 0 .. Size /\ booked[a] \in 0 .. Size /\ booked'[a] \in 0 .. Size
      /\ VenueMatched(a) /\ Ahead(a) /\ Size \in Nat
  BY AheadStep, OrderAssumption DEF Typed, WorldTyped, BooksTyped, Matched
<1>1. shown'[a].lots <= venue'[a].executed
  <2>1. shown[a].lots <= venue'[a].executed
    BY <1>0 DEF VenueMatched, Ahead
  <2>2. CASE shown'[a].lots = shown[a].lots
    BY <2>1, <2>2
  <2>3. CASE shown'[a].lots = venue[a].executed
    BY <1>0, <2>3 DEF Ahead
  <2> QED
    BY <2>2, <2>3, VenueMoves
<1>2. a \in Used => a \in Used'
  BY AttemptMoves DEF Used
<1>3. venue'[a].state # "absent" => a \in Used'
  <2>1. CASE venue[a].state # "absent"
    BY <1>0, <1>2, <2>1 DEF VenueMatched
  <2>2. CASE venue[a].state = "absent" /\ venue'[a].state # "absent"
    <3>1. exec.pc = "prepared" /\ exec.at = a
      BY <2>2, VenueMoves DEF Open
    <3> QED
      BY <1>2, <3>1 DEF Matched, ExecMatched, Used
  <2> QED
    BY <2>1, <2>2
<1>4. booked'[a] <= venue'[a].executed
  <2>1. CASE booked'[a] = booked[a]
    BY <1>0, <2>1 DEF VenueMatched, Ahead
  <2>2. ASSUME booked'[a] = booked[a] + 1, NEW r \in Reconcilers, booked[a] < loop[r].trades[a]
        PROVE  booked'[a] <= venue'[a].executed
    <3>1. loop[r].trades[a] <= venue[a].executed
      BY DEF Matched, LoopMatched
    <3>2. loop[r].trades[a] \in 0 .. Size
      BY DEF Typed, JobsTyped, LoopRecords
    <3> QED
      BY <1>0, <2>2, <3>1, <3>2 DEF Ahead
  <2>3. CreateRow => booked'[a] = booked[a]
    BY DEF CreateRow
  <2> QED
    BY <2>1, <2>2, <2>3, RowMoves
<1> QED
  BY <1>1, <1>3, <1>4 DEF VenueMatched

LEMMA RowMatchedStep ==
  ASSUME Typed, Typed', Matched, [Next]_vars, NEW a \in Attempts
  PROVE  RowMatched(a)'
<1>0. /\ row[a] \in RowRecords /\ row'[a] \in RowRecords /\ Size \in Nat
      /\ booked[a] \in 0 .. Size /\ booked'[a] \in 0 .. Size
      /\ venue[a].executed \in 0 .. Size /\ venue'[a].executed \in 0 .. Size
      /\ row[a].filled \in 0 .. Size /\ row'[a].filled \in 0 .. Size
      /\ age[a] \in 0 .. 2
      /\ RowMatched(a) /\ Ahead(a) /\ VenueMatched(a)
  BY AheadStep, OrderAssumption DEF Typed, WorldTyped, BooksTyped, Matched, RowRecords
<1>1. a \in Used => a \in Used'
  BY AttemptMoves DEF Used
<1>2. CASE CreateRow /\ exec.at = a
  <2>1. /\ row[a].status = "none" /\ a \in Used /\ booked[a] = 0 /\ age[a] = 0
        /\ exec.reply = "rejected" => venue[a].state = "absent"
        /\ exec.reply = "filled" => venue[a].state = "filled"
    BY <1>0, <1>2, RowCreated DEF Matched, ExecMatched, Used, RowMatched
  <2>2. venue[a].state = "filled" => venue[a].executed = Size
    BY DEF Typed, Lotted
  <2>3. UNCHANGED <<attempt, age, booked, world>>
    BY <1>2, RowCreated
  <2>4. /\ row'[a].status # "none"
        /\ row'[a].status = "filled" => exec.reply = "filled"
        /\ row'[a].status = "rejected" \/ row'[a].error = "failed" => exec.reply = "rejected"
        /\ row'[a].filled = IF exec.reply = "filled" THEN Size ELSE 0
    BY <1>2, RowCreated
  <2>5. age'[a] = 0 /\ booked'[a] = 0 /\ venue' = venue
    BY <2>1, <2>3 DEF world
  <2> QED
    BY <1>1, <2>1, <2>2, <2>4, <2>5 DEF RowMatched, Open, Seen
<1>3. CASE ~(CreateRow /\ exec.at = a)
  <2>1. row'[a].status # "none" => row[a].status # "none"
    BY <1>3, RowMoves
  <2>2. row'[a].status # "none" => a \in Used'
    BY <1>0, <1>1, <2>1 DEF RowMatched
  <2>3. ASSUME row'[a].status = "none"
        PROVE  row'[a] = NoRow /\ age'[a] = 0 /\ booked'[a] = 0
    <3>1. row[a].status = "none" /\ row[a] = NoRow /\ age[a] = 0 /\ booked[a] = 0
      BY <1>0, <2>3 DEF RowMatched, Ahead
    <3>2. row'[a] = row[a] /\ booked'[a] = booked[a]
      BY <1>3, <3>1, RowMoves
    <3>3. age'[a] = age[a]
      BY <3>1, AgeMoves DEF Working, WorkingStatuses
    <3> QED
      BY <3>1, <3>2, <3>3
  <2>4. ASSUME row'[a].status = "none", a \in Used'
        PROVE  a \in BlockingIntents'
    <3>1. row[a].status = "none"
      BY <1>0, <2>4 DEF Ahead
    <3>2. CASE attempt'[a] = attempt[a]
      BY <1>0, <2>4, <3>1, <3>2 DEF Used, BlockingIntents, RowMatched
    <3>3. ~(exec.pc = "stored" /\ exec.at = a)
      BY <3>1 DEF Matched, ExecMatched
    <3>4. attempt'[a] # attempt[a]
            => attempt'[a].intent \in {"prepared", "unknown_visibility"}
      BY <3>3, AttemptMoves
    <3> QED
      BY <3>2, <3>4 DEF BlockingIntents
  <2>5. ASSUME row[a].filled = Size, venue[a].executed = Size
        PROVE  venue'[a].executed = Size /\ ~Open(a)'
    <3>1. venue'[a].executed = Size
      BY <1>0, <2>5 DEF Ahead
    <3> QED
      BY <1>0, <3>1 DEF Typed, Lotted, Open
  <2>6. CASE row'[a] = row[a] /\ booked'[a] = booked[a]
    <3>1. row'[a].filled = booked'[a] \/ (row'[a].filled = Size /\ venue'[a].executed = Size)
      BY <1>0, <2>5, <2>6 DEF RowMatched
    <3>2. row'[a].status = "filled" => ~Open(a)'
      BY <1>0, <2>6 DEF RowMatched, Ahead
    <3>3. row'[a].error = "failed" \/ row'[a].status = "rejected" => Seen(a)'
      <4>1. row[a].error = "failed" => row[a].status # "none"
        BY <1>0 DEF RowMatched, NoRow
      <4> QED
        BY <1>0, <2>6, <4>1 DEF RowMatched, Ahead
    <3>4. age'[a] > 0 => Seen(a)'
      <4>1. CASE age'[a] = age[a]
        <5>1. age[a] > 0 => row[a].status # "none" /\ Seen(a)
          BY <1>0 DEF RowMatched
        <5> QED
          BY <1>0, <4>1, <5>1 DEF Ahead
      <4>2. CASE a \in Working /\ Seen(a)
        BY <1>0, <4>2 DEF Ahead, Working, WorkingStatuses
      <4> QED
        BY <4>1, <4>2, AgeMoves
    <3> QED
      BY <2>2, <2>3, <2>4, <3>1, <3>2, <3>3, <3>4 DEF RowMatched
  <2>7. CASE /\ row[a].status # "none" /\ Fits(a, row'[a])
             /\ UNCHANGED <<attempt, age, booked, world, exec>>
    <3>1. row'[a].filled = booked'[a] \/ (row'[a].filled = Size /\ venue'[a].executed = Size)
      BY <1>0, <2>5, <2>7 DEF RowMatched, Fits
    <3>2. /\ row'[a].status = "filled" => ~Open(a)'
          /\ row'[a].error = "failed" \/ row'[a].status = "rejected" => Seen(a)'
          /\ age'[a] > 0 => Seen(a)'
      BY <1>0, <2>7 DEF RowMatched, Fits, Ahead
    <3> QED
      BY <2>2, <2>3, <2>4, <3>1, <3>2 DEF RowMatched
  <2>8. CASE /\ row[a].status # "none" /\ row'[a] = AfterFill(row[a], Size)
             /\ booked'[a] = booked[a] + 1
             /\ \E r \in Reconcilers :
                  loop[r].pc = "applying" /\ booked[a] < loop[r].trades[a]
             /\ UNCHANGED <<attempt, age, world, exec>>
    <3> DEFINE filled == AtMost(Size, row[a].filled + 1)
    <3>1. /\ row'[a].filled = filled /\ row'[a].error = row[a].error
          /\ row'[a].status = "filled" => filled >= Size
          /\ row'[a].status = "rejected" => row[a].error = "failed"
      BY <1>0, <2>8, FillOutcome
    <3>2. booked[a] + 1 <= venue[a].executed
      <4>1. PICK r \in Reconcilers : booked[a] < loop[r].trades[a]
        BY <2>8
      <4>2. loop[r].trades[a] <= venue[a].executed /\ loop[r].trades[a] \in 0 .. Size
        BY DEF Typed, JobsTyped, LoopRecords, Matched, LoopMatched
      <4> QED
        BY <1>0, <4>1, <4>2
    <3>3. row'[a].filled = booked'[a] \/ (row'[a].filled = Size /\ venue'[a].executed = Size)
      <4>1. CASE row[a].filled = booked[a]
        <5>1. filled = booked[a] + 1
          BY <1>0, <3>2, <4>1 DEF AtMost
        <5> QED
          BY <2>8, <3>1, <5>1
      <4>2. CASE row[a].filled = Size /\ venue[a].executed = Size
        <5>1. filled = Size
          BY <1>0, <4>2 DEF AtMost
        <5> QED
          BY <2>5, <3>1, <4>2, <5>1
      <4> QED
        BY <1>0, <4>1, <4>2 DEF RowMatched
    <3>5. filled >= Size => ~Open(a)'
      <4>1. filled >= Size => venue[a].executed >= Size
        <5>1. CASE row[a].filled = booked[a]
          BY <1>0, <3>2, <5>1 DEF AtMost
        <5>2. CASE row[a].filled = Size /\ venue[a].executed = Size
          BY <1>0, <5>2
        <5> QED
          BY <1>0, <5>1, <5>2 DEF RowMatched
      <4>2. filled >= Size => ~Open(a)
        BY <4>1, FullMeansEnded
      <4> QED
        BY <1>0, <2>8, <4>2 DEF Ahead
    <3>7. /\ row'[a].error = "failed" \/ row'[a].status = "rejected" => Seen(a)'
          /\ age'[a] > 0 => Seen(a)'
      BY <1>0, <2>8, <3>1 DEF RowMatched, Ahead
    <3> QED
      BY <2>2, <2>3, <2>4, <3>1, <3>3, <3>5, <3>7 DEF RowMatched
  <2> QED
    BY <1>3, <2>6, <2>7, <2>8, RowMoves
<1> QED
  BY <1>2, <1>3

\* A reconciliation that goes on with what it has.
LEMMA LoopGoesOn ==
  ASSUME Typed, Matched, [Next]_vars, NEW q \in Reconcilers,
         loop'[q].todo \subseteq loop[q].todo,
         \A a \in loop'[q].todo : /\ loop'[q].rows[a] = loop[q].rows[a]
                                  /\ loop'[q].open[a] = loop[q].open[a],
         loop'[q].trades = loop[q].trades,
         loop[q].pc = "loaded" => loop'[q].pc = "loaded",
         loop'[q].pc \in {"idle", "fills", "applying", "append", "done"} => loop'[q].todo = {},
         loop'[q].pc \in {"cancel", "mark"} => loop'[q].open[loop'[q].call.at] = "live"
  PROVE  LoopMatched(loop[q])'
<1>0. LoopMatched(loop[q]) /\ loop[q] \in LoopRecords
  BY DEF Matched, Typed, JobsTyped
<1>1. ASSUME NEW a \in Attempts PROVE loop'[q].trades[a] <= venue'[a].executed
  <2>1. loop[q].trades[a] <= venue[a].executed /\ venue[a].executed <= venue'[a].executed
    BY <1>0, AheadStep DEF LoopMatched, Ahead
  <2>2. loop[q].trades[a] \in 0 .. Size /\ venue[a].executed \in 0 .. Size
        /\ venue'[a].executed \in Int
    <3>1. Typed'
      BY TypedStep
    <3> QED
      BY <1>0, <3>1 DEF LoopRecords, Typed, WorldTyped
  <2> QED
    BY <2>1, <2>2
<1>2. ASSUME NEW a \in loop'[q].todo
      PROVE  /\ row'[a].status # "none" /\ loop'[q].rows[a].filled <= venue'[a].executed
             /\ loop'[q].pc # "loaded" /\ loop'[q].open[a] \in {"filled", "canceled"}
                  => venue'[a].state = loop'[q].open[a]
             /\ loop'[q].pc # "loaded" /\ loop'[q].open[a] = "live" => Seen(a)'
  <2>1. a \in loop[q].todo /\ a \in Attempts
    BY <1>0 DEF LoopRecords
  <2>2. Ahead(a)
    BY <2>1, AheadStep
  <2>3. row[a].status # "none" /\ loop[q].rows[a].filled <= venue[a].executed
    BY <1>0, <2>1 DEF LoopMatched
  <2>4. loop'[q].rows[a].filled <= venue'[a].executed
    <3>1. venue[a].executed <= venue'[a].executed
      BY <2>2 DEF Ahead
    <3>2. loop[q].rows[a].filled \in Int /\ venue[a].executed \in Int /\ venue'[a].executed \in Int
      <4>1. Typed'
        BY TypedStep
      <4> QED
        BY <1>0, <2>1, <4>1 DEF LoopRecords, RowRecords, Typed, WorldTyped
    <3> QED
      BY <2>3, <3>1, <3>2
  <2>5. row'[a].status # "none"
    BY <2>2, <2>3 DEF Ahead
  <2>6. ASSUME loop'[q].pc # "loaded" PROVE loop[q].pc # "loaded"
    BY <2>6
  <2>7. loop'[q].pc # "loaded" /\ loop'[q].open[a] \in {"filled", "canceled"}
          => venue'[a].state = loop'[q].open[a]
    BY <1>0, <2>1, <2>2, <2>6 DEF LoopMatched, Ahead
  <2>8. loop'[q].pc # "loaded" /\ loop'[q].open[a] = "live" => Seen(a)'
    BY <1>0, <2>1, <2>2, <2>3, <2>6 DEF LoopMatched, Ahead
  <2> QED
    BY <2>4, <2>5, <2>7, <2>8
<1> QED
  BY <1>1, <1>2 DEF LoopMatched

\* A reconciliation that starts over, or has nothing in hand.
LEMMA LoopStartsOver ==
  ASSUME Typed', NEW q \in Reconcilers,
         loop'[q].pc \in {"idle", "fills", "done"}, loop'[q].todo = {}, loop'[q].trades = None
  PROVE  LoopMatched(loop[q])'
<1>1. \A a \in Attempts : venue'[a].executed >= 0 /\ None[a] = 0
  BY DEF Typed, WorldTyped, None
<1> QED
  BY <1>1 DEF LoopMatched

LEMMA ManageLoops ==
  ASSUME Typed, Typed', Matched, [Next]_vars, NEW r \in Reconcilers, Manage(r)
  PROVE  LoopMatched(loop[r])'
<1> DEFINE a == Current(r)
           Goes == LoopMatched(loop[r])'
<1>0. /\ loop[r] \in LoopRecords /\ LoopAt(loop[r]) /\ LoopMatched(loop[r])
      /\ loop \in [Reconcilers -> LoopRecords]
      /\ row \in [Attempts -> RowRecords]
  BY DEF Typed, JobsTyped, BooksTyped, Matched
<1>1. ASSUME NEW l, Step(r, l) PROVE loop'[r] = l
  BY <1>0, <1>1 DEF Step
<1>2. CASE Load(r)
  <2> DEFINE mine == [b \in Attempts |-> IF b \in Working
                        THEN [NoRow EXCEPT !.status = row[b].status,
                                !.label = row[b].label, !.filled = row[b].filled]
                        ELSE NoRow]
             l == [IdleLoop EXCEPT !.pc = "loaded", !.todo = Working, !.rows = mine]
  <2>1. loop'[r] = l /\ UNCHANGED <<books, world>>
    BY <1>1, <1>2 DEF Load
  <2>2. l.pc = "loaded" /\ l.todo = Working /\ l.rows = mine /\ l.trades = None
    <3> HIDE DEF mine
    <3> QED
      BY DEF IdleLoop
  <2>3. \A b \in Working : b \in Attempts /\ mine[b].filled = row[b].filled
                           /\ row[b].status # "none" /\ row[b].filled <= venue[b].executed
    <3> SUFFICES ASSUME NEW b \in Working
                 PROVE  b \in Attempts /\ mine[b].filled = row[b].filled
                        /\ row[b].status # "none" /\ row[b].filled <= venue[b].executed
      OBVIOUS
    <3>1. b \in Attempts /\ row[b].status # "none"
      BY DEF Working, WorkingStatuses
    <3>2. row[b].filled <= venue[b].executed
      <4>1. row[b].filled \in 0 .. Size /\ venue[b].executed \in 0 .. Size /\ Size \in Nat
        BY <1>0, <3>1, OrderAssumption DEF RowRecords, Typed, WorldTyped
      <4> QED
        BY <3>1, <4>1 DEF Matched, RowMatched, VenueMatched
    <3>3. mine[b].filled = row[b].filled
      BY <3>1 DEF NoRow
    <3> QED
      BY <3>1, <3>2, <3>3
  <2> HIDE DEF l, mine
  <2>4. \A b \in Attempts : None[b] <= venue[b].executed
    BY DEF None, Typed, WorldTyped
  <2> QED
    BY <2>1, <2>2, <2>3, <2>4 DEF LoopMatched, books, world
<1>3. CASE ListOpenOrders(r)
  <2>1. PICK o \in Listing(loop[r].todo) :
          Step(r, [loop[r] EXCEPT !.pc = "listed", !.open = o])
    BY <1>3 DEF ListOpenOrders
  <2>2. UNCHANGED <<books, world>>
    BY <1>3 DEF ListOpenOrders
  <2> DEFINE l == [loop[r] EXCEPT !.pc = "listed", !.open = o]
  <2>3. l.pc = "listed" /\ l.open = o /\ l.todo = loop[r].todo /\ l.rows = loop[r].rows
        /\ l.trades = loop[r].trades
    BY <1>0 DEF LoopRecords
  <2>4. loop'[r] = l
    BY <1>1, <2>1
  <2>5. ASSUME NEW b \in loop[r].todo
        PROVE  /\ o[b] \in {"filled", "canceled"} => venue[b].state = o[b]
               /\ o[b] = "live" => Seen(b)
    <3>1. b \in Attempts
      BY <1>0 DEF LoopRecords
    <3>2. IF b \in ListedOpen THEN o[b] \in {"live", venue[b].state} \ {"open"}
                              ELSE o[b] = "missing"
      BY <2>1, <3>1 DEF Listing
    <3> QED
      BY <3>2 DEF ListedOpen, Seen
  <2> HIDE DEF l
  <2> QED
    BY <1>0, <2>2, <2>3, <2>4, <2>5 DEF LoopMatched, Seen, Open, books, world
<1>4. CASE ListFails(r)
  <2>1. loop'[r] = [IdleLoop EXCEPT !.pc = "fills", !.failed = TRUE]
    BY <1>1, <1>4 DEF ListFails
  <2>2. loop'[r].pc = "fills" /\ loop'[r].todo = {} /\ loop'[r].trades = None
    BY <2>1 DEF IdleLoop
  <2> QED
    BY <2>2, LoopStartsOver
<1>5. CASE DoneManaging(r)
  <2>1. loop'[r] = [IdleLoop EXCEPT !.pc = "fills"]
    BY <1>1, <1>5 DEF DoneManaging
  <2>2. loop'[r].pc = "fills" /\ loop'[r].todo = {} /\ loop'[r].trades = None
    BY <2>1 DEF IdleLoop
  <2> QED
    BY <2>2, LoopStartsOver
<1>6. CASE ReadClock(r)
  <2> DEFINE ages == [b \in Attempts |-> IF b \in loop[r].todo THEN age[b] ELSE 0]
             l == [loop[r] EXCEPT !.pc = "managing", !.ages = ages]
  <2>1. loop'[r] = l /\ loop[r].pc = "listed"
    BY <1>1, <1>6 DEF ReadClock
  <2>2. l.pc = "managing" /\ l.todo = loop[r].todo /\ l.rows = loop[r].rows
        /\ l.open = loop[r].open /\ l.trades = loop[r].trades
    <3> HIDE DEF ages
    <3> QED
      BY <1>0 DEF LoopRecords
  <2> HIDE DEF l
  <2> QED
    BY <2>1, <2>2, LoopGoesOn
<1>7. CASE AskCancel(r)
  <2>1. loop[r].pc = "managing" /\ loop[r].open[a] = "live"
    BY <1>7 DEF AskCancel, Resting, Managing, ListedAs
  <2>2. PICK label, rejects :
          Step(r, [loop[r] EXCEPT !.pc = "cancel",
                    !.call = [NoCall EXCEPT !.at = a, !.label = label, !.rejects = rejects]])
    BY <1>7 DEF AskCancel
  <2> DEFINE c == [NoCall EXCEPT !.at = a, !.label = label, !.rejects = rejects]
             l == [loop[r] EXCEPT !.pc = "cancel", !.call = c]
  <2>3. loop'[r] = l
    BY <1>1, <2>2
  <2>4. c.at = a
    BY DEF NoCall
  <2>5. l.pc = "cancel" /\ l.call.at = a /\ l.todo = loop[r].todo /\ l.rows = loop[r].rows
        /\ l.open = loop[r].open /\ l.trades = loop[r].trades
    <3> HIDE DEF c
    <3> QED
      BY <1>0, <2>4 DEF LoopRecords
  <2> HIDE DEF l
  <2> QED
    BY <2>1, <2>3, <2>5, LoopGoesOn
<1>8. CASE CancelAnswers(r)
  <2> DEFINE l == [loop[r] EXCEPT !.pc = "mark"]
  <2>1. loop'[r] = l /\ loop[r].pc = "cancel"
    BY <1>1, <1>8 DEF CancelAnswers
  <2>2. l.pc = "mark" /\ l.todo = loop[r].todo /\ l.rows = loop[r].rows
        /\ l.open = loop[r].open /\ l.trades = loop[r].trades /\ l.call = loop[r].call
    BY <1>0 DEF LoopRecords
  <2>3. l.open[l.call.at] = "live"
    BY <1>0, <2>1, <2>2 DEF LoopMatched
  <2> HIDE DEF l
  <2> QED
    BY <2>1, <2>2, <2>3, LoopGoesOn
<1>9. ASSUME NextRow(r), loop[r].pc # "loaded" PROVE Goes
  <2> DEFINE l == [loop[r] EXCEPT !.pc = "managing", !.todo = @ \ {a}, !.call = NoCall,
                     !.rows[a] = NoRow, !.open[a] = "missing", !.ages[a] = 0]
  <2>1. loop'[r] = l
    BY <1>1, <1>9 DEF NextRow
  <2>2. l.pc = "managing" /\ l.todo = loop[r].todo \ {a} /\ l.trades = loop[r].trades
        /\ l.rows = [loop[r].rows EXCEPT ![a] = NoRow]
        /\ l.open = [loop[r].open EXCEPT ![a] = "missing"]
    BY <1>0 DEF LoopRecords
  <2> HIDE DEF l
  <2>3. \A b \in l.todo : l.rows[b] = loop[r].rows[b] /\ l.open[b] = loop[r].open[b]
    BY <1>0, <2>2 DEF LoopRecords
  <2> QED
    BY <1>9, <2>1, <2>2, <2>3, LoopGoesOn
<1>10. KeepMissing(r) \/ ResolveMissing(r) \/ AwaitCancel(r) \/ TakeListedStatus(r)
       \/ KeepResting(r) \/ (\E text \in CancelErrors : CancelFails(r, text))
       \/ MarkCanceling(r)
       => NextRow(r) /\ loop[r].pc # "loaded"
  BY DEF KeepMissing, ResolveMissing, AwaitCancel, TakeListedStatus, KeepResting, Resting,
         Managing, CancelFails, MarkCanceling, WriteRow
<1> QED
  BY <1>2, <1>3, <1>4, <1>5, <1>6, <1>7, <1>8, <1>9, <1>10 DEF Manage

LEMMA ReconcileLoops ==
  ASSUME Typed, Typed', Matched, [Next]_vars, NEW r \in Reconcilers, Reconcile(r)
  PROVE  LoopMatched(loop[r])'
<1>0. /\ loop[r] \in LoopRecords /\ LoopMatched(loop[r])
      /\ loop \in [Reconcilers -> LoopRecords]
  BY DEF Typed, JobsTyped, Matched
<1>1. ASSUME NEW l, Step(r, l) PROVE loop'[r] = l
  BY <1>0, <1>1 DEF Step
<1>2. CASE FetchTrades(r)
  <2>1. loop[r].pc = "fills" /\ loop[r].todo = {} /\ UNCHANGED <<books, world>>
    BY <1>0, <1>2 DEF FetchTrades, LoopMatched
  <2> DEFINE l == [loop[r] EXCEPT !.pc = "applying", !.trades = Reported]
             m == [loop[r] EXCEPT !.pc = "done", !.failed = TRUE]
  <2>2. loop'[r] = l \/ loop'[r] = m
    BY <1>1, <1>2 DEF FetchTrades
  <2>3. CASE loop'[r] = m
    <3>1. m.pc = "done" /\ m.todo = loop[r].todo /\ m.trades = loop[r].trades
      BY <1>0 DEF LoopRecords
    <3> HIDE DEF m
    <3> QED
      BY <2>1, <2>3, <3>1, LoopGoesOn
  <2>4. CASE loop'[r] = l
    <3>1. l.pc = "applying" /\ l.todo = loop[r].todo /\ l.trades = Reported
      BY <1>0 DEF LoopRecords
    <3> HIDE DEF l
    <3>2. ASSUME NEW b \in Attempts PROVE Reported[b] <= venue[b].executed
      BY DEF Reported, Matched, VenueMatched, Typed, WorldTyped
    <3> QED
      BY <2>1, <2>4, <3>1, <3>2 DEF LoopMatched, world
  <2> QED
    BY <2>2, <2>3, <2>4
<1>3. ASSUME NEW a \in Attempts, ApplyTrade(r, a) PROVE LoopMatched(loop[r])'
  <2> DEFINE c == [NoCall EXCEPT !.at = a, !.lots = booked[a] + 1]
             l == [loop[r] EXCEPT !.pc = "append", !.call = c]
  <2>1. (loop'[r] = l \/ loop'[r] = loop[r]) /\ loop[r].pc = "applying" /\ loop[r].todo = {}
    BY <1>0, <1>1, <1>3 DEF ApplyTrade, LoopMatched
  <2>2. l.pc = "append" /\ l.todo = loop[r].todo /\ l.trades = loop[r].trades
    <3> HIDE DEF c
    <3> QED
      BY <1>0 DEF LoopRecords
  <2> HIDE DEF l
  <2> QED
    BY <2>1, <2>2, LoopGoesOn
<1>4. ASSUME NEW a \in Attempts, SkipOrphan(r, a) PROVE LoopMatched(loop[r])'
  <2> DEFINE l == [loop[r] EXCEPT !.trades[a] = booked[a]]
  <2>1. loop'[r] = l /\ loop[r].pc = "applying" /\ loop[r].todo = {} /\ UNCHANGED <<books, world>>
    BY <1>0, <1>1, <1>4 DEF SkipOrphan, LoopMatched
  <2>2. l.pc = "applying" /\ l.todo = {} /\ l.trades = [loop[r].trades EXCEPT ![a] = booked[a]]
    BY <1>0, <2>1 DEF LoopRecords
  <2> HIDE DEF l
  <2>3. \A b \in Attempts : l.trades[b] <= venue[b].executed
    BY <1>0, <2>2 DEF LoopRecords, LoopMatched, Matched, VenueMatched
  <2> QED
    BY <2>1, <2>2, <2>3 DEF LoopMatched, world
<1>5. CASE AppendLedger(r)
  <2> DEFINE l == [loop[r] EXCEPT !.pc = "applying", !.call = NoCall]
  <2>1. loop'[r] = l /\ loop[r].pc = "append" /\ loop[r].todo = {}
    BY <1>0, <1>1, <1>5 DEF AppendLedger, LoopMatched
  <2>2. l.pc = "applying" /\ l.todo = {} /\ l.trades = loop[r].trades
    BY <1>0, <2>1 DEF LoopRecords
  <2> HIDE DEF l
  <2> QED
    BY <2>1, <2>2, LoopGoesOn
<1>6. CASE DoneReconciling(r)
  <2>1. \/ loop'[r] = IdleLoop
        \/ loop'[r] = [IdleLoop EXCEPT !.pc = "done", !.failed = loop[r].failed]
    BY <1>1, <1>6 DEF DoneReconciling
  <2>2. loop'[r].pc \in {"idle", "done"} /\ loop'[r].todo = {} /\ loop'[r].trades = None
    <3>1. CASE loop'[r] = IdleLoop
      BY <3>1 DEF IdleLoop
    <3>2. CASE loop'[r] = [IdleLoop EXCEPT !.pc = "done", !.failed = loop[r].failed]
      <4> DEFINE f == loop[r].failed
      <4> HIDE DEF f
      <4>1. loop'[r] = [IdleLoop EXCEPT !.pc = "done", !.failed = f]
        BY <3>2 DEF f
      <4> QED
        BY <4>1 DEF IdleLoop
    <3> QED
      BY <2>1, <3>1, <3>2
  <2> QED
    BY <2>2, LoopStartsOver
<1> QED
  BY <1>2, <1>3, <1>4, <1>5, <1>6 DEF Reconcile

LEMMA LoopMatchedStep ==
  ASSUME Typed, Typed', Matched, [Next]_vars, NEW q \in Reconcilers
  PROVE  LoopMatched(loop[q])'
<1>0. loop \in [Reconcilers -> LoopRecords] /\ LoopMatched(loop[q])
  BY DEF Typed, JobsTyped, Matched
<1>1. CASE loop'[q] = loop[q]
  BY <1>0, <1>1, LoopGoesOn DEF LoopMatched
<1>2. ASSUME NEW r \in Reconcilers, Manage(r) \/ Reconcile(r) PROVE LoopMatched(loop[q])'
  <2>1. CASE q = r
    BY <1>2, <2>1, ManageLoops, ReconcileLoops
  <2>2. CASE q # r
    <3>1. loop'[q] = loop[q]
      <4>1. \A l : Step(r, l) => loop'[q] = loop[q]
        BY <1>0, <2>2 DEF Step
      <4>2. (\E l : Step(r, l)) \/ UNCHANGED loop
        BY <1>2 DEF Manage, Reconcile, Load, ListOpenOrders, ListFails, ReadClock, KeepMissing,
                    ResolveMissing, AwaitCancel, TakeListedStatus, KeepResting, AskCancel,
                    CancelAnswers, CancelFails, MarkCanceling, DoneManaging, WriteRow, NextRow,
                    FetchTrades, ApplyTrade, SkipOrphan, AppendLedger, DoneReconciling
      <4> QED
        BY <4>1, <4>2
    <3> QED
      BY <1>1, <3>1
  <2> QED
    BY <2>1, <2>2
<1>3. CASE Crash \/ FinishRecovery
  <2>1. loop'[q] = IdleLoop \/ loop'[q] = loop[q]
    BY <1>0, <1>3 DEF Crash, FinishRecovery
  <2>2. IdleLoop.pc = "idle" /\ IdleLoop.todo = {} /\ IdleLoop.trades = None
    BY DEF IdleLoop
  <2> QED
    BY <1>1, <2>1, <2>2, LoopStartsOver
<1>4. Executing \/ Venue \/ Time \/ RefreshPortfolio \/ StartRecovery \/ UNCHANGED vars
      => loop' = loop
  BY DEF Executing, GateReject, Begin, Capture, Prepare, Post, RecordUnknown, CreateRow, Settle,
         Venue, Time, Execute, Expire, Publish, Grow, RefreshPortfolio, StartRecovery, vars, jobs
<1> QED
  BY <1>1, <1>2, <1>3, <1>4 DEF Next

LEMMA ExecMatchedStep ==
  ASSUME Typed, Typed', Matched, [Next]_vars
  PROVE  ExecMatched'
<1>0. /\ exec.pc \in {"prepared", "answered", "stored"} => exec.at \in Attempts
      /\ attempt \in [Attempts -> AttemptRecords \cup {NoAttempt}]
      /\ venue \in [Attempts -> [state : {"absent", "open", "filled", "canceled"},
                                 executed : 0 .. Size]]
  BY ExecTyped DEF Typed, JobsTyped, BooksTyped, WorldTyped
<1>1. CASE exec' = exec
  <2> SUFFICES ASSUME exec.pc \in {"prepared", "answered", "stored"} PROVE ExecMatched'
    BY <1>1 DEF ExecMatched
  <2> DEFINE a == exec.at
  <2>1. a \in Attempts /\ exec'.at = a /\ exec'.pc = exec.pc
    BY <1>0, <1>1
  <2>2. attempt'[a] = attempt[a]
    BY <1>1, <2>1, AttemptMoves DEF Idle
  <2>3. exec.pc \in {"prepared", "answered"} => row'[a].status = "none"
    <3>1. ~CreateRow
      BY <1>1, RowCreated
    <3> QED
      BY <2>1, <3>1, RowMoves DEF Matched, ExecMatched
  <2>4. exec.pc = "stored" => row'[a].status # "none"
    BY <2>1, AheadStep DEF Matched, ExecMatched, Ahead
  <2>5. venue[a].state = "absent" => venue'[a].state = "absent"
    BY <1>1, <2>1, VenueMoves DEF Open
  <2>6. venue[a].state = "filled" => venue'[a].state = "filled"
    BY <2>1, AheadStep DEF Ahead
  <2>7. ExecMatched
    BY DEF Matched
  <2> QED
    BY <1>1, <2>1, <2>2, <2>3, <2>4, <2>5, <2>6, <2>7 DEF ExecMatched
<1>2. CASE exec'.pc \in {"idle", "planned", "checked"}
  BY <1>2 DEF ExecMatched
<1>3. ASSUME Prepare, exec'.pc = "prepared" PROVE ExecMatched'
  <2> DEFINE n == exec'.at
  <2>1. /\ attempt' = [attempt EXCEPT ![n] = [signal |-> exec.signal, epoch |-> exec.epoch,
                          plan |-> exec.plan, intent |-> "prepared"]]
        /\ n = Cardinality(Used) + 1 /\ exec.pc = "checked" /\ UNCHANGED <<row, world>>
    BY <1>3 DEF Prepare, Idle
  <2>2. n \in Attempts /\ n \notin Used
    <3>1. /\ Cardinality(Used) \in 0 .. MaxAttempts /\ Used = 1 .. Cardinality(Used)
          /\ Cardinality(Used) < MaxAttempts /\ MaxAttempts \in Nat
      BY <2>1, UsedCounted, OrderAssumption DEF Typed, Numbered
    <3> QED
      BY <2>1, <3>1 DEF Attempts
  <2>3. attempt'[n].intent = "prepared"
    BY <1>0, <2>1, <2>2
  <2>4. row[n].status = "none" /\ venue[n].state = "absent"
    BY <2>2 DEF Matched, RowMatched, VenueMatched
  <2> QED
    BY <1>3, <2>1, <2>3, <2>4 DEF ExecMatched, world
<1>4. ASSUME NEW reply \in Replies, Post(reply) PROVE ExecMatched'
  <2>1. /\ exec.pc = "prepared" /\ exec' = [pc |-> "answered", at |-> exec.at, reply |-> reply]
        /\ UNCHANGED <<books, shown, lag>>
    BY <1>4 DEF Post
  <2>2. reply = "rejected" => venue' = venue
    BY <1>4 DEF Post
  <2>3. reply = "filled" => venue'[exec.at].state = "filled"
    BY <1>0, <1>4, <2>1 DEF Post
  <2>4. ExecMatched
    BY DEF Matched
  <2> QED
    BY <2>1, <2>2, <2>3, <2>4 DEF ExecMatched, books
<1>5. CASE CreateRow
  BY <1>5, RowCreated DEF Matched, ExecMatched
<1>6. exec' = exec \/ exec'.pc \in {"idle", "planned", "checked"} \/ Prepare
      \/ (\E reply \in Replies : Post(reply)) \/ CreateRow
  <2>1. CASE Executing
    BY <2>1 DEF Executing, GateReject, Begin, Capture, RecordUnknown, Settle, Idle, jobs
  <2>2. ASSUME NEW r \in Reconcilers, Manage(r) \/ Reconcile(r) PROVE exec' = exec
    BY <2>2, ManageRows DEF Reconcile, FetchTrades, ApplyTrade, SkipOrphan, AppendLedger,
                            DoneReconciling
  <2>3. Venue \/ Time \/ RefreshPortfolio \/ StartRecovery \/ FinishRecovery \/ UNCHANGED vars
        => exec' = exec
    BY DEF Venue, Time, Execute, Expire, Publish, Grow, RefreshPortfolio, StartRecovery,
           FinishRecovery, vars, jobs
  <2>4. Crash => exec'.pc = "idle"
    BY DEF Crash, Idle
  <2> QED
    BY <2>1, <2>2, <2>3, <2>4 DEF Next
<1>7. CASE Prepare /\ exec'.pc # "prepared"
  BY <1>2, <1>7 DEF Prepare, Idle
<1> QED
  BY <1>1, <1>2, <1>3, <1>4, <1>5, <1>6, <1>7

LEMMA MatchedStep ==
  ASSUME Typed, Matched, [Next]_vars
  PROVE  Matched'
<1>1. Typed'
  BY TypedStep
<1> QED
  BY <1>1, VenueMatchedStep, RowMatchedStep, LoopMatchedStep, ExecMatchedStep DEF Matched

-----------------------------------------------------------------------------
(* How a row comes to be canceled                                           *)

\* What one step does to a reconciliation.
LEMMA LoopKinds ==
  ASSUME Typed, Matched, [Next]_vars, NEW q \in Reconcilers
  PROVE  \/ loop'[q] = loop[q]
         \/ /\ loop'[q].todo = {}
            /\ loop'[q].pc \in {"idle", "fills", "applying", "append", "done"}
         \/ Load(q) \/ ListOpenOrders(q) \/ ReadClock(q)
         \/ /\ loop[q].pc \in {"managing", "cancel", "mark"}
            /\ loop'[q].pc \in {"managing", "cancel", "mark"}
            /\ loop'[q].todo \subseteq loop[q].todo
            /\ \A a \in loop'[q].todo : /\ loop'[q].rows[a] = loop[q].rows[a]
                                        /\ loop'[q].open[a] = loop[q].open[a]
                                        /\ loop'[q].ages[a] = loop[q].ages[a]
<1>0. /\ loop \in [Reconcilers -> LoopRecords] /\ loop[q] \in LoopRecords
      /\ LoopAt(loop[q]) /\ LoopMatched(loop[q])
      /\ LoopMatched(loop[q])'
  <2>1. Typed'
    BY TypedStep
  <2> QED
    BY <2>1, LoopMatchedStep DEF Typed, JobsTyped, Matched
<1>1. ASSUME NEW l, Step(q, l) PROVE loop'[q] = l
  BY <1>0, <1>1 DEF Step
<1>2. CASE loop'[q].pc \in {"idle", "fills", "applying", "append", "done"}
  BY <1>0, <1>2 DEF LoopMatched
<1>3. CASE ListFails(q) \/ DoneManaging(q) \/ Reconcile(q)
  <2>1. loop'[q] # loop[q] => loop'[q].pc \in {"idle", "fills", "applying", "append", "done"}
    <3>1. ListFails(q) => loop'[q].pc = "fills"
      BY <1>1 DEF ListFails, IdleLoop
    <3>2. DoneManaging(q) => loop'[q].pc = "fills"
      BY <1>1 DEF DoneManaging, IdleLoop
    <3>3. FetchTrades(q) => loop'[q].pc \in {"applying", "done"}
      BY <1>0, <1>1 DEF FetchTrades, LoopRecords
    <3>4. ASSUME NEW a \in Attempts, ApplyTrade(q, a)
          PROVE  loop'[q] = loop[q] \/ loop'[q].pc = "append"
      BY <1>0, <1>1, <3>4 DEF ApplyTrade, LoopRecords
    <3>5. ASSUME NEW a \in Attempts, SkipOrphan(q, a) PROVE loop'[q].pc = "applying"
      BY <1>0, <1>1, <3>5 DEF SkipOrphan, LoopRecords
    <3>6. AppendLedger(q) => loop'[q].pc = "applying"
      BY <1>0, <1>1 DEF AppendLedger, LoopRecords
    <3>7. ASSUME DoneReconciling(q) PROVE loop'[q].pc \in {"idle", "done"}
      <4>1. CASE loop'[q] = IdleLoop
        BY <4>1 DEF IdleLoop
      <4> DEFINE f == loop[q].failed
      <4> HIDE DEF f
      <4>2. CASE loop'[q] = [IdleLoop EXCEPT !.pc = "done", !.failed = f]
        BY <4>2 DEF IdleLoop
      <4> QED
        BY <1>1, <3>7, <4>1, <4>2 DEF DoneReconciling, f
    <3> QED
      BY <1>3, <3>1, <3>2, <3>3, <3>4, <3>5, <3>6, <3>7 DEF Reconcile
  <2> QED
    BY <1>2, <2>1
<1>4. CASE AskCancel(q)
  <2>1. loop[q].pc = "managing"
    BY <1>4 DEF AskCancel, Resting, Managing
  <2>2. PICK c : loop'[q] = [loop[q] EXCEPT !.pc = "cancel", !.call = c]
    BY <1>1, <1>4 DEF AskCancel
  <2>3. loop'[q].pc = "cancel" /\ loop'[q].todo = loop[q].todo /\ loop'[q].rows = loop[q].rows
        /\ loop'[q].open = loop[q].open /\ loop'[q].ages = loop[q].ages
    BY <1>0, <2>2 DEF LoopRecords
  <2> QED
    BY <2>1, <2>3
<1>5. CASE CancelAnswers(q)
  <2>1. loop[q].pc = "cancel" /\ loop'[q] = [loop[q] EXCEPT !.pc = "mark"]
    BY <1>1, <1>5 DEF CancelAnswers
  <2>2. loop'[q].pc = "mark" /\ loop'[q].todo = loop[q].todo /\ loop'[q].rows = loop[q].rows
        /\ loop'[q].open = loop[q].open /\ loop'[q].ages = loop[q].ages
    BY <1>0, <2>1 DEF LoopRecords
  <2> QED
    BY <2>1, <2>2
<1>6. ASSUME NextRow(q), loop[q].pc \in {"managing", "cancel", "mark"}
      PROVE  /\ loop'[q].pc = "managing" /\ loop'[q].todo \subseteq loop[q].todo
             /\ \A a \in loop'[q].todo : /\ loop'[q].rows[a] = loop[q].rows[a]
                                         /\ loop'[q].open[a] = loop[q].open[a]
                                         /\ loop'[q].ages[a] = loop[q].ages[a]
  <2> DEFINE a == Current(q)
             l == [loop[q] EXCEPT !.pc = "managing", !.todo = @ \ {a}, !.call = NoCall,
                     !.rows[a] = NoRow, !.open[a] = "missing", !.ages[a] = 0]
  <2>1. loop'[q] = l
    BY <1>1, <1>6 DEF NextRow
  <2>2. l.pc = "managing" /\ l.todo = loop[q].todo \ {a}
        /\ l.rows = [loop[q].rows EXCEPT ![a] = NoRow]
        /\ l.open = [loop[q].open EXCEPT ![a] = "missing"]
        /\ l.ages = [loop[q].ages EXCEPT ![a] = 0]
    BY <1>0 DEF LoopRecords
  <2> HIDE DEF l
  <2>3. \A b \in l.todo : /\ l.rows[b] = loop[q].rows[b] /\ l.open[b] = loop[q].open[b]
                          /\ l.ages[b] = loop[q].ages[b]
    BY <1>0, <2>2 DEF LoopRecords
  <2> QED
    BY <2>1, <2>2, <2>3
<1>7. KeepMissing(q) \/ ResolveMissing(q) \/ AwaitCancel(q) \/ TakeListedStatus(q)
      \/ KeepResting(q) \/ (\E text \in CancelErrors : CancelFails(q, text))
      \/ MarkCanceling(q)
      => NextRow(q) /\ loop[q].pc \in {"managing", "cancel", "mark"}
  BY DEF KeepMissing, ResolveMissing, AwaitCancel, TakeListedStatus, KeepResting, Resting,
         Managing, CancelFails, MarkCanceling, WriteRow
<1>8. ASSUME NEW r \in Reconcilers, r # q, Manage(r) \/ Reconcile(r) PROVE loop'[q] = loop[q]
  <2>1. \A l : Step(r, l) => loop'[q] = loop[q]
    BY <1>0, <1>8 DEF Step
  <2>2. (\E l : Step(r, l)) \/ UNCHANGED loop
    BY <1>8 DEF Manage, Reconcile, Load, ListOpenOrders, ListFails, ReadClock, KeepMissing,
                ResolveMissing, AwaitCancel, TakeListedStatus, KeepResting, AskCancel,
                CancelAnswers, CancelFails, MarkCanceling, DoneManaging, WriteRow, NextRow,
                FetchTrades, ApplyTrade, SkipOrphan, AppendLedger, DoneReconciling
  <2> QED
    BY <2>1, <2>2
<1>9. CASE Crash \/ FinishRecovery
  <2>1. loop'[q] = IdleLoop \/ loop'[q] = loop[q]
    BY <1>0, <1>9 DEF Crash, FinishRecovery
  <2> QED
    BY <1>2, <2>1 DEF IdleLoop
<1>10. Executing \/ Venue \/ Time \/ RefreshPortfolio \/ StartRecovery \/ UNCHANGED vars
       => loop' = loop
  BY DEF Executing, GateReject, Begin, Capture, Prepare, Post, RecordUnknown, CreateRow, Settle,
         Venue, Time, Execute, Expire, Publish, Grow, RefreshPortfolio, StartRecovery, vars, jobs
<1>11. ASSUME Manage(q)
       PROVE  \/ Load(q) \/ ListOpenOrders(q) \/ ReadClock(q)
              \/ ListFails(q) \/ DoneManaging(q) \/ AskCancel(q) \/ CancelAnswers(q)
              \/ NextRow(q) /\ loop[q].pc \in {"managing", "cancel", "mark"}
  BY <1>7, <1>11 DEF Manage
<1> QED
  BY <1>3, <1>4, <1>5, <1>6, <1>8, <1>9, <1>10, <1>11 DEF Next

\* A row is canceled by the reconciliation that has it in hand, because the
\* order was missing past its grace period or the venue lists it as canceled.
LEMMA CanceledHow ==
  ASSUME Typed, Matched, [Next]_vars, NEW a \in Attempts,
         row[a].status # "canceled", row'[a].status = "canceled"
  PROVE  /\ UNCHANGED <<booked, world>>
         /\ \E r \in Reconcilers :
              /\ a \in loop[r].todo /\ loop[r].pc = "managing"
              /\ \/ /\ loop[r].open[a] = "missing" /\ loop[r].ages[a] > 0
                    /\ loop[r].rows[a].filled < Size
                 \/ venue[a].state = "canceled"
<1>0. row \in [Attempts -> RowRecords] /\ row' \in [Attempts -> RowRecords] /\ Size \in Nat
  <2>1. Typed'
    BY TypedStep
  <2> QED
    BY <2>1, OrderAssumption DEF Typed, BooksTyped
<1>1. row[a].status # "none" /\ UNCHANGED <<booked, world>>
  <2>1. row'[a] # AfterFill(row[a], Size)
    BY <1>0, FillOutcome
  <2>2. ~(CreateRow /\ exec.at = a)
    BY RowCreated
  <2> QED
    BY <2>1, <2>2, RowMoves
<1>2. PICK r \in Reconcilers : Manage(r) /\ row' # row
  <2>1. Executing => \A b \in Attempts : row'[b].status # "canceled" \/ row'[b] = row[b]
    <3>1. CASE CreateRow
      <4>1. \A b \in Attempts \ {exec.at} : row'[b] = row[b]
        BY <1>0, <3>1 DEF CreateRow
      <4> QED
        BY <3>1, <4>1, RowCreated
    <3>2. CASE ~CreateRow
      BY <3>2 DEF Executing, GateReject, Begin, Capture, Prepare, Post, RecordUnknown, Settle,
                  books
    <3> QED
      BY <3>1, <3>2
  <2>2. ~Executing
    BY <2>1
  <2>3. ASSUME NEW r \in Reconcilers, NEW b \in Attempts, ApplyTrade(r, b) PROVE FALSE
    <3>1. row' = [row EXCEPT ![b] = AfterFill(@, Size)]
      BY <2>3 DEF ApplyTrade
    <3>2. a = b /\ row'[a] = AfterFill(row[a], Size)
      BY <1>0, <3>1
    <3> QED
      BY <1>0, <3>2, FillOutcome
  <2>4. ASSUME NEW r \in Reconcilers, Reconcile(r) PROVE FALSE
    BY <2>3, <2>4 DEF Reconcile, FetchTrades, SkipOrphan, AppendLedger, DoneReconciling, books
  <2>5. ~(Venue \/ Time \/ RefreshPortfolio \/ Crash \/ StartRecovery \/ FinishRecovery
          \/ UNCHANGED vars)
    BY DEF Venue, Time, Execute, Expire, Publish, Grow, RefreshPortfolio, Crash, StartRecovery,
           FinishRecovery, vars, books
  <2> QED
    BY <2>2, <2>4, <2>5 DEF Next
<1> DEFINE c == Current(r)
<1>3. loop[r].todo # {} /\ \E new \in RowRecords : row' = [row EXCEPT ![c] = new]
  BY <1>2, ManageRows
<1>4. c \in Attempts /\ c \in loop[r].todo
      /\ RowNow(r) \in RowRecords /\ RowThen(r) \in RowRecords
  BY <1>3, CurrentTyped
<1>5. a = c
  BY <1>0, <1>3
<1>6. ASSUME NEW text, row' = [row EXCEPT ![c] = [RowNow(r) EXCEPT !.error = text]] PROVE FALSE
  BY <1>0, <1>4, <1>5, <1>6 DEF RowNow, RowRecords
<1>7. ~KeepMissing(r) /\ ~AwaitCancel(r) /\ ~KeepResting(r)
      /\ ~ \E text \in CancelErrors : CancelFails(r, text)
  BY <1>6 DEF KeepMissing, AwaitCancel, KeepResting, CancelFails, WriteRow
<1>8. ~MarkCanceling(r)
  <2> SUFFICES ASSUME MarkCanceling(r) PROVE FALSE
    OBVIOUS
  <2>1. loop[r].call.at = c
    BY DEF MarkCanceling, Typed, JobsTyped, LoopAt, Current
  <2> DEFINE status == IF RowThen(r).status = "partially_filled"
                       THEN "partially_filled" ELSE "acknowledged"
             label == loop[r].call.label
  <2>2. row' = [row EXCEPT ![c] = [@ EXCEPT !.status = status, !.label = label,
                                            !.error = "other"]]
    BY <2>1 DEF MarkCanceling
  <2>3. status # "canceled"
    OBVIOUS
  <2> HIDE DEF status, label
  <2> QED
    BY <1>0, <1>4, <1>5, <2>2, <2>3 DEF RowRecords
<1>9. ~(Load(r) \/ ListOpenOrders(r) \/ ListFails(r) \/ ReadClock(r) \/ AskCancel(r)
        \/ DoneManaging(r) \/ CancelAnswers(r))
  BY <1>2 DEF Load, ListOpenOrders, ListFails, ReadClock, AskCancel, DoneManaging, CancelAnswers,
              books
<1>10. CASE ResolveMissing(r)
  <2>1. loop[r].pc = "managing" /\ loop[r].open[c] = "missing" /\ loop[r].ages[c] > 0
    BY <1>10 DEF ResolveMissing, Managing, ListedAs, AgeThen
  <2> DEFINE status == MissingStatus(RowThen(r), Size)
             final == RowNow(r).canceledAt \/ status = "canceled"
  <2>2. row' = [row EXCEPT ![c] = [RowNow(r) EXCEPT !.status = status, !.error = "other",
                                     !.label = "missing_from_open_orders",
                                     !.canceledAt = @ \/ status = "canceled"]]
    BY <1>10 DEF ResolveMissing, WriteRow
  <2>3. status = "canceled" => RowThen(r).filled < Size
    BY <1>0, <1>4 DEF MissingStatus, Remaining, AtLeastZero, RowRecords
  <2> HIDE DEF status
  <2>4. row'[a].status = status
    BY <1>0, <1>4, <1>5, <2>2 DEF RowRecords
  <2> QED
    BY <1>1, <1>4, <1>5, <2>1, <2>3, <2>4 DEF RowThen
<1>11. CASE TakeListedStatus(r)
  <2>1. loop[r].pc = "managing" /\ ListedAs(r) \in {"filled", "canceled"}
    BY <1>11 DEF TakeListedStatus, Managing
  <2> DEFINE status == ListedAs(r)
  <2>2. row' = [row EXCEPT ![c] = [RowNow(r) EXCEPT !.status = status, !.label = "venue",
                                     !.canceledAt = @ \/ status = "canceled"]]
    BY <1>11 DEF TakeListedStatus, WriteRow
  <2>3. venue[c].state = status
    BY <1>4, <2>1 DEF Matched, LoopMatched, ListedAs
  <2> HIDE DEF status
  <2>4. row'[a].status = status
    BY <1>0, <1>4, <1>5, <2>2 DEF RowRecords
  <2> QED
    BY <1>1, <1>4, <1>5, <2>1, <2>3, <2>4
<1> QED
  BY <1>2, <1>7, <1>8, <1>9, <1>10, <1>11 DEF Manage

-----------------------------------------------------------------------------
(* A canceled row's order has ended                                         *)

\* While a listing takes no longer than the grace period, an order that it
\* misses past that period has ended, and so has one whose row is canceled.
Ended ==
  /\ \A a \in Attempts : row[a].status = "canceled" => ~Open(a)
  /\ \A r \in Reconcilers : \A a \in loop[r].todo :
       loop[r].open[a] = "missing" =>
         /\ loop[r].pc = "listed" /\ age[a] > 0 => ~Open(a)
         /\ loop[r].pc \in {"managing", "cancel", "mark"} /\ loop[r].ages[a] > 0 => ~Open(a)

LEMMA EndedInit == Init => Ended
BY DEF Init, Ended, NoRow, IdleLoop

LEMMA EndedStep ==
  ASSUME ~SlowReplies, Typed, Matched, Ended, [Next]_vars
  PROVE  Ended'
<1>1. ASSUME NEW a \in Attempts, row'[a].status = "canceled" PROVE ~Open(a)'
  <2>1. CASE row[a].status = "canceled"
    BY <2>1, AheadStep DEF Ended, Ahead
  <2>2. CASE row[a].status # "canceled"
    <3>1. ~Open(a) /\ venue' = venue
      BY <1>1, <2>2, CanceledHow DEF Ended, Open, world
    <3> QED
      BY <3>1 DEF Open
  <2> QED
    BY <2>1, <2>2
<1>2. ASSUME NEW r \in Reconcilers, NEW a \in loop'[r].todo, loop'[r].open[a] = "missing"
      PROVE  /\ loop'[r].pc = "listed" /\ age'[a] > 0 => ~Open(a)'
             /\ loop'[r].pc \in {"managing", "cancel", "mark"} /\ loop'[r].ages[a] > 0 => ~Open(a)'
  <2>0. /\ loop \in [Reconcilers -> LoopRecords] /\ loop[r] \in LoopRecords
        /\ loop'[r] \in LoopRecords
    <3>1. Typed'
      BY TypedStep
    <3> QED
      BY <3>1 DEF Typed, JobsTyped
  <2>1. a \in Attempts
    BY <2>0 DEF LoopRecords
  <2>2. Ahead(a)
    BY <2>1, AheadStep
  <2>3. a \in loop[r].todo => row[a].status # "none"
    BY DEF Matched, LoopMatched
  <2>4. a \in loop[r].todo /\ ~Open(a) => ~Open(a)'
    BY <2>2, <2>3 DEF Ahead
  <2>5. CASE loop'[r] = loop[r]
    <3>1. loop[r].pc = "listed" => age'[a] = age[a]
      BY <2>1, AgeMoves
    <3> QED
      BY <1>2, <2>4, <2>5, <3>1 DEF Ended
  <2>6. CASE Load(r)
    <3>1. loop'[r].pc = "loaded"
      BY <2>0, <2>6 DEF Load, Step, IdleLoop
    <3> QED
      BY <3>1
  <2>7. CASE ListOpenOrders(r)
    <3>1. PICK o \in Listing(loop[r].todo) :
            loop' = [loop EXCEPT ![r] = [loop[r] EXCEPT !.pc = "listed", !.open = o]]
      BY <2>7 DEF ListOpenOrders, Step
    <3>2. loop'[r].pc = "listed" /\ loop'[r].open = o /\ loop'[r].todo = loop[r].todo
      BY <2>0, <3>1 DEF LoopRecords
    <3>3. a \in loop[r].todo /\ o[a] = "missing"
      BY <1>2, <3>2
    <3>4. a \notin ListedOpen
      <4>1. IF a \in loop[r].todo \cap ListedOpen
            THEN o[a] \in {"live", venue[a].state} \ {"open"} ELSE o[a] = "missing"
        BY <2>1, <3>1 DEF Listing
      <4>2. venue[a].state # "missing"
        BY <2>1 DEF Typed, WorldTyped
      <4> QED
        BY <3>3, <4>1, <4>2
    <3>5. a \in Used /\ UNCHANGED <<age, venue>>
      BY <2>1, <2>3, <2>7, <3>3 DEF Matched, RowMatched, ListOpenOrders, books, world
    <3>6. age[a] > 0 => Seen(a)
      BY <2>1 DEF Matched, RowMatched
    <3>7. age[a] > 0 => ~Open(a)
      BY <3>4, <3>5, <3>6 DEF ListedOpen, Seen
    <3> QED
      BY <3>2, <3>5, <3>7 DEF Open
  <2>8. CASE ReadClock(r)
    <3> DEFINE ages == [b \in Attempts |-> IF b \in loop[r].todo THEN age[b] ELSE 0]
    <3>1. /\ loop[r].pc = "listed" /\ UNCHANGED <<books, world>>
          /\ loop' = [loop EXCEPT ![r] = [loop[r] EXCEPT !.pc = "managing", !.ages = ages]]
      BY <2>8 DEF ReadClock, Step
    <3>2. ages[a] = IF a \in loop[r].todo THEN age[a] ELSE 0
      BY <2>1
    <3> HIDE DEF ages
    <3>3. loop'[r].pc = "managing" /\ loop'[r].ages = ages /\ loop'[r].todo = loop[r].todo
          /\ loop'[r].open = loop[r].open
      BY <2>0, <3>1 DEF LoopRecords
    <3> QED
      BY <1>2, <3>1, <3>2, <3>3 DEF Ended, Open, world
  <2>9. CASE /\ loop[r].pc \in {"managing", "cancel", "mark"}
             /\ loop'[r].pc \in {"managing", "cancel", "mark"}
             /\ loop'[r].todo \subseteq loop[r].todo
             /\ \A b \in loop'[r].todo : /\ loop'[r].rows[b] = loop[r].rows[b]
                                         /\ loop'[r].open[b] = loop[r].open[b]
                                         /\ loop'[r].ages[b] = loop[r].ages[b]
    BY <1>2, <2>4, <2>9 DEF Ended
  <2> QED
    BY <2>5, <2>6, <2>7, <2>8, <2>9, LoopKinds
<1> QED
  BY <1>1, <1>2 DEF Ended

\* However reconciliations, lagging lists, crashes and recoveries interleave, no
\* row is written canceled while the venue still has its order open, as long as
\* a listing takes no longer than the grace period.
THEOREM CanceledMeansEnded ==
  ASSUME ~SlowReplies
  PROVE  Spec => CanceledOnlyAfterEnd
<1> DEFINE I == Typed /\ Matched /\ Ended
           A == \A a \in Attempts : row[a].status # "canceled" /\ row'[a].status = "canceled"
                                      => ~Open(a)
<1>1. Init => I
  BY TypedInit, MatchedInit, EndedInit
<1>2. I /\ [Next]_vars => I'
  BY TypedStep, MatchedStep, EndedStep
<1>3. I /\ [Next]_vars => [A]_vars
  <2> SUFFICES ASSUME I, [Next]_vars PROVE A
    OBVIOUS
  <2> SUFFICES ASSUME NEW a \in Attempts,
                      row[a].status # "canceled", row'[a].status = "canceled"
               PROVE  ~Open(a)
    OBVIOUS
  <2>1. \E r \in Reconcilers :
          /\ a \in loop[r].todo /\ loop[r].pc = "managing"
          /\ \/ loop[r].open[a] = "missing" /\ loop[r].ages[a] > 0
             \/ venue[a].state = "canceled"
    BY CanceledHow
  <2> QED
    BY <2>1 DEF Ended, Open
<1> QED
  BY <1>1, <1>2, <1>3, PTL DEF Spec, CanceledOnlyAfterEnd

-----------------------------------------------------------------------------
(* A full fill                                                              *)

OneReconciler == \A p, q \in Reconcilers : p = q

\* With one reconciliation at a time, what it loaded of a row's fills is so.
InStep ==
  \A r \in Reconcilers : \A a \in loop[r].todo : loop[r].rows[a].filled = row[a].filled

LEMMA InStepInit == Init => InStep
BY DEF Init, InStep, IdleLoop

LEMMA InStepStep ==
  ASSUME OneReconciler, Typed, Matched, InStep, [Next]_vars
  PROVE  InStep'
<1> SUFFICES ASSUME NEW r \in Reconcilers, NEW a \in loop'[r].todo
             PROVE  loop'[r].rows[a].filled = row'[a].filled
  BY DEF InStep
<1>0. /\ loop \in [Reconcilers -> LoopRecords] /\ loop[r] \in LoopRecords
      /\ loop'[r] \in LoopRecords /\ row \in [Attempts -> RowRecords]
  <2>1. Typed'
    BY TypedStep
  <2> QED
    BY <2>1 DEF Typed, JobsTyped, BooksTyped
<1>1. a \in Attempts
  BY <1>0 DEF LoopRecords
<1>2. ASSUME a \in loop[r].todo PROVE row'[a].filled = row[a].filled
  <2>1. row[a].status # "none"
    BY <1>2 DEF Matched, LoopMatched
  <2>2. ~ \E q \in Reconcilers : loop[q].pc = "applying" /\ booked[a] < loop[q].trades[a]
    BY <1>2 DEF OneReconciler, Matched, LoopMatched
  <2>3. ~(exec.pc = "answered" /\ exec.at = a)
    BY <2>1 DEF Matched, ExecMatched
  <2> QED
    BY <1>1, <2>2, <2>3, RowMoves DEF Fits
<1>3. CASE loop'[r] = loop[r]
  BY <1>2, <1>3 DEF InStep
<1>4. CASE Load(r)
  <2> DEFINE mine == [b \in Attempts |-> IF b \in Working
                        THEN [NoRow EXCEPT !.status = row[b].status,
                                !.label = row[b].label, !.filled = row[b].filled]
                        ELSE NoRow]
  <2>1. loop' = [loop EXCEPT ![r] = [IdleLoop EXCEPT !.pc = "loaded", !.todo = Working,
                                                     !.rows = mine]]
        /\ row' = row
    BY <1>4 DEF Load, Step, books
  <2>2. a \in Working => mine[a].filled = row[a].filled
    BY <1>1 DEF NoRow
  <2> HIDE DEF mine
  <2>3. loop'[r].todo = Working /\ loop'[r].rows = mine
    BY <1>0, <2>1 DEF IdleLoop
  <2> QED
    BY <2>1, <2>2, <2>3
<1>5. CASE ListOpenOrders(r)
  <2>1. PICK o : loop' = [loop EXCEPT ![r] = [loop[r] EXCEPT !.pc = "listed", !.open = o]]
    BY <1>5 DEF ListOpenOrders, Step
  <2>2. loop'[r].todo = loop[r].todo /\ loop'[r].rows = loop[r].rows
    BY <1>0, <2>1 DEF LoopRecords
  <2> QED
    BY <1>2, <2>2 DEF InStep
<1>6. CASE ReadClock(r)
  <2>1. PICK o : loop' = [loop EXCEPT ![r] = [loop[r] EXCEPT !.pc = "managing", !.ages = o]]
    BY <1>6 DEF ReadClock, Step
  <2>2. loop'[r].todo = loop[r].todo /\ loop'[r].rows = loop[r].rows
    BY <1>0, <2>1 DEF LoopRecords
  <2> QED
    BY <1>2, <2>2 DEF InStep
<1>7. CASE /\ loop'[r].todo \subseteq loop[r].todo
           /\ \A b \in loop'[r].todo : loop'[r].rows[b] = loop[r].rows[b]
  BY <1>2, <1>7 DEF InStep
<1> QED
  BY <1>3, <1>4, <1>5, <1>6, <1>7, LoopKinds

\* With one reconciliation at a time, a row whose fills add up to the whole
\* order is never left canceled, however its trades and its listing are delayed.
THEOREM FullFillKept ==
  ASSUME OneReconciler
  PROVE  Spec => []FullFillNotCanceled
<1> DEFINE I == Typed /\ Matched /\ InStep /\ FullFillNotCanceled
<1>1. Init => I
  <2>1. Init => FullFillNotCanceled
    BY DEF Init, FullFillNotCanceled, NoRow
  <2> QED
    BY <2>1, TypedInit, MatchedInit, InStepInit
<1>2. I /\ [Next]_vars => I'
  <2> SUFFICES ASSUME I, [Next]_vars PROVE FullFillNotCanceled'
    BY TypedStep, MatchedStep, InStepStep
  <2> SUFFICES ASSUME NEW a \in Attempts, booked'[a] = Size, row'[a].status = "canceled"
               PROVE  FALSE
    BY DEF FullFillNotCanceled
  <2>0. /\ booked[a] \in 0 .. Size /\ venue[a].executed \in 0 .. Size
        /\ row[a] \in RowRecords /\ row[a].filled \in 0 .. Size /\ Size \in Nat
    BY OrderAssumption DEF Typed, BooksTyped, WorldTyped, RowRecords
  <2>1. CASE row[a].status = "canceled"
    <3>1. booked[a] # Size
      BY <2>1 DEF FullFillNotCanceled
    <3>2. row'[a] = AfterFill(row[a], Size)
      <4>1. ~(booked'[a] = booked[a])
        BY <3>1
      <4>2. CreateRow => booked' = booked
        BY DEF CreateRow
      <4> QED
        BY <4>1, <4>2, RowMoves
    <3> QED
      BY <2>0, <3>2, FillOutcome
  <2>2. CASE row[a].status # "canceled"
    <3>1. booked' = booked
          /\ \E r \in Reconcilers :
               a \in loop[r].todo /\ (loop[r].rows[a].filled < Size \/ venue[a].state = "canceled")
      BY <2>2, CanceledHow
    <3>2. CASE venue[a].state = "canceled"
      <4>1. venue[a].executed < Size /\ booked[a] <= venue[a].executed
        BY <3>2 DEF Typed, Lotted, Matched, VenueMatched
      <4> QED
        BY <2>0, <3>1, <4>1
    <3>3. CASE row[a].filled < Size
      BY <2>0, <3>1, <3>3 DEF Matched, RowMatched
    <3> QED
      BY <3>1, <3>2, <3>3 DEF InStep
  <2> QED
    BY <2>1, <2>2
<1> QED
  BY <1>1, <1>2, PTL DEF Spec

-----------------------------------------------------------------------------
(* A restart                                                                *)

\* A submit under way has its intent recorded, nothing runs while the process
\* is down, and only one reconciliation while it recovers.
BootMatched ==
  /\ exec.pc # "idle" => boot.pc = "up"
  /\ boot.pc = "up" => \A a \in Attempts : attempt[a].intent = "prepared"
                         => exec.pc \in {"prepared", "answered", "stored"} /\ exec.at = a
  /\ boot.pc = "recovering" => boot.unresolved = BlockingIntents
  /\ boot.pc = "down" => \A r \in Reconcilers : loop[r] = IdleLoop
  /\ boot.pc = "recovering" => \A r \in Reconcilers \ {Recoverer} : loop[r] = IdleLoop

LEMMA BootMatchedInit == Init => BootMatched
BY DEF Init, BootMatched, Idle, Up, NoAttempt

\* Without the process up, only recovery's own reconciliation moves.
LEMMA OnlyRecoverer ==
  ASSUME BootMatched, boot.pc \in {"down", "recovering"},
         NEW r \in Reconcilers, Manage(r) \/ Reconcile(r)
  PROVE  r = Recoverer /\ boot.pc # "down"
<1>1. IdleLoop.pc = "idle"
  BY DEF IdleLoop
<1>2. loop[r].pc = "idle" => Load(r)
  <2>1. Managing(r) => loop[r].pc = "managing"
    BY DEF Managing
  <2> QED
    BY <2>1 DEF Manage, Reconcile, ListOpenOrders, ListFails, ReadClock, KeepMissing,
       ResolveMissing, AwaitCancel, TakeListedStatus, KeepResting, AskCancel, CancelAnswers,
       CancelFails, MarkCanceling, DoneManaging, Resting, FetchTrades, ApplyTrade, SkipOrphan,
       AppendLedger, DoneReconciling
<1>3. Load(r) => r = Recoverer /\ boot.pc = "recovering"
  BY DEF Load
<1>4. CASE loop[r].pc = "idle"
  BY <1>2, <1>3, <1>4
<1>5. CASE loop[r].pc # "idle"
  <2>1. loop[r] # IdleLoop
    BY <1>1, <1>5
  <2> QED
    BY <2>1 DEF BootMatched
<1> QED
  BY <1>4, <1>5

\* What a job's step leaves alone.
LEMMA JobsApart ==
  /\ Executing => UNCHANGED <<loop, boot, crashes>>
  /\ \A r \in Reconcilers : Typed /\ Matched /\ (Manage(r) \/ Reconcile(r))
        => UNCHANGED <<attempt, exec, boot, crashes>>
  /\ Venue \/ Time \/ RefreshPortfolio => UNCHANGED <<attempt, jobs>>
<1>1. Executing => UNCHANGED <<loop, boot, crashes>>
  BY DEF Executing, GateReject, Begin, Capture, Prepare, Post, RecordUnknown, CreateRow, Settle,
         jobs
<1>2. ASSUME NEW r \in Reconcilers, Typed, Matched, Manage(r) \/ Reconcile(r)
      PROVE  UNCHANGED <<attempt, exec, boot, crashes>>
  BY <1>2, ManageRows DEF Reconcile, FetchTrades, ApplyTrade, SkipOrphan, AppendLedger,
                          DoneReconciling, books
<1>3. Venue \/ Time \/ RefreshPortfolio => UNCHANGED <<attempt, jobs>>
  BY DEF Venue, Time, Execute, Expire, Publish, Grow, RefreshPortfolio, books
<1> QED
  BY <1>1, <1>2, <1>3

LEMMA BootMatchedStep ==
  ASSUME Typed, Matched, BootMatched, [Next]_vars
  PROVE  BootMatched'
<1>0. /\ loop \in [Reconcilers -> LoopRecords] /\ boot \in BootRecords
      /\ boot.pc \in {"up", "down", "recovering"}
  BY DEF Typed, JobsTyped, BootRecords
<1>1. ASSUME UNCHANGED <<attempt, exec, boot>>,
             boot.pc = "down" => UNCHANGED loop,
             boot.pc = "recovering" =>
               \A r \in Reconcilers \ {Recoverer} : loop'[r] = loop[r]
      PROVE  BootMatched'
  BY <1>1 DEF BootMatched, BlockingIntents
<1>2. CASE Executing
  <2>1. boot.pc = "up" /\ UNCHANGED <<loop, boot>>
    <3>1. boot.pc = "up" \/ exec.pc # "idle"
      BY <1>2 DEF Executing, GateReject, Begin, Capture, Prepare, Post, RecordUnknown, CreateRow,
                  Settle
    <3> QED
      BY <1>2, <3>1, JobsApart DEF BootMatched
  <2>2. ASSUME NEW a \in Attempts, attempt'[a].intent = "prepared"
        PROVE  exec'.pc \in {"prepared", "answered", "stored"} /\ exec'.at = a
    <3>1. CASE attempt'[a] = attempt[a]
      <4>1. exec.pc \in {"prepared", "answered", "stored"} /\ exec.at = a
        BY <2>1, <2>2, <3>1 DEF BootMatched
      <4>2. a \in Attempts /\ attempt \in [Attempts -> AttemptRecords \cup {NoAttempt}]
            /\ attempt[a] \in AttemptRecords
        BY <2>2, <3>1 DEF Typed, BooksTyped, NoAttempt
      <4>3. ~RecordUnknown /\ ~Settle
        <5>1. ASSUME NEW i, i # "prepared", attempt' = [attempt EXCEPT ![exec.at].intent = i]
              PROVE  FALSE
          BY <2>2, <4>1, <4>2, <5>1 DEF AttemptRecords
        <5> QED
          BY <5>1 DEF RecordUnknown, Settle
      <4>4. CASE CreateRow
        BY <4>1, <4>4, RowCreated
      <4>5. CASE \E reply \in Replies : Post(reply)
        BY <4>1, <4>5 DEF Post
      <4> QED
        BY <1>2, <4>1, <4>3, <4>4, <4>5 DEF Executing, GateReject, Begin, Capture, Prepare
    <3>2. CASE attempt'[a] # attempt[a]
      BY <2>2, <3>2, AttemptMoves
    <3> QED
      BY <3>1, <3>2
  <2> QED
    BY <2>1, <2>2 DEF BootMatched
<1>3. ASSUME NEW r \in Reconcilers, Manage(r) \/ Reconcile(r) PROVE BootMatched'
  <2>1. UNCHANGED <<attempt, exec, boot>>
    BY <1>3, JobsApart
  <2>2. boot.pc # "up" => r = Recoverer /\ boot.pc # "down"
    BY <1>0, <1>3, OnlyRecoverer
  <2>3. \A q \in Reconcilers \ {r} : loop'[q] = loop[q]
    <3>1. \A q \in Reconcilers \ {r} : \A l : Step(r, l) => loop'[q] = loop[q]
      BY <1>0 DEF Step
    <3>2. (\E l : Step(r, l)) \/ UNCHANGED loop
      BY <1>3 DEF Manage, Reconcile, Load, ListOpenOrders, ListFails, ReadClock, KeepMissing,
                  ResolveMissing, AwaitCancel, TakeListedStatus, KeepResting, AskCancel,
                  CancelAnswers, CancelFails, MarkCanceling, DoneManaging, WriteRow, NextRow,
                  FetchTrades, ApplyTrade, SkipOrphan, AppendLedger, DoneReconciling
    <3> QED
      BY <3>1, <3>2
  <2> QED
    BY <1>0, <1>1, <2>1, <2>2, <2>3
<1>4. CASE Venue \/ Time \/ RefreshPortfolio \/ UNCHANGED vars
  <2>1. UNCHANGED <<attempt, jobs>>
    BY <1>4, JobsApart DEF vars, books
  <2> QED
    BY <1>1, <2>1 DEF jobs
<1>5. CASE Crash
  <2>1. boot'.pc = "down" /\ exec'.pc = "idle" /\ loop' = [r \in Reconcilers |-> IdleLoop]
    BY <1>5 DEF Crash, Up, Idle
  <2> QED
    BY <2>1 DEF BootMatched
<1>6. CASE StartRecovery
  <2>1. /\ boot.pc = "down" /\ boot'.pc = "recovering" /\ boot'.unresolved = BlockingIntents
        /\ UNCHANGED <<exec, loop, attempt>>
    BY <1>6 DEF StartRecovery, books
  <2> QED
    BY <2>1 DEF BootMatched, BlockingIntents
<1>7. CASE FinishRecovery
  <2>1. /\ boot.pc = "recovering" /\ UNCHANGED <<exec, attempt>>
        /\ boot' = IF Recovered THEN Up ELSE [Up EXCEPT !.pc = "down"]
        /\ loop' = [loop EXCEPT ![Recoverer] = IdleLoop]
    BY <1>7 DEF FinishRecovery
  <2>2. CASE Recovered
    <3>1. boot'.pc = "up" /\ BlockingIntents = {}
      BY <2>1, <2>2 DEF Recovered, BootMatched, Up
    <3> QED
      BY <2>1, <3>1 DEF BootMatched, BlockingIntents
  <2>3. CASE ~Recovered
    <3>1. boot'.pc = "down" /\ exec'.pc = "idle"
      BY <2>1, <2>3 DEF BootMatched, Up
    <3>2. \A r \in Reconcilers : loop'[r] = IdleLoop
      BY <1>0, <2>1 DEF BootMatched
    <3> QED
      BY <3>1, <3>2 DEF BootMatched
  <2> QED
    BY <2>2, <2>3
<1> QED
  BY <1>2, <1>3, <1>4, <1>5, <1>6, <1>7 DEF Next

\* While no error text passes for a failure, a row that failed has no order.
NothingFailed ==
  \A a \in Attempts : row[a].error = "failed" \/ row[a].status = "rejected"
                        => venue[a].state = "absent"

LEMMA NothingFailedStep ==
  ASSUME "failed" \notin CancelErrors, Typed, Matched, NothingFailed, [Next]_vars
  PROVE  NothingFailed'
<1> SUFFICES ASSUME NEW a \in Attempts,
                    row'[a].error = "failed" \/ row'[a].status = "rejected"
             PROVE  venue'[a].state = "absent"
  BY DEF NothingFailed
<1>0. row[a] \in RowRecords /\ row'[a] \in RowRecords
  <2>1. Typed'
    BY TypedStep
  <2> QED
    BY <2>1 DEF Typed, BooksTyped
<1>1. ASSUME row[a].error = "failed" \/ row[a].status = "rejected"
      PROVE  venue'[a].state = "absent"
  <2>1. venue[a].state = "absent" /\ row[a].status # "none"
    BY <1>1 DEF NothingFailed, Matched, RowMatched, NoRow
  <2> QED
    BY <2>1, VenueMoves DEF Open, Matched, ExecMatched
<1>2. CASE CreateRow /\ exec.at = a
  <2>1. exec.reply = "rejected" /\ venue' = venue /\ exec.pc = "answered"
    BY <1>2, RowCreated DEF world
  <2> QED
    BY <1>2, <2>1 DEF Matched, ExecMatched
<1>3. CASE row'[a] = row[a]
  BY <1>1, <1>3
<1>4. CASE Fits(a, row'[a])
  BY <1>1, <1>4 DEF Fits
<1>5. CASE row'[a] = AfterFill(row[a], Size)
  <2>1. row[a].error = "failed"
    BY <1>0, <1>5, FillOutcome
  <2> QED
    BY <1>1, <2>1
<1> QED
  BY <1>2, <1>3, <1>4, <1>5, RowMoves

\* What a row may no longer hide once it has left the working states, or once
\* its filled size was taken from an answer.
Past(a) ==
  row[a].status \notin WorkingStatuses \cup {"none"} \/ row[a].filled # booked[a]

\* Recovery's reconciliation has, and then has booked, all the trades of the
\* rows it will no longer look at.
Recounted ==
  LET l == loop[Recoverer]
  IN boot.pc = "recovering" /\ lag # "trades" /\ ~l.failed =>
       \A a \in Attempts :
         /\ l.pc \in {"applying", "append"} /\ Past(a) => l.trades[a] = venue[a].executed
         /\ l.pc = "done" /\ row[a].status \notin WorkingStatuses \cup {"none"}
              => booked[a] = venue[a].executed

Restarts ==
  Typed /\ Matched /\ Ended /\ BootMatched /\ NothingFailed /\ Recounted

\* The order behind such a row has ended.
LEMMA PastMeansEnded ==
  ASSUME Restarts, NEW a \in Attempts, Past(a)
  PROVE  ~Open(a)
<1>1. row[a].status \in RowStatuses
  BY DEF Restarts, Typed, BooksTyped, RowRecords
<1>2. CASE row[a].filled # booked[a]
  <2>1. venue[a].executed = Size
    BY <1>2 DEF Restarts, Matched, RowMatched
  <2>2. venue[a].state = "open" => venue[a].executed < Size
    BY DEF Restarts, Typed, Lotted
  <2> QED
    BY <2>1, <2>2, OrderAssumption DEF Open
<1>3. CASE row[a].status = "rejected"
  BY <1>3 DEF Restarts, NothingFailed, Open
<1>4. CASE row[a].status \in {"filled", "canceled"}
  BY <1>4 DEF Restarts, Matched, RowMatched, Ended
<1> QED
  BY <1>1, <1>2, <1>3, <1>4 DEF Past, RowStatuses

LEMMA RecountedStep ==
  ASSUME Restarts, [Next]_vars
  PROVE  Recounted'
<1> DEFINE R == Recoverer
<1>0. /\ R \in Reconcilers /\ loop \in [Reconcilers -> LoopRecords] /\ loop[R] \in LoopRecords
      /\ loop'[R] \in LoopRecords /\ Typed' /\ Matched' /\ Size \in Nat
      /\ Typed /\ Matched /\ BootMatched /\ BootMatched' /\ Recounted
  BY TypedStep, MatchedStep, BootMatchedStep, OrderAssumption
     DEF Restarts, Typed, JobsTyped, Recoverer
<1> SUFFICES ASSUME boot'.pc = "recovering", lag' # "trades", ~loop'[R].failed,
                    NEW a \in Attempts
             PROVE  /\ loop'[R].pc \in {"applying", "append"} /\ Past(a)'
                         => loop'[R].trades[a] = venue'[a].executed
                    /\ loop'[R].pc = "done" /\ row'[a].status \notin WorkingStatuses \cup {"none"}
                         => booked'[a] = venue'[a].executed
  BY DEF Recounted
<1>1. lag' = lag /\ VenueMatched(a) /\ RowMatched(a)
      /\ venue[a].executed \in 0 .. Size /\ booked[a] \in 0 .. Size
      /\ row[a] \in RowRecords /\ row[a].filled \in 0 .. Size
      /\ loop[R].trades[a] \in 0 .. Size /\ loop[R].trades[a] <= venue[a].executed
  BY <1>0, VenueMoves DEF Matched, LoopMatched, Typed, WorldTyped, BooksTyped, RowRecords,
                          LoopRecords
<1>2. CASE StartRecovery
  <2>1. boot.pc = "down" /\ loop' = loop
    BY <1>2 DEF StartRecovery
  <2>2. loop'[R] = IdleLoop
    BY <1>0, <2>1 DEF BootMatched
  <2> QED
    BY <2>2 DEF IdleLoop
<1>3. CASE ~StartRecovery
  <2>1. boot.pc = "recovering" /\ exec.pc = "idle"
    <3>1. ~Crash /\ ~FinishRecovery
      BY DEF Crash, FinishRecovery, Up
    <3>2. boot' = boot
      BY <1>0, <1>3, <3>1, JobsApart DEF Next, vars, jobs
    <3> QED
      BY <1>0, <3>2 DEF BootMatched
  <2>2. Past(a) => venue'[a].executed = venue[a].executed
    BY <2>1, PastMeansEnded, <1>0, VenueMoves
  <2>3. ASSUME loop[R].pc \in {"applying", "append"}, ~loop[R].failed, Past(a)'
        PROVE  loop[R].trades[a] = venue'[a].executed
    <3>1. loop[R].pc \in {"applying", "append"} /\ Past(a) => loop[R].trades[a] = venue[a].executed
      BY <1>0, <1>1, <2>1, <2>3 DEF Recounted
    <3>2. CASE row'[a] = row[a] /\ booked'[a] = booked[a]
      BY <2>2, <2>3, <3>1, <3>2 DEF Past
    <3>3. CASE /\ row'[a] = AfterFill(row[a], Size) /\ booked'[a] = booked[a] + 1
               /\ \E r \in Reconcilers : loop[r].pc = "applying" /\ booked[a] < loop[r].trades[a]
               /\ UNCHANGED <<attempt, age, world, exec>> /\ row[a].status # "none"
      <4>1. booked[a] < loop[R].trades[a]
        BY <1>0, <2>1, <3>3 DEF BootMatched, IdleLoop
      <4>2. venue'[a].executed = venue[a].executed
        BY <3>3 DEF world
      <4>3. CASE row[a].filled # booked[a]
        BY <2>3, <3>1, <4>2, <4>3 DEF Past
      <4>4. CASE row[a].filled = booked[a]
        <5>1. row'[a].filled = booked'[a]
          <6>1. row'[a].filled = AtMost(Size, row[a].filled + 1)
            BY <1>1, <3>3, FillOutcome
          <6> QED
            BY <1>0, <1>1, <3>3, <4>1, <4>4, <6>1 DEF AtMost
        <5>2. row'[a].status \notin WorkingStatuses \cup {"none"}
          BY <2>3, <5>1 DEF Past
        <5>3. row'[a].status \in {"rejected", "filled"}
          <6>1. row'[a].status \in {"acknowledged", "rejected", "filled", "partially_filled"}
            BY <1>1, <3>3, FillOutcome
          <6> QED
            BY <5>2, <6>1 DEF WorkingStatuses
        <5>4. row'[a].status # "rejected"
          <6>1. row'[a].status = "rejected" => row[a].error = "failed"
            BY <1>1, <3>3, FillOutcome
          <6>2. row[a].error = "failed" => venue[a].executed = 0
            BY <1>0 DEF Restarts, NothingFailed, Typed, Lotted
          <6> QED
            BY <1>0, <1>1, <4>1, <6>1, <6>2
        <5>5. row'[a].filled >= Size
          <6>1. row'[a].status = "filled" => AtMost(Size, row[a].filled + 1) >= Size
                /\ row'[a].filled = AtMost(Size, row[a].filled + 1)
            BY <1>1, <3>3, FillOutcome
          <6> QED
            BY <5>3, <5>4, <6>1
        <5> QED
          BY <1>0, <1>1, <3>3, <4>1, <4>2, <5>1, <5>5
      <4> QED
        BY <4>3, <4>4
    <3>4. CASE row[a].status # "none" /\ Fits(a, row'[a]) /\ UNCHANGED <<booked, world>>
      <4>1. CASE row' = row
        BY <3>2, <3>4, <4>1
      <4>2. CASE row' # row
        <5>1. PICK r \in Reconcilers : Managed(r) \/ \E b \in Attempts : ApplyTrade(r, b)
          <6>1. ~Quiet /\ ~Prepare /\ ~(\E reply \in Replies : Post(reply)) /\ ~RecordUnknown
                /\ ~CreateRow /\ ~Settle
            BY <2>1, <4>2 DEF Quiet, Prepare, Post, RecordUnknown, CreateRow, Settle
          <6>2. ~ \E b \in Attempts : Execute(b) \/ Expire(b) \/ Publish(b) \/ Grow(b)
            BY <4>2 DEF Execute, Expire, Publish, Grow, books
          <6>3. ~ \E r \in Reconcilers : CancelAnswers(r)
            BY <4>2 DEF CancelAnswers, books
          <6> QED
            BY <1>0, <6>1, <6>2, <6>3, StepKinds
        <5>2. CASE Managed(r)
          <6>1. loop[r].todo # {}
            BY <5>2 DEF Managed
          <6>2. r # R
            BY <1>0, <2>3, <6>1 DEF Matched, LoopMatched
          <6>3. loop[r] = IdleLoop
            BY <1>0, <2>1, <6>2 DEF BootMatched
          <6> QED
            BY <6>1, <6>3 DEF IdleLoop
        <5>3. CASE \E b \in Attempts : ApplyTrade(r, b)
          <6>1. PICK b \in Attempts : ApplyTrade(r, b)
            BY <5>3
          <6>2. booked' = [booked EXCEPT ![b] = booked[b] + 1] /\ booked' = booked
            BY <3>4, <6>1 DEF ApplyTrade
          <6>3. booked \in [Attempts -> 0 .. Size]
            BY <1>0 DEF Typed, BooksTyped
          <6>4. booked'[b] = booked[b] + 1 /\ booked'[b] = booked[b] /\ booked[b] \in Int
            BY <6>2, <6>3
          <6> QED
            BY <6>4
        <5> QED
          BY <5>1, <5>2, <5>3
      <4> QED
        BY <4>1, <4>2
    <3>5. ~(exec.pc = "answered" /\ exec.at = a)
      BY <2>1
    <3> QED
      BY <1>0, <3>2, <3>3, <3>4, <3>5, RowMoves
  <2>4. CASE loop'[R] = loop[R]
    <3>1. loop[R].pc = "done" => row'[a] = row[a] /\ booked'[a] = booked[a]
      <4> SUFFICES ASSUME loop[R].pc = "done" PROVE row'[a] = row[a] /\ booked'[a] = booked[a]
        OBVIOUS
      <4>1. \A r \in Reconcilers : loop[r].pc # "applying" /\ loop[r].todo = {}
        BY <1>0, <2>1 DEF BootMatched, IdleLoop, Matched, LoopMatched
      <4>2. ~ \E r \in Reconcilers : Managed(r) \/ \E b \in Attempts : ApplyTrade(r, b)
        BY <4>1 DEF Managed, ApplyTrade
      <4>3. ~CreateRow
        BY <2>1 DEF CreateRow
      <4>4. UNCHANGED <<row, booked>>
        BY <1>0, <4>2, <4>3, StepKinds DEF Quiet, Prepare, RecordUnknown, Post, Settle, Grow,
           Execute, Expire, Publish, CancelAnswers, books
      <4> QED
        BY <4>4
    <3>2. ASSUME loop[R].pc = "done", row'[a].status \notin WorkingStatuses \cup {"none"}
          PROVE  booked'[a] = venue'[a].executed
      <4>1. Past(a) /\ row'[a] = row[a] /\ booked'[a] = booked[a]
        BY <3>1, <3>2 DEF Past
      <4>2. booked[a] = venue[a].executed
        BY <1>0, <1>1, <2>1, <2>4, <3>2, <4>1 DEF Recounted
      <4> QED
        BY <2>2, <4>1, <4>2
    <3> QED
      BY <2>3, <2>4, <3>2
  <2>5. CASE Reconcile(R) /\ loop'[R] # loop[R]
    <3>1. \A l : Step(R, l) => loop'[R] = l
      BY <1>0 DEF Step
    <3>2. CASE FetchTrades(R)
      <4>1. \/ loop'[R] = [loop[R] EXCEPT !.pc = "applying", !.trades = Reported]
            \/ loop'[R] = [loop[R] EXCEPT !.pc = "done", !.failed = TRUE]
        BY <3>1, <3>2 DEF FetchTrades
      <4>2. loop'[R].pc = "applying" /\ loop'[R].trades = Reported
        BY <1>0, <4>1 DEF LoopRecords
      <4>3. Reported[a] = venue[a].executed /\ venue' = venue
        BY <1>1, <3>2 DEF Reported, FetchTrades, world
      <4> QED
        BY <4>2, <4>3
    <3>3. CASE \E b \in Attempts : ApplyTrade(R, b)
      <4>1. PICK c : loop'[R] = [loop[R] EXCEPT !.pc = "append", !.call = c]
        BY <2>5, <3>1, <3>3 DEF ApplyTrade
      <4>2. loop'[R].pc = "append" /\ loop'[R].trades = loop[R].trades
            /\ loop'[R].failed = loop[R].failed /\ loop[R].pc = "applying"
        BY <1>0, <3>3, <4>1 DEF LoopRecords, ApplyTrade
      <4> QED
        BY <2>3, <4>2
    <3>4. ASSUME NEW b \in Attempts, SkipOrphan(R, b)
          PROVE  loop'[R].pc = "applying" /\ (Past(a)' => loop'[R].trades[a] = venue'[a].executed)
      <4>1. /\ loop[R].pc = "applying" /\ row[b].status = "none" /\ UNCHANGED <<books, world>>
            /\ loop'[R] = [loop[R] EXCEPT !.trades[b] = booked[b]]
        BY <3>1, <3>4 DEF SkipOrphan
      <4>2. loop'[R].pc = "applying" /\ loop'[R].failed = loop[R].failed
            /\ loop'[R].trades = [loop[R].trades EXCEPT ![b] = booked[b]]
        BY <1>0, <4>1 DEF LoopRecords
      <4>3. ~Past(b)
        BY <1>0, <4>1 DEF Past, Matched, RowMatched, NoRow
      <4>4. Past(a)' => Past(a)
        BY <4>1 DEF Past, books
      <4>5. Past(a)' => loop'[R].trades[a] = loop[R].trades[a]
        BY <1>0, <4>2, <4>3, <4>4 DEF LoopRecords
      <4> QED
        BY <2>3, <4>1, <4>2, <4>5
    <3>5. CASE AppendLedger(R)
      <4>1. loop'[R] = [loop[R] EXCEPT !.pc = "applying", !.call = NoCall]
            /\ loop[R].pc = "append"
        BY <3>1, <3>5 DEF AppendLedger
      <4>2. loop'[R].pc = "applying" /\ loop'[R].trades = loop[R].trades
            /\ loop'[R].failed = loop[R].failed
        BY <1>0, <4>1 DEF LoopRecords
      <4> QED
        BY <2>3, <4>1, <4>2
    <3>6. CASE DoneReconciling(R)
      <4> DEFINE f == loop[R].failed
      <4>1. /\ loop[R].pc = "applying" /\ \A b \in Attempts : booked[b] >= loop[R].trades[b]
            /\ loop'[R] = [IdleLoop EXCEPT !.pc = "done", !.failed = f]
            /\ UNCHANGED <<books, world>>
        BY <2>1, <3>1, <3>6 DEF DoneReconciling
      <4> HIDE DEF f
      <4>2. loop'[R].pc = "done" /\ loop'[R].failed = f
        BY <4>1 DEF IdleLoop
      <4>3. ASSUME row'[a].status \notin WorkingStatuses \cup {"none"}
            PROVE  booked'[a] = venue'[a].executed
        <5>1. Past(a)'
          BY <4>3 DEF Past
        <5>2. loop[R].trades[a] = venue'[a].executed
          BY <2>3, <4>1, <4>2, <5>1 DEF f
        <5>3. booked[a] <= venue[a].executed /\ booked[a] >= loop[R].trades[a]
          BY <1>1, <4>1 DEF VenueMatched
        <5>4. booked' = booked /\ venue' = venue
          BY <4>1 DEF books, world
        <5> QED
          BY <1>0, <1>1, <5>2, <5>3, <5>4
      <4> QED
        BY <4>2, <4>3
    <3> QED
      BY <2>5, <3>2, <3>3, <3>4, <3>5, <3>6 DEF Reconcile
  <2>6. ASSUME Manage(R), loop'[R] # loop[R]
        PROVE  loop'[R].pc \notin {"applying", "append", "done"}
    <3>1. \A l : Step(R, l) => loop'[R] = l
      BY <1>0 DEF Step
    <3>2. Load(R) => loop'[R].pc = "loaded"
      BY <3>1 DEF Load, IdleLoop
    <3>3. ListOpenOrders(R) => loop'[R].pc = "listed"
      BY <1>0, <3>1 DEF ListOpenOrders, LoopRecords
    <3>4. ListFails(R) \/ DoneManaging(R) => loop'[R].pc = "fills"
      BY <3>1 DEF ListFails, DoneManaging, IdleLoop
    <3>5. ReadClock(R) => loop'[R].pc = "managing"
      BY <1>0, <3>1 DEF ReadClock, LoopRecords
    <3>6. AskCancel(R) => loop'[R].pc = "cancel"
      BY <1>0, <3>1 DEF AskCancel, LoopRecords
    <3>7. CancelAnswers(R) => loop'[R].pc = "mark"
      BY <1>0, <3>1 DEF CancelAnswers, LoopRecords
    <3>8. NextRow(R) => loop'[R].pc = "managing"
      BY <1>0, <3>1 DEF NextRow, LoopRecords
    <3> QED
      BY <2>6, <3>2, <3>3, <3>4, <3>5, <3>6, <3>7, <3>8 DEF Manage, KeepMissing, ResolveMissing,
         AwaitCancel, TakeListedStatus, KeepResting, CancelFails, MarkCanceling, WriteRow
  <2>7. CASE loop'[R] # loop[R] /\ ~Reconcile(R) /\ ~Manage(R)
    <3>1. ~Executing /\ ~Venue /\ ~Time /\ ~RefreshPortfolio /\ vars' # vars
      BY <2>7, JobsApart DEF jobs, vars
    <3>2. ~Crash /\ ~FinishRecovery
      BY DEF Crash, FinishRecovery, Up
    <3>3. ~ \E r \in Reconcilers : Manage(r) \/ Reconcile(r)
      BY <1>0, <2>1, <2>7, OnlyRecoverer
    <3> QED
      BY <1>3, <3>1, <3>2, <3>3 DEF Next
  <2> QED
    BY <2>4, <2>5, <2>6, <2>7
<1> QED
  BY <1>2, <1>3

\* When recovery lets a start through, nothing of ours is open at the venue, no
\* submit is unresolved and, unless the trade list lags, the books have every
\* fill: from the intents and open orders it read first, and from its own
\* reconciliation of the rows.
THEOREM RecoveryMeansFlat ==
  ASSUME ~SlowReplies, "failed" \notin CancelErrors
  PROVE  Spec => RecoveredMeansFlat
<1> DEFINE A == boot.pc = "recovering" /\ boot'.pc = "up"
                  => \A a \in Attempts :
                       /\ ~Open(a)
                       /\ attempt[a].intent \notin {"prepared", "unknown_visibility"}
                       /\ lag # "trades" => booked[a] = venue[a].executed
<1>1. Init => Restarts
  <2>1. Init => NothingFailed
    BY DEF Init, NothingFailed, NoRow
  <2>2. Init => Recounted
    BY DEF Init, Recounted, Up
  <2> QED
    BY <2>1, <2>2, TypedInit, MatchedInit, EndedInit, BootMatchedInit DEF Restarts
<1>2. Restarts /\ [Next]_vars => Restarts'
  BY TypedStep, MatchedStep, EndedStep, BootMatchedStep, NothingFailedStep, RecountedStep
     DEF Restarts
<1>3. Restarts /\ [Next]_vars => [A]_vars
  <2> SUFFICES ASSUME Restarts, [Next]_vars, boot.pc = "recovering", boot'.pc = "up",
                      NEW a \in Attempts
               PROVE  /\ ~Open(a)
                      /\ attempt[a].intent \notin {"prepared", "unknown_visibility"}
                      /\ lag # "trades" => booked[a] = venue[a].executed
    OBVIOUS
  <2>1. FinishRecovery
    <3>1. ~Crash /\ ~StartRecovery
      BY DEF Crash, StartRecovery, Up
    <3>2. boot' # boot
      OBVIOUS
    <3> QED
      BY <3>1, <3>2, JobsApart DEF Restarts, Next, vars, jobs
  <2>2. Recovered /\ loop[Recoverer].pc = "done"
    BY <2>1 DEF FinishRecovery, Up
  <2>3. BlockingIntents = {} /\ ~loop[Recoverer].failed
    BY <2>2 DEF Recovered, Restarts, BootMatched
  <2>4. Working = {}
    <3>1. \A b \in Working : <<"row", b>> \in {<<"venue", c>> : c \in boot.open} \cup {}
      BY <2>2 DEF Recovered, GhostDetected, GhostExposure
    <3> QED
      BY <3>1
  <2>5. a \notin BlockingIntents /\ row[a].status \notin WorkingStatuses
    BY <2>3, <2>4 DEF Working
  <2>6. CASE row[a].status = "none"
    <3>1. a \notin Used /\ booked[a] = 0
      BY <2>5, <2>6 DEF Restarts, Matched, RowMatched
    <3>2. venue[a].state = "absent" /\ venue[a].executed = 0
      BY <3>1 DEF Restarts, Matched, VenueMatched, Typed, Lotted
    <3> QED
      BY <2>5, <3>1, <3>2 DEF BlockingIntents, Open
  <2>7. CASE row[a].status # "none"
    <3>1. ~Open(a)
      BY <2>5, <2>7, PastMeansEnded DEF Past
    <3>2. lag # "trades" => booked[a] = venue[a].executed
      BY <2>2, <2>3, <2>5, <2>7 DEF Restarts, Recounted
    <3> QED
      BY <2>5, <3>1, <3>2 DEF BlockingIntents
  <2> QED
    BY <2>6, <2>7
<1> QED
  BY <1>1, <1>2, <1>3, PTL DEF Spec, RecoveredMeansFlat

-----------------------------------------------------------------------------
(* Exposure                                                                 *)

Position == Total(ExecutedLots, OnSide("BUY")) - Total(ExecutedLots, OnSide("SELL"))
Closed == \A a \in Attempts : ~Open(a)

\* Another order of this side may be sent: nothing is open, an entry finds no
\* position, and an exit finds the lots it sells.
Allows(side, position) == IF side = "BUY" THEN position <= 0 ELSE position >= Size
Room(side) == Closed /\ Allows(side, Position)

Bounded ==
  /\ Total(LiveLots, OnSide("BUY")) - Total(ExecutedLots, OnSide("SELL")) <= Size
  /\ Total(LiveLots, OnSide("SELL")) <= Total(ExecutedLots, OnSide("BUY"))

\* Whoever holds a permission to send an order still has the room for it.
Granted ==
  /\ exec.pc = "prepared" => Room(SideOf(SignalOf(exec.at)))
  /\ exec.pc = "checked" /\ exec.venueSame <= 0 /\ Allows(SideOf(exec.signal), exec.position)
       => Room(SideOf(exec.signal))

Exposure == TruthIsPrompt => Bounded /\ Granted

\* What an order has executed and may still execute.
LotsFit ==
  /\ Size \in Nat
  /\ LiveLots \in [Attempts -> Int] /\ ExecutedLots \in [Attempts -> Int]
  /\ \A S : Total(LiveLots, S) \in Int /\ Total(ExecutedLots, S) \in Int
  /\ Position \in Int
  /\ \A a \in Attempts :
       /\ ExecutedLots[a] = venue[a].executed /\ venue[a].executed \in 0 .. Size
       /\ LiveLots[a] = IF Open(a) THEN Size ELSE venue[a].executed
       /\ LiveLots[a] \in 0 .. Size
       /\ ExecutedLots[a] <= LiveLots[a]
       /\ Open(a) => ExecutedLots[a] < Size

LEMMA LotsTyped == Typed => LotsFit
<1> SUFFICES ASSUME Typed PROVE LotsFit
  OBVIOUS
<1>1. Size \in Nat
  BY OrderAssumption
<1>2. ASSUME NEW a \in Attempts PROVE venue[a].executed \in 0 .. Size
  BY DEF Typed, WorldTyped
<1>3. ASSUME NEW a \in Attempts, Open(a) PROVE venue[a].executed < Size
  BY <1>3 DEF Typed, Lotted, Open
<1>4. \A a \in Attempts : ExecutedLots[a] = venue[a].executed
  BY DEF ExecutedLots
<1>5. ASSUME NEW a \in Attempts
      PROVE  LiveLots[a] = IF Open(a) THEN Size ELSE venue[a].executed
  <2>1. LiveLots[a] = venue[a].executed + (IF Open(a) THEN Size - venue[a].executed ELSE 0)
    BY DEF LiveLots, Lots
  <2>2. CASE Open(a)
    BY <1>1, <1>2, <2>1, <2>2
  <2>3. CASE ~Open(a)
    BY <1>1, <1>2, <2>1, <2>3
  <2> QED
    BY <2>2, <2>3
<1>6. \A a \in Attempts : LiveLots[a] \in 0 .. Size /\ ExecutedLots[a] <= LiveLots[a]
  BY <1>1, <1>2, <1>3, <1>4, <1>5
<1>7. ExecutedLots \in [Attempts -> Int]
  BY <1>1, <1>2 DEF ExecutedLots
<1>8. LiveLots \in [Attempts -> Int]
  <2>1. \A a \in Attempts : LiveLots[a] \in Int
    BY <1>1, <1>6
  <2> QED
    BY <2>1 DEF LiveLots
<1>9. \A S : Total(LiveLots, S) \in Int /\ Total(ExecutedLots, S) \in Int
  BY <1>7, <1>8, TotalInt
<1>10. Position \in Int
  BY <1>9 DEF Position
<1> QED
  BY <1>1, <1>2, <1>3, <1>4, <1>5, <1>6, <1>7, <1>8, <1>9, <1>10 DEF LotsFit

LEMMA LotsTypedNext == Typed' => LotsFit'
BY LotsTyped, PTL

\* With nothing open, what may still execute is what has executed.
LEMMA ClosedLots ==
  ASSUME Typed, Closed
  PROVE  \A S : Total(LiveLots, S) = Total(ExecutedLots, S)
<1> SUFFICES ASSUME NEW S PROVE Total(LiveLots, S) = Total(ExecutedLots, S)
  OBVIOUS
<1>1. \A a \in Attempts : Part(LiveLots, S, a) = Part(ExecutedLots, S, a)
  BY LotsTyped DEF LotsFit, Part, Closed
<1> QED
  BY <1>1, LotsTyped, TotalSame DEF LotsFit

\* An attempt keeps its signal, and one that is new has no lots.
LEMMA SidesKept ==
  ASSUME Typed, Matched, [Next]_vars, NEW a \in Attempts
  PROVE  /\ a \in Used => a \in Used' /\ SignalOf(a)' = SignalOf(a)
         /\ \A side : a \in Used => (a \in OnSide(side)' <=> a \in OnSide(side))
         /\ a \notin Used =>
              /\ venue[a].state = "absent" /\ LiveLots[a] = 0 /\ ExecutedLots[a] = 0
              /\ venue'[a] = venue[a]
<1>1. attempt \in [Attempts -> AttemptRecords \cup {NoAttempt}]
  BY DEF Typed, BooksTyped
<1>2. ASSUME a \in Used PROVE a \in Used' /\ SignalOf(a)' = SignalOf(a)
  <2>1. attempt[a].intent # "none" /\ attempt'[a].intent # "none"
        /\ attempt'[a].signal = attempt[a].signal
    BY <1>2, AttemptMoves DEF Used
  <2> QED
    BY <2>1 DEF Used, SignalOf
<1>3. ASSUME NEW side, a \in Used PROVE a \in OnSide(side)' <=> a \in OnSide(side)
  BY <1>2, <1>3 DEF OnSide, SideOf, IsEntry
<1>4. ASSUME a \notin Used
      PROVE  /\ venue[a].state = "absent" /\ LiveLots[a] = 0 /\ ExecutedLots[a] = 0
             /\ venue'[a] = venue[a]
  <2>1. venue[a].state = "absent"
    BY <1>4 DEF Matched, VenueMatched
  <2>2. venue[a].executed = 0 /\ ~Open(a)
    BY <2>1 DEF Typed, Lotted, Open
  <2>3. LiveLots[a] = 0 /\ ExecutedLots[a] = 0
    BY <2>2, LotsTyped DEF LotsFit
  <2>4. ~(exec.pc = "prepared" /\ exec.at = a)
    BY <1>4 DEF Typed, Numbered
  <2>5. venue'[a] = venue[a]
    BY <2>2, <2>4, VenueMoves
  <2> QED
    BY <2>1, <2>3, <2>5
<1> QED
  BY <1>2, <1>3, <1>4

\* What the venue does on its own never adds to what may still execute, nor
\* takes back what has executed.
LEMMA LotsShrink ==
  ASSUME Typed, Matched, [Next]_vars, NEW a \in Attempts, NEW side,
         ~(exec.pc = "prepared" /\ exec.at = a /\ exec'.pc = "answered")
  PROVE  /\ Part(LiveLots', OnSide(side)', a) <= Part(LiveLots, OnSide(side), a)
         /\ Part(ExecutedLots, OnSide(side), a) <= Part(ExecutedLots', OnSide(side)', a)
<1>1. Typed'
  BY TypedStep
<1>2. /\ Size \in Nat /\ venue[a].executed \in 0 .. Size /\ venue'[a].executed \in 0 .. Size
      /\ ExecutedLots[a] = venue[a].executed /\ ExecutedLots'[a] = venue'[a].executed
      /\ LiveLots[a] = IF Open(a) THEN Size ELSE venue[a].executed
      /\ LiveLots'[a] = IF Open(a)' THEN Size ELSE venue'[a].executed
  BY <1>1, LotsTyped, LotsTypedNext DEF LotsFit
<1>3. LiveLots'[a] <= LiveLots[a] /\ ExecutedLots[a] <= ExecutedLots'[a]
  <2>1. CASE venue'[a] = venue[a]
    BY <1>2, <2>1 DEF Open
  <2>2. CASE venue'[a] # venue[a]
    <3>1. Open(a) /\ venue'[a].executed \in {venue[a].executed, venue[a].executed + 1}
      BY <2>2, VenueMoves
    <3> QED
      BY <1>2, <3>1
  <2> QED
    BY <2>1, <2>2
<1>4. CASE a \in Used
  <2>1. a \in OnSide(side)' <=> a \in OnSide(side)
    BY <1>4, SidesKept
  <2> QED
    BY <1>2, <1>3, <2>1 DEF Part
<1>5. CASE a \notin Used
  <2>1. LiveLots[a] = 0 /\ ExecutedLots[a] = 0 /\ venue'[a] = venue[a] /\ venue[a].state = "absent"
    BY <1>5, SidesKept
  <2>2. LiveLots'[a] = 0 /\ ExecutedLots'[a] = 0
    BY <1>2, <2>1 DEF Open
  <2> QED
    BY <2>1, <2>2 DEF Part
<1> QED
  BY <1>4, <1>5

LEMMA TotalsShrink ==
  ASSUME Typed, Matched, [Next]_vars, ~(exec.pc = "prepared" /\ exec'.pc = "answered"), NEW side
  PROVE  /\ Total(LiveLots', OnSide(side)') <= Total(LiveLots, OnSide(side))
         /\ Total(ExecutedLots, OnSide(side)) <= Total(ExecutedLots', OnSide(side)')
<1>1. Typed'
  BY TypedStep
<1>2. LiveLots \in [Attempts -> Int] /\ ExecutedLots \in [Attempts -> Int]
  BY LotsTyped DEF LotsFit
<1>3. LiveLots' \in [Attempts -> Int] /\ ExecutedLots' \in [Attempts -> Int]
  BY <1>1, LotsTypedNext DEF LotsFit
<1>4. \A a \in Attempts :
         /\ Part(LiveLots', OnSide(side)', a) <= Part(LiveLots, OnSide(side), a)
         /\ Part(ExecutedLots, OnSide(side), a) <= Part(ExecutedLots', OnSide(side)', a)
  BY LotsShrink
<1>5. Total(LiveLots', OnSide(side)') <= Total(LiveLots, OnSide(side))
  BY <1>2, <1>3, <1>4, TotalMonotone
<1>6. Total(ExecutedLots, OnSide(side)) <= Total(ExecutedLots', OnSide(side)')
  BY <1>2, <1>3, <1>4, TotalMonotone
<1> QED
  BY <1>5, <1>6

\* Room for an order stays until one is sent.
LEMMA RoomKept ==
  ASSUME Typed, Matched, [Next]_vars, ~(exec.pc = "prepared" /\ exec'.pc = "answered"),
         NEW side, Room(side)
  PROVE  Room(side)'
<1>1. ASSUME NEW a \in Attempts PROVE venue'[a] = venue[a] /\ ~Open(a)
  BY VenueMoves DEF Room, Closed
<1>2. Typed' /\ LotsFit /\ LotsFit'
  BY TypedStep, LotsTyped, LotsTypedNext
<1>3. \A a \in Attempts : ExecutedLots'[a] = ExecutedLots[a]
  BY <1>1, <1>2 DEF LotsFit
<1>4. ASSUME NEW s PROVE Total(ExecutedLots', OnSide(s)') = Total(ExecutedLots, OnSide(s))
  <2>1. ASSUME NEW a \in Attempts
        PROVE  Part(ExecutedLots', OnSide(s)', a) = Part(ExecutedLots, OnSide(s), a)
    <3>1. CASE a \in Used
      <4>1. a \in OnSide(s)' <=> a \in OnSide(s)
        BY <3>1, SidesKept
      <4> QED
        BY <1>3, <4>1 DEF Part
    <3>2. CASE a \notin Used
      <4>1. ExecutedLots[a] = 0 /\ ExecutedLots'[a] = 0
        BY <1>3, <3>2, SidesKept
      <4> QED
        BY <4>1 DEF Part
    <3> QED
      BY <3>1, <3>2
  <2>2. ExecutedLots \in [Attempts -> Int] /\ ExecutedLots' \in [Attempts -> Int]
    BY <1>2 DEF LotsFit
  <2> QED
    BY <2>1, <2>2, TotalSame
<1>5. Position' = Position
  BY <1>4 DEF Position
<1>6. Closed'
  BY <1>1 DEF Closed, Open
<1> QED
  BY <1>5, <1>6 DEF Room, Allows

\* Agreement of the books with what the venue answers leaves no open order out.
LEMMA AllListed ==
  ASSUME Typed, Matched, Ended, BootMatched, TruthIsPrompt, exec.pc = "planned",
         Working = ListedOpen, NEW b \in Attempts, Open(b)
  PROVE  b \in ListedOpen
<1>1. b \in Used /\ RowMatched(b)
  BY DEF Matched, VenueMatched, Open
<1>2. CASE lag # "orders"
  BY <1>1, <1>2 DEF ListedOpen
<1>3. CASE lag = "orders" /\ row[b].status = "none"
  <2>1. attempt[b].intent = "prepared" \/ attempt[b].intent = "unknown_visibility"
    BY <1>1, <1>3 DEF RowMatched, BlockingIntents
  <2>2. attempt[b].intent # "prepared"
    BY DEF BootMatched
  <2> QED
    BY <1>3, <2>1, <2>2 DEF TruthIsPrompt
<1>4. CASE row[b].status \in WorkingStatuses
  BY <1>4 DEF Working
<1>5. CASE lag = "orders" /\ row[b].status = "rejected"
  <2>1. shown[b].open
    BY <1>1, <1>5 DEF RowMatched, Seen
  <2> QED
    BY <1>1, <1>5, <2>1 DEF ListedOpen
<1>6. row[b].status # "filled" /\ row[b].status # "canceled"
  BY <1>1 DEF RowMatched, Ended
<1>7. row[b].status \in RowStatuses
  BY DEF Typed, BooksTyped, RowRecords
<1> QED
  BY <1>2, <1>3, <1>4, <1>5, <1>6, <1>7 DEF RowStatuses

LEMMA NoDivergence ==
  ASSUME Snapshot.divergence = "none"
  PROVE  Working = ListedOpen
<1>1. DivergenceClasses(posLocal, ExternalPosition, Working, ListedOpen) = {}
  BY DEF Snapshot, DivergenceStatus
<1>2. Working \ ListedOpen = {} /\ ListedOpen \ Working = {}
  <2>1. "local_open_order_missing_on_venue"
          \notin DivergenceClasses(posLocal, ExternalPosition, Working, ListedOpen)
    BY <1>1
  <2>2. "venue_open_order_unknown_to_local"
          \notin DivergenceClasses(posLocal, ExternalPosition, Working, ListedOpen)
    BY <1>1
  <2> QED
    BY <2>1, <2>2 DEF DivergenceClasses
<1> QED
  BY <1>2

\* What the external snapshot answers, taken with the duplicate guard, is so.
LEMMA CaptureTruth ==
  ASSUME Typed, Matched, Ended, BootMatched, Bounded, TruthIsPrompt, exec.pc = "planned",
         Snapshot.divergence = "none", NEW side \in {"BUY", "SELL"},
         OpenLots(side) <= 0, Allows(side, ExternalPosition)
  PROVE  Room(side)
<1>0. LotsFit
  BY LotsTyped
<1>1. Reported = ExecutedLots
  BY DEF TruthIsPrompt, Reported, ExecutedLots
<1>2. ExternalPosition = Position
  BY <1>1 DEF ExternalPosition, Position
<1>3. ASSUME NEW b \in Attempts, Open(b) PROVE FALSE
  <2>1. b \in ListedOpen /\ b \in Used
    BY <1>3, NoDivergence, AllListed DEF ListedOpen
  <2>2. CASE b \in OnSide(side)
    <3> DEFINE left == [a \in Attempts |-> Size - Reported[a]]
               S == ListedOpen \cap OnSide(side)
    <3>1. \A a \in Attempts : left[a] \in Int /\ left[a] >= 0
      BY <1>0, <1>1 DEF LotsFit
    <3>2. left[b] > 0
      BY <1>0, <1>1, <1>3 DEF LotsFit
    <3>3. left \in [Attempts -> Int]
      BY <3>1
    <3> HIDE DEF left
    <3>4. \A a \in Attempts : Part(left, S, a) >= 0
      BY <3>1 DEF Part
    <3>5. Part(left, S, b) > 0
      BY <2>1, <2>2, <3>2 DEF Part
    <3>6. Total(left, S) > 0
      BY <3>3, <3>4, <3>5, TotalPositive
    <3>7. Total(left, S) = OpenLots(side)
      BY DEF OpenLots, left
    <3> QED
      BY <1>0, <3>3, <3>6, <3>7, TotalInt
  <2>3. CASE b \notin OnSide(side)
    <3> DEFINE other == IF side = "BUY" THEN "SELL" ELSE "BUY"
    <3>1. b \in OnSide(other)
      BY <2>1, <2>3 DEF OnSide, SideOf
    <3>2. Part(ExecutedLots, OnSide(other), b) + 1 <= Part(LiveLots, OnSide(other), b)
      <4>1. ExecutedLots[b] < Size /\ LiveLots[b] = Size /\ ExecutedLots[b] \in Int /\ Size \in Int
        BY <1>0, <1>3 DEF LotsFit
      <4> QED
        BY <3>1, <4>1 DEF Part
    <3>3. \A a \in Attempts \ {b} :
            Part(ExecutedLots, OnSide(other), a) <= Part(LiveLots, OnSide(other), a)
      BY <1>0 DEF LotsFit, Part
    <3> HIDE DEF other
    <3>4. Total(ExecutedLots, OnSide(other)) + 1 <= Total(LiveLots, OnSide(other))
      BY <1>0, <3>2, <3>3, TotalShift DEF LotsFit
    <3>5. \A S : Total(ExecutedLots, S) \in Int /\ Total(LiveLots, S) \in Int
      BY <1>0 DEF LotsFit
    <3>6. CASE side = "BUY"
      <4>1. Total(ExecutedLots, OnSide("SELL")) + 1 <= Total(LiveLots, OnSide("SELL"))
        BY <3>4, <3>6 DEF other
      <4>2. Total(LiveLots, OnSide("SELL")) <= Total(ExecutedLots, OnSide("BUY"))
        BY DEF Bounded
      <4>3. Total(ExecutedLots, OnSide("BUY")) - Total(ExecutedLots, OnSide("SELL")) <= 0
        BY <1>2, <3>6 DEF Allows, Position
      <4> QED
        BY <3>5, <4>1, <4>2, <4>3
    <3>7. CASE side = "SELL"
      <4>1. Total(ExecutedLots, OnSide("BUY")) + 1 <= Total(LiveLots, OnSide("BUY"))
        BY <3>4, <3>7 DEF other
      <4>2. Total(LiveLots, OnSide("BUY")) - Total(ExecutedLots, OnSide("SELL")) <= Size
        BY DEF Bounded
      <4>3. Total(ExecutedLots, OnSide("BUY")) - Total(ExecutedLots, OnSide("SELL")) >= Size
        BY <1>2, <3>7 DEF Allows, Position
      <4>4. Size \in Int
        BY <1>0 DEF LotsFit
      <4> QED
        BY <3>5, <4>1, <4>2, <4>3, <4>4
    <3> QED
      BY <3>6, <3>7
  <2> QED
    BY <2>2, <2>3
<1> QED
  BY <1>2, <1>3 DEF Room, Closed

\* Sending an order where there is room for it.
LEMMA PostBounded ==
  ASSUME Typed, Matched, [Next]_vars, exec.pc = "prepared", exec'.pc = "answered",
         Bounded, Room(SideOf(SignalOf(exec.at)))
  PROVE  Bounded'
<1> PICK b : b = exec.at
  OBVIOUS
<1> PICK side : side = SideOf(SignalOf(b))
  OBVIOUS
<1> PICK other : other = IF side = "BUY" THEN "SELL" ELSE "BUY"
  OBVIOUS
<1>0. /\ Typed' /\ LotsFit /\ LotsFit' /\ Size \in Int
      /\ b \in Used /\ b \in Attempts /\ side \in {"BUY", "SELL"} /\ b \in OnSide(side)
  BY TypedStep, LotsTyped, LotsTypedNext, OrderAssumption DEF Typed, Numbered, Used, OnSide, SideOf
<1>1. b \in OnSide(side)' /\ b \notin OnSide(other)' /\ b \notin OnSide(other)
  BY <1>0, SidesKept DEF OnSide
<1>2. \A S : Total(LiveLots, S) = Total(ExecutedLots, S)
  BY ClosedLots DEF Room
<1>3. /\ LiveLots \in [Attempts -> Int] /\ LiveLots' \in [Attempts -> Int]
      /\ ExecutedLots \in [Attempts -> Int] /\ ExecutedLots' \in [Attempts -> Int]
      /\ LiveLots[b] \in 0 .. Size /\ LiveLots'[b] \in 0 .. Size
  BY <1>0 DEF LotsFit
<1>4. \A S : /\ Total(LiveLots, S) \in Int /\ Total(LiveLots', S) \in Int
             /\ Total(ExecutedLots, S) \in Int /\ Total(ExecutedLots', S) \in Int
  BY <1>3, TotalInt
<1>5. \A a \in Attempts \ {b}, s \in {"BUY", "SELL"} :
         /\ Part(LiveLots', OnSide(s)', a) <= Part(LiveLots, OnSide(s), a)
         /\ Part(ExecutedLots, OnSide(s), a) <= Part(ExecutedLots', OnSide(s)', a)
  BY LotsShrink
<1>6. Total(LiveLots', OnSide(side)') <= Total(LiveLots, OnSide(side)) + Size
  <2>1. Part(LiveLots', OnSide(side)', b) + (-Size) <= Part(LiveLots, OnSide(side), b)
    BY <1>0, <1>1, <1>3 DEF Part
  <2>2. \A a \in Attempts \ {b} :
           Part(LiveLots', OnSide(side)', a) <= Part(LiveLots, OnSide(side), a)
    BY <1>0, <1>5
  <2>3. Total(LiveLots', OnSide(side)') + (-Size) <= Total(LiveLots, OnSide(side))
    BY <1>0, <1>3, <2>1, <2>2, TotalShift
  <2> QED
    BY <1>0, <1>4, <2>3
<1>7. Total(LiveLots', OnSide(other)') <= Total(LiveLots, OnSide(other))
  <2>1. Part(LiveLots', OnSide(other)', b) <= Part(LiveLots, OnSide(other), b)
    BY <1>1 DEF Part
  <2>2. \A a \in Attempts : Part(LiveLots', OnSide(other)', a) <= Part(LiveLots, OnSide(other), a)
    BY <1>5, <2>1
  <2> QED
    BY <1>3, <2>2, TotalMonotone
<1>8. ASSUME NEW s \in {"BUY", "SELL"}
      PROVE  Total(ExecutedLots, OnSide(s)) <= Total(ExecutedLots', OnSide(s)')
  <2>1. Part(ExecutedLots, OnSide(s), b) <= Part(ExecutedLots', OnSide(s)', b)
    <3>1. ExecutedLots[b] = 0 /\ ExecutedLots'[b] >= 0
      <4>1. venue[b].state = "absent"
        BY DEF Matched, ExecMatched
      <4> QED
        BY <1>0, <4>1 DEF LotsFit, Typed, Lotted
    <3> QED
      BY <1>3, <3>1 DEF Part
  <2>2. \A a \in Attempts : Part(ExecutedLots, OnSide(s), a) <= Part(ExecutedLots', OnSide(s)', a)
    BY <1>5, <2>1
  <2> QED
    BY <1>3, <2>2, TotalMonotone
<1>9. CASE side = "BUY"
  <2>1. /\ Total(LiveLots', OnSide("BUY")') <= Total(LiveLots, OnSide("BUY")) + Size
        /\ Total(LiveLots', OnSide("SELL")') <= Total(LiveLots, OnSide("SELL"))
    BY <1>6, <1>7, <1>9
  <2>2. Total(ExecutedLots, OnSide("BUY")) - Total(ExecutedLots, OnSide("SELL")) <= 0
    BY <1>9 DEF Room, Allows, Position
  <2>3. Total(LiveLots, OnSide("SELL")) <= Total(ExecutedLots, OnSide("BUY"))
    BY DEF Bounded
  <2>4. /\ Total(ExecutedLots, OnSide("BUY")) <= Total(ExecutedLots', OnSide("BUY")')
        /\ Total(ExecutedLots, OnSide("SELL")) <= Total(ExecutedLots', OnSide("SELL")')
    BY <1>8
  <2>5. Total(LiveLots, OnSide("BUY")) = Total(ExecutedLots, OnSide("BUY"))
    BY <1>2
  <2>6. Total(LiveLots', OnSide("BUY")') - Total(ExecutedLots', OnSide("SELL")') <= Size
    BY <1>0, <1>4, <2>1, <2>2, <2>4, <2>5
  <2>7. Total(LiveLots', OnSide("SELL")') <= Total(ExecutedLots', OnSide("BUY")')
    BY <1>4, <2>1, <2>3, <2>4
  <2> QED
    BY <2>6, <2>7 DEF Bounded
<1>10. CASE side = "SELL"
  <2>1. /\ Total(LiveLots', OnSide("SELL")') <= Total(LiveLots, OnSide("SELL")) + Size
        /\ Total(LiveLots', OnSide("BUY")') <= Total(LiveLots, OnSide("BUY"))
    BY <1>6, <1>7, <1>10
  <2>2. Total(ExecutedLots, OnSide("BUY")) - Total(ExecutedLots, OnSide("SELL")) >= Size
    BY <1>10 DEF Room, Allows, Position
  <2>3. Total(LiveLots, OnSide("BUY")) - Total(ExecutedLots, OnSide("SELL")) <= Size
    BY DEF Bounded
  <2>4. /\ Total(ExecutedLots, OnSide("BUY")) <= Total(ExecutedLots', OnSide("BUY")')
        /\ Total(ExecutedLots, OnSide("SELL")) <= Total(ExecutedLots', OnSide("SELL")')
    BY <1>8
  <2>5. Total(LiveLots, OnSide("SELL")) = Total(ExecutedLots, OnSide("SELL"))
    BY <1>2
  <2>6. Total(LiveLots', OnSide("SELL")') <= Total(ExecutedLots', OnSide("BUY")')
    BY <1>0, <1>4, <2>1, <2>2, <2>4, <2>5
  <2>7. Total(LiveLots', OnSide("BUY")') - Total(ExecutedLots', OnSide("SELL")') <= Size
    BY <1>0, <1>4, <2>1, <2>3, <2>4
  <2> QED
    BY <2>6, <2>7 DEF Bounded
<1> QED
  BY <1>0, <1>9, <1>10

\* An outcome that is unknown stays unknown.
LEMMA TruthStays ==
  ASSUME Typed, Matched, [Next]_vars, TruthIsPrompt'
  PROVE  TruthIsPrompt
<1>1. lag' = lag
  <2>1. 1 \in Attempts
    BY OrderAssumption DEF Attempts
  <2> QED
    BY <2>1, VenueMoves
<1>2. ASSUME NEW a \in Attempts, attempt[a].intent = "unknown_visibility"
      PROVE  attempt'[a].intent = "unknown_visibility"
  <2>1. a \in Used
    BY <1>2 DEF Used
  <2>2. ~(exec.pc \in {"answered", "stored"} /\ exec.at = a)
    BY <1>2 DEF Matched, ExecMatched
  <2> QED
    BY <1>2, <2>1, <2>2, AttemptMoves
<1> QED
  BY <1>1, <1>2 DEF TruthIsPrompt

\* How a permission comes about.
LEMMA ExecKinds ==
  ASSUME Typed, Matched, [Next]_vars
  PROVE  \/ exec' = exec
         \/ Capture \/ Prepare
         \/ exec'.pc \notin {"checked", "prepared"}
<1>1. CASE Executing
  <2>1. CreateRow => exec'.pc = "stored"
    BY RowCreated
  <2> QED
    BY <1>1, <2>1 DEF Executing, GateReject, Begin, Post, RecordUnknown, Settle, Idle, jobs
<1>2. CASE Venue \/ Time \/ RefreshPortfolio \/ UNCHANGED vars
  BY <1>2, JobsApart DEF jobs, vars
<1>3. ASSUME NEW r \in Reconcilers, Manage(r) \/ Reconcile(r) PROVE exec' = exec
  BY <1>3, JobsApart
<1>4. CASE Crash \/ StartRecovery \/ FinishRecovery
  BY <1>4 DEF Crash, StartRecovery, FinishRecovery, Idle
<1> QED
  BY <1>1, <1>2, <1>3, <1>4 DEF Next

LEMMA ExposureStep ==
  ASSUME Typed, Matched, Ended, BootMatched, Exposure, [Next]_vars
  PROVE  Exposure'
<1> SUFFICES ASSUME TruthIsPrompt' PROVE Bounded' /\ Granted'
  BY DEF Exposure
<1>1. TruthIsPrompt /\ Bounded /\ Granted
  BY TruthStays DEF Exposure
<1>2. CASE exec.pc = "prepared" /\ exec'.pc = "answered"
  BY <1>1, <1>2, PostBounded DEF Granted
<1>3. CASE ~(exec.pc = "prepared" /\ exec'.pc = "answered")
  <2>1. \A side : Room(side) => Room(side)'
    BY <1>3, RoomKept
  <2>2. Bounded'
    <3>1. Typed' /\ LotsFit /\ LotsFit'
      BY TypedStep, LotsTyped, LotsTypedNext
    <3>2. \A S : /\ Total(LiveLots, S) \in Int /\ Total(LiveLots', S) \in Int
                 /\ Total(ExecutedLots, S) \in Int /\ Total(ExecutedLots', S) \in Int
      BY <3>1 DEF LotsFit
    <3>3. /\ Total(LiveLots', OnSide("BUY")') <= Total(LiveLots, OnSide("BUY"))
          /\ Total(LiveLots', OnSide("SELL")') <= Total(LiveLots, OnSide("SELL"))
          /\ Total(ExecutedLots, OnSide("BUY")) <= Total(ExecutedLots', OnSide("BUY")')
          /\ Total(ExecutedLots, OnSide("SELL")) <= Total(ExecutedLots', OnSide("SELL")')
      BY <1>3, TotalsShrink
    <3>4. Size \in Int
      BY <3>1 DEF LotsFit
    <3>5. Total(LiveLots', OnSide("BUY")') - Total(ExecutedLots', OnSide("SELL")') <= Size
      BY <1>1, <3>2, <3>3, <3>4 DEF Bounded
    <3>6. Total(LiveLots', OnSide("SELL")') <= Total(ExecutedLots', OnSide("BUY")')
      BY <1>1, <3>2, <3>3 DEF Bounded
    <3> QED
      BY <3>5, <3>6 DEF Bounded
  <2>3. CASE exec' = exec
    <3>1. exec.pc = "prepared" => SideOf(SignalOf(exec.at))' = SideOf(SignalOf(exec.at))
      <4>1. exec.pc = "prepared" => exec.at \in Used /\ exec.at \in Attempts
        BY DEF Typed, Numbered, Used
      <4> QED
        BY <2>3, <4>1, SidesKept DEF SideOf, IsEntry
    <3>2. (exec.pc = "prepared" => Room(SideOf(SignalOf(exec.at))))'
      BY <1>1, <2>1, <2>3, <3>1 DEF Granted
    <3>3. SideOf(exec.signal)' = SideOf(exec.signal)
      BY <2>3 DEF SideOf, IsEntry
    <3>4. (exec.pc = "checked" /\ exec.venueSame <= 0 /\ Allows(SideOf(exec.signal), exec.position)
             => Room(SideOf(exec.signal)))'
      BY <1>1, <2>1, <2>3, <3>3 DEF Granted, Allows
    <3> QED
      BY <2>2, <3>2, <3>4 DEF Granted
  <2>4. CASE Capture /\ exec' # exec
    <3> PICK side : side = SideOf(exec.signal)
      OBVIOUS
    <3>1. exec.pc = "planned" /\ side \in {"BUY", "SELL"}
      BY <2>4 DEF Capture, SideOf
    <3>2. CASE exec'.pc = "checked"
      <4>1. /\ Snapshot.divergence = "none" /\ exec'.signal = exec.signal
            /\ exec'.position = ExternalPosition /\ exec'.venueSame = OpenLots(side)
        BY <2>4, <3>2 DEF Capture, FundingPasses, Idle
      <4>2. OpenLots(side) <= 0 /\ Allows(side, ExternalPosition) => Room(side)
        BY <1>1, <3>1, <4>1, CaptureTruth
      <4>3. exec'.venueSame <= 0 /\ Allows(side, exec'.position) => Room(side)'
        BY <2>1, <4>1, <4>2
      <4>4. SideOf(exec.signal)' = side
        BY <4>1 DEF SideOf, IsEntry
      <4> QED
        BY <2>2, <3>2, <4>3, <4>4 DEF Granted, Allows
    <3>3. CASE exec'.pc # "checked"
      <4>1. exec'.pc = "idle"
        BY <2>4, <3>3 DEF Capture, Idle
      <4> QED
        BY <2>2, <4>1 DEF Granted
    <3> QED
      BY <3>2, <3>3
  <2>5. CASE Prepare /\ exec' # exec
    <3> PICK side : side = SideOf(exec.signal)
      OBVIOUS
    <3>1. exec.pc = "checked" /\ side \in {"BUY", "SELL"}
      BY <2>5 DEF Prepare, SideOf
    <3>2. CASE exec'.pc = "prepared"
      <4> PICK n : n = Cardinality(Used) + 1
        OBVIOUS
      <4>1. exec'.at = n /\ n \in Attempts /\ n \notin Used
        <5>1. exec' = [pc |-> "prepared", at |-> n]
          BY <2>5, <3>2 DEF Prepare, Idle
        <5>2. Used # Attempts
          BY <3>1 DEF Typed, Numbered
        <5>3. /\ Cardinality(Used) \in 0 .. MaxAttempts /\ Used = 1 .. Cardinality(Used)
              /\ Cardinality(Used) < MaxAttempts
          BY <5>2, UsedCounted
        <5> QED
          BY <5>1, <5>3, OrderAssumption DEF Attempts
      <4>2. PICK local : ~DuplicateExposure(side, Size, exec.position, local, exec.venueSame)
        BY <2>5, <3>2 DEF Prepare, Idle
      <4>3. exec.position \in Int /\ exec.venueSame \in Int /\ Size \in Int
        BY <3>1, ExecTyped, OrderAssumption DEF Typed, JobsTyped
      <4>4. exec.venueSame <= 0 /\ Allows(side, exec.position)
        <5>1. CASE side = "BUY"
          BY <4>2, <4>3, <5>1 DEF DuplicateExposure, Allows
        <5>2. CASE side = "SELL"
          BY <4>2, <4>3, <5>2 DEF DuplicateExposure, Allows
        <5> QED
          BY <3>1, <5>1, <5>2
      <4>5. Room(side)'
        BY <1>1, <2>1, <3>1, <4>4 DEF Granted
      <4>6. attempt'[n].signal = exec.signal
        <5>1. attempt' = [attempt EXCEPT ![n] =
                 [signal |-> exec.signal, epoch |-> exec.epoch, plan |-> exec.plan,
                  intent |-> "prepared"]]
          BY <2>5, <3>2 DEF Prepare, Idle
        <5>2. attempt \in [Attempts -> AttemptRecords \cup {NoAttempt}]
          BY DEF Typed, BooksTyped
        <5> QED
          BY <4>1, <5>1, <5>2
      <4>7. SideOf(SignalOf(exec.at))' = side
        BY <4>1, <4>6 DEF SideOf, IsEntry, SignalOf
      <4> QED
        BY <2>2, <3>2, <4>5, <4>7 DEF Granted
    <3>3. CASE exec'.pc # "prepared"
      <4>1. exec'.pc = "idle"
        BY <2>5, <3>3 DEF Prepare, Idle
      <4> QED
        BY <2>2, <4>1 DEF Granted
    <3> QED
      BY <3>2, <3>3
  <2>6. CASE exec'.pc \notin {"checked", "prepared"}
    BY <2>2, <2>6 DEF Granted
  <2> QED
    BY <2>3, <2>4, <2>5, <2>6, ExecKinds
<1> QED
  BY <1>2, <1>3

LEMMA ExposureInit == Init => Exposure
<1> SUFFICES ASSUME Init PROVE Bounded /\ Granted
  BY DEF Exposure
<1>1. LotsFit
  BY TypedInit, LotsTyped
<1>2. \A s : OnSide(s) = {}
  BY DEF Init, OnSide, Used, NoAttempt
<1>3. Closed
  BY DEF Init, Closed, Open
<1>4. Total(LiveLots, {}) = Total(ExecutedLots, {})
  BY <1>3, TypedInit, ClosedLots
<1>5. Size \in Nat /\ Total(LiveLots, {}) \in Int /\ Total(ExecutedLots, {}) \in Int
  BY <1>1 DEF LotsFit
<1>6. Bounded
  BY <1>2, <1>4, <1>5 DEF Bounded
<1>7. Granted
  BY DEF Init, Granted, Idle
<1> QED
  BY <1>6, <1>7

Sound == Typed /\ Matched /\ Ended /\ BootMatched /\ Exposure

LEMMA SoundAlways ==
  ASSUME ~SlowReplies
  PROVE  Spec => []Sound
<1>1. Init => Sound
  BY TypedInit, MatchedInit, EndedInit, BootMatchedInit, ExposureInit DEF Sound
<1>2. Sound /\ [Next]_vars => Sound'
  BY TypedStep, MatchedStep, EndedStep, BootMatchedStep, ExposureStep DEF Sound
<1> QED
  BY <1>1, <1>2, PTL DEF Spec

\* However plans, cancels, fills, lost answers, reconciliations and crashes
\* interleave, what the entries hold and could still buy never exceeds the size
\* of one order, as long as trades are reported promptly, a listing takes no
\* longer than the grace period and, where the order list lags, no submit is of
\* unknown outcome.
THEOREM SingleExposure ==
  ASSUME ~SlowReplies
  PROVE  Spec => []NoDoubleExposure
<1>1. Sound => NoDoubleExposure
  BY DEF Sound, Exposure, Bounded, NoDoubleExposure
<1> QED
  BY <1>1, SoundAlways, PTL

\* Under the same conditions the exits never sold, and could never sell, more
\* lots than the entries bought.
THEOREM NothingOversold ==
  ASSUME ~SlowReplies
  PROVE  Spec => []NeverOversold
<1>1. Sound => NeverOversold
  BY DEF Sound, Exposure, Bounded, NeverOversold
<1> QED
  BY <1>1, SoundAlways, PTL
=============================================================================
