--------------------------- MODULE LearningProofs ---------------------------
(***************************************************************************)
(* Proofs about the learning side: a document saved under its lock, for    *)
(* any number of callers, decisions, crashes and corruptions; the windows  *)
(* of the daily cycle, for any number of processes, any length of a day    *)
(* and any failures; the policy of an execution context; a damaged         *)
(* document after its load; and the rollout ladder, rung by rung, for any  *)
(* number of variants and cycles.                                          *)
(***************************************************************************)
EXTENDS MCLearning, FiniteSetTheorems, SequenceTheorems, TLAPS

-----------------------------------------------------------------------------
(* A document saved under its lock                                          *)

\* The constants are as ArtifactStore assumes them.
LEMMA StoreAssumed ==
  /\ IsFiniteSet(Callers) /\ "torn" \notin Decisions /\ "none" \notin Decisions
BY LearningAssumption DEF Store!ArtifactAssumption, Store!IsFiniteSet, IsFiniteSet

LEMMA TornIsNoText == \A t : t \subseteq Decisions => t # Store!Torn
BY StoreAssumed DEF Store!Torn

\* While a caller has a file to open there is an inode for it.
Used == {primary, tmp} \cup {call[c].inode : c \in Callers}

\* One more element, one more member at most.
LEMMA OneMore ==
  ASSUME NEW S, NEW x, NEW n \in Nat, IsFiniteSet(S), Cardinality(S) <= n
  PROVE  IsFiniteSet(S \cup {x}) /\ Cardinality(S \cup {x}) <= n + 1
<1>1. Cardinality(S) \in Nat
  BY FS_CardinalityType
<1>2. /\ IsFiniteSet(S \cup {x})
      /\ Cardinality(S \cup {x}) = IF x \in S THEN Cardinality(S) ELSE Cardinality(S) + 1
  BY FS_AddElement
<1> QED
  BY <1>1, <1>2

LEMMA FreeInodeExists ==
  ASSUME Store!TypeOK, tmp = Store!None
  PROVE  Store!FreeInode \in Store!Inodes /\ Store!FreeInode \notin Used
<1> DEFINE open == {call[c].inode : c \in Callers}
           f == [c \in Callers |-> call[c].inode]
           n == Cardinality(Callers)
<1>1. IsFiniteSet(Callers) /\ n \in Nat
  BY StoreAssumed, FS_CardinalityType
<1>2. IsFiniteSet(open) /\ Cardinality(open) <= n /\ Cardinality(open) \in Nat
  <2>1. f \in Surjection(Callers, open)
    BY DEF Surjection
  <2> QED
    BY <1>1, <2>1, FS_Surjection, FS_CardinalityType
<1> HIDE DEF open, n
<1>3. IsFiniteSet(open \cup {primary}) /\ Cardinality(open \cup {primary}) <= n + 1
  BY <1>1, <1>2, OneMore
<1>4. /\ IsFiniteSet((open \cup {primary}) \cup {tmp})
      /\ Cardinality((open \cup {primary}) \cup {tmp}) <= (n + 1) + 1
  BY <1>1, <1>3, n + 1 \in Nat, OneMore
<1>5. Used = (open \cup {primary}) \cup {tmp}
  BY DEF Used, open
<1>7. IsFiniteSet(Used) /\ Cardinality(Used) <= n + 2 /\ Cardinality(Used) \in Nat
  BY <1>1, <1>4, <1>5, FS_CardinalityType
<1>6. \E i \in Store!Inodes : i \notin Used
  <2> SUFFICES ASSUME Store!Inodes \subseteq Used PROVE FALSE
    OBVIOUS
  <2>1. Store!None \in Used
    BY DEF Used
  <2>2. Store!Inodes = 1 .. n + 2
    BY DEF Store!Inodes, Store!Cardinality, Cardinality, n
  <2>3. 0 .. n + 2 \subseteq Used
    BY <1>1, <2>1, <2>2 DEF Store!None
  <2>4. Cardinality(0 .. n + 2) = n + 3
    BY <1>1, FS_Interval
  <2>5. Cardinality(0 .. n + 2) <= Cardinality(Used)
    BY <1>7, <2>3, FS_Subset
  <2> QED
    BY <1>1, <1>7, <2>4, <2>5
<1> QED
  BY <1>6 DEF Used, Store!FreeInode

\* Under its lock one caller is at work at a time.
Alone == \A c, d \in Callers : call[c].pc # "idle" /\ call[d].pc # "idle" => c = d

Saving == {"copy", "copying", "open", "write", "rename"}

\* What a call at work holds has what was acknowledged, and so has what it wrote.
Carried(c) ==
  /\ call[c].pc \in Saving =>
       acked \subseteq call[c].state /\ (call[c].decision \in call[c].state \/ acked = {})
  /\ call[c].pc \in {"quarantine", "recover"} => acked = {}
  /\ call[c].pc = "write" => call[c].inode = tmp /\ tmp # Store!None /\ files[tmp] = Store!Torn
  /\ call[c].pc = "rename" => tmp # Store!None /\ files[tmp] = call[c].state

\* The primary is never the file that is being written, and it has what was acknowledged.
Apart == tmp # Store!None => tmp # primary
Intact ==
  acked # {} =>
    primary # Store!None /\ files[primary] # Store!Torn /\ acked \subseteq files[primary]

Durable == Store!TypeOK /\ Alone /\ (\A c \in Callers : Carried(c)) /\ Apart /\ Intact

LEMMA DurableInit == Store!Init => Durable
<1> SUFFICES ASSUME Store!Init PROVE Durable
  OBVIOUS
<1>1. snaps \in Seq(Store!Texts)
  BY DEF Store!Init
<1>2. Store!TypeOK
  BY <1>1 DEF Store!Init, Store!TypeOK, Store!Texts, Store!Empty, Store!Idle, Store!None
<1>3. Alone /\ \A c \in Callers : Carried(c)
  BY DEF Store!Init, Store!Idle, Alone, Carried, Saving
<1> QED
  BY <1>2, <1>3 DEF Store!Init, Durable, Apart, Intact, Store!None

\* The types of a step that changes the call of one caller.
Points == {"idle", "read", "quarantine", "recover", "copy", "copying", "open",
           "write", "rename", "unlink"}
Calls == [pc : Points, decision : Decisions \cup {"none"}, state : SUBSET Decisions,
          inode : Store!Inodes \cup {Store!None}, snap : Nat]

LEMMA CallTyped ==
  ASSUME Store!TypeOK, NEW c \in Callers, NEW r \in Calls, call' = [call EXCEPT ![c] = r]
  PROVE  /\ call' \in [Callers -> Calls]
         /\ call'[c] = r /\ \A o \in Callers \ {c} : call'[o] = call[o]
BY DEF Store!TypeOK, Calls, Points

\* A loaded state is carried, or returned.
LEMMA LoadedTyped ==
  ASSUME Store!TypeOK, NEW c \in Callers, NEW s \in SUBSET Decisions, Store!Loaded(c, s)
  PROVE  /\ returned' \subseteq Decisions
         /\ call' \in [Callers -> Calls]
         /\ \A o \in Callers \ {c} : call'[o] = call[o]
         /\ \/ call'[c].pc = "idle"
            \/ /\ call'[c].pc = "copy"
               /\ call'[c].state = s \cup {call'[c].decision}
<1> DEFINE d == call[c].decision
           r == IF d = "none" THEN Store!Idle
                ELSE [call[c] EXCEPT !.pc = "copy", !.state = s \cup {d}]
<1>1. call[c] \in Calls
  BY DEF Store!TypeOK, Calls, Points
<1>2. r \in Calls
  BY <1>1 DEF Calls, Points, Store!Idle, Store!Empty, Store!None
<1>3. call' = [call EXCEPT ![c] = r]
  BY DEF Store!Loaded
<1>4. r.pc = "idle" \/ (r.pc = "copy" /\ r.state = s \cup {r.decision})
  BY <1>1 DEF Calls, Store!Idle
<1>5. returned' \subseteq Decisions
  BY DEF Store!Loaded, Store!TypeOK
<1> HIDE DEF r, d
<1> QED
  BY <1>2, <1>3, <1>4, <1>5, CallTyped

\* The one caller at work takes a step.
LEMMA OneAtWork ==
  ASSUME Alone, NEW c \in Callers,
         call[c].pc # "idle" \/ \A o \in Callers : call[o].pc = "idle",
         \A o \in Callers \ {c} : call'[o] = call[o],
         Carried(c)'
  PROVE  Alone' /\ \A o \in Callers : Carried(o)'
<1>1. \A o \in Callers \ {c} : call'[o].pc = "idle"
  BY DEF Alone
<1> QED
  BY <1>1 DEF Alone, Carried, Saving

\* A set of numbers that is not empty has a least one.
LEMMA LeastNumber ==
  ASSUME NEW T, T \subseteq Nat, T # {}
  PROVE  \E m \in T : \A k \in T : m <= k
<1> DEFINE Less == {ss \in Nat \X Nat : ss[1] < ss[2]}
<1>1. IsWellFoundedOn(Less, Nat)
  BY NatLessThanWellFounded DEF OpToRel
<1>2. PICK m \in T : \A k \in T : ~(<<k, m>> \in Less)
  <2> HIDE DEF Less
  <2> QED
    BY <1>1, WFMin
<1>3. ASSUME NEW k \in T PROVE m <= k
  <2>1. k \in Nat /\ m \in Nat
    OBVIOUS
  <2>2. <<k, m>> \notin Less
    BY <1>2
  <2> QED
    BY <2>1, <2>2
<1> QED
  BY <1>3

\* Of the snapshots that can be parsed one is the newest: they are finitely many.
LEMMA NewestParseable ==
  ASSUME Store!TypeOK, Store!Parseable # {}
  PROVE  (CHOOSE i \in Store!Parseable : \A j \in Store!Parseable : j <= i) \in Store!Parseable
<1>1. Store!Parseable \subseteq 1 .. Len(snaps) /\ Len(snaps) \in Nat
  BY DEF Store!TypeOK, Store!Parseable
<1>2. \E i \in Store!Parseable : \A j \in Store!Parseable : j <= i
  <2> DEFINE Above == {n \in Nat : \A j \in Store!Parseable : j <= n}
  <2>1. Len(snaps) \in Above /\ Above \subseteq Nat
    BY <1>1
  <2>2. PICK n \in Above : \A m \in Above : n <= m
    <3> HIDE DEF Above
    <3> QED
      BY <2>1, LeastNumber
  <2> QED
    <3> SUFFICES ASSUME n \notin Store!Parseable PROVE FALSE
      BY <2>2
    <3>1. n # 0
      <4>1. PICK j \in Store!Parseable : TRUE
        OBVIOUS
      <4>2. j >= 1 /\ j <= n /\ n \in Nat /\ j \in Nat
        BY <1>1, <2>2
      <4> QED
        BY <4>2
    <3>2. n - 1 \in Above
      BY <1>1, <2>2, <3>1
    <3> QED
      BY <2>2, <3>2
<1> QED
  BY <1>2

\* A call begins when no other one is running (the lock).
LEMMA StartStep ==
  ASSUME Durable, NEW c \in Callers,
         Store!Load(c) \/ \E d \in Decisions : Store!RecordDecision(c, d)
  PROVE  Durable'
<1>1. PICK d \in Decisions \cup {"none"} : Store!MayStart(c) /\ Store!Start(c, d)
  BY DEF Store!Load, Store!RecordDecision
<1> DEFINE r == [Store!Idle EXCEPT !.pc = "read", !.decision = d]
<1>2. r \in Calls /\ r.pc = "read"
  BY DEF Calls, Points, Store!Idle, Store!Empty, Store!None
<1>3. call' = [call EXCEPT ![c] = r]
  BY <1>1 DEF Store!Start
<1>4. UNCHANGED <<files, primary, tmp, snaps, acked, returned>>
  BY <1>1 DEF Store!Start
<1> HIDE DEF r
<1>5. /\ call' \in [Callers -> Calls] /\ call'[c] = r
      /\ \A o \in Callers \ {c} : call'[o] = call[o]
  BY <1>2, <1>3, CallTyped DEF Durable
<1>6. \A o \in Callers : call[o].pc = "idle"
  BY <1>1 DEF Store!MayStart
<1>7. Store!TypeOK'
  BY <1>4, <1>5 DEF Durable, Store!TypeOK, Calls, Points, Store!Texts, Store!Inodes
<1>8. Carried(c)'
  BY <1>2, <1>5 DEF Carried, Saving
<1>9. Apart' /\ Intact'
  BY <1>4 DEF Durable, Apart, Intact
<1> QED
  BY <1>5, <1>6, <1>7, <1>8, <1>9, OneAtWork DEF Durable

\* A primary with acknowledged decisions can be read, and is returned or carried on.
LEMMA ReadStep ==
  ASSUME Durable, NEW c \in Callers, Store!ReadPrimary(c)
  PROVE  Durable'
<1>1. UNCHANGED <<files, primary, tmp, snaps, acked>> /\ call[c].pc = "read"
  BY DEF Store!ReadPrimary
<1>2. call[c] \in Calls /\ returned \subseteq Decisions
  BY DEF Durable, Store!TypeOK, Calls, Points
<1>3. /\ call' \in [Callers -> Calls] /\ returned' \subseteq Decisions
      /\ \A o \in Callers \ {c} : call'[o] = call[o]
      /\ Carried(c)'
  <2>1. CASE primary = Store!None
    <3> DEFINE r == [call[c] EXCEPT !.pc = "copy", !.state = Store!Empty]
    <3>1. r \in Calls /\ r.pc = "copy"
      BY <1>2 DEF Calls, Points, Store!Empty
    <3>2. call' = [call EXCEPT ![c] = r] /\ returned' = returned
      BY <2>1 DEF Store!ReadPrimary, Durable, Store!TypeOK
    <3>3. acked' = {}
      BY <1>1, <2>1 DEF Durable, Intact
    <3> HIDE DEF r
    <3> QED
      BY <1>2, <3>1, <3>2, <3>3, CallTyped DEF Durable, Carried, Saving
  <2>2. CASE primary # Store!None /\ files[primary] = Store!Torn
    <3> DEFINE r == [call[c] EXCEPT !.pc = "quarantine"]
    <3>1. r \in Calls /\ r.pc = "quarantine"
      BY <1>2 DEF Calls, Points
    <3>2. call' = [call EXCEPT ![c] = r] /\ returned' = returned
      BY <2>2 DEF Store!ReadPrimary, Store!Go
    <3>3. acked' = {}
      BY <1>1, <2>2 DEF Durable, Intact
    <3> HIDE DEF r
    <3> QED
      BY <1>2, <3>1, <3>2, <3>3, CallTyped DEF Durable, Carried, Saving
  <2>3. CASE primary # Store!None /\ files[primary] # Store!Torn
    <3>1. files[primary] \in SUBSET Decisions
      BY <2>3 DEF Durable, Store!TypeOK, Store!Texts
    <3>2. Store!Loaded(c, files[primary])
      BY <2>3 DEF Store!ReadPrimary
    <3>3. acked' \subseteq files[primary]
      BY <1>1 DEF Durable, Intact
    <3> QED
      BY <3>1, <3>2, <3>3, LoadedTyped DEF Durable, Carried, Saving
  <2> QED
    BY <2>1, <2>2, <2>3
<1>4. Store!TypeOK'
  BY <1>1, <1>3 DEF Durable, Store!TypeOK, Calls, Points, Store!Texts, Store!Inodes
<1>5. Apart' /\ Intact'
  BY <1>1 DEF Durable, Apart, Intact
<1> QED
  BY <1>1, <1>3, <1>4, <1>5, OneAtWork DEF Durable

LEMMA QuarantineStep ==
  ASSUME Durable, NEW c \in Callers, Store!QuarantineCorruptPrimary(c)
  PROVE  Durable'
<1> DEFINE r == [call[c] EXCEPT !.pc = "recover"]
<1>1. call[c].pc = "quarantine" /\ acked = {}
  BY DEF Store!QuarantineCorruptPrimary, Durable, Carried
<1>2. r \in Calls /\ r.pc = "recover"
  BY DEF Durable, Store!TypeOK, Calls, Points
<1>3. /\ call' = [call EXCEPT ![c] = r] /\ primary' = Store!None
      /\ UNCHANGED <<files, tmp, snaps, acked, returned>>
  BY DEF Store!QuarantineCorruptPrimary, Store!Go
<1> HIDE DEF r
<1>4. /\ call' \in [Callers -> Calls] /\ call'[c] = r
      /\ \A o \in Callers \ {c} : call'[o] = call[o]
  BY <1>2, <1>3, CallTyped DEF Durable
<1>5. Store!TypeOK'
  BY <1>3, <1>4 DEF Durable, Store!TypeOK, Calls, Points, Store!Texts, Store!Inodes
<1>6. Carried(c)'
  BY <1>1, <1>2, <1>3, <1>4 DEF Carried, Saving
<1>7. Apart' /\ Intact'
  BY <1>1, <1>3 DEF Durable, Apart, Intact, Store!None
<1> QED
  BY <1>1, <1>4, <1>5, <1>6, <1>7, OneAtWork DEF Durable

LEMMA RecoverStep ==
  ASSUME Durable, NEW c \in Callers, Store!ReadLatestSnapshot(c)
  PROVE  Durable'
<1>1. /\ UNCHANGED <<files, primary, tmp, snaps, acked>>
      /\ call[c].pc = "recover" /\ acked' = {}
  BY DEF Store!ReadLatestSnapshot, Durable, Carried
<1>2. call[c] \in Calls /\ returned \subseteq Decisions
  BY DEF Durable, Store!TypeOK, Calls, Points
<1>3. /\ call' \in [Callers -> Calls] /\ returned' \subseteq Decisions
      /\ \A o \in Callers \ {c} : call'[o] = call[o]
      /\ Carried(c)'
  <2>1. CASE Store!Parseable = {}
    <3> DEFINE r == [call[c] EXCEPT !.pc = "copy", !.state = Store!Empty]
    <3>1. r \in Calls /\ r.pc = "copy"
      BY <1>2 DEF Calls, Points, Store!Empty
    <3>2. call' = [call EXCEPT ![c] = r] /\ returned' = returned
      BY <2>1 DEF Store!ReadLatestSnapshot, Durable, Store!TypeOK
    <3> HIDE DEF r
    <3> QED
      BY <1>1, <1>2, <3>1, <3>2, CallTyped DEF Durable, Carried, Saving
  <2>2. CASE Store!Parseable # {}
    <3> DEFINE i == CHOOSE i \in Store!Parseable : \A j \in Store!Parseable : j <= i
    <3>1. Store!Loaded(c, snaps[i])
      BY <2>2 DEF Store!ReadLatestSnapshot
    <3>2. i \in Store!Parseable
      BY <2>2, NewestParseable DEF Durable
    <3> HIDE DEF i
    <3>3. snaps[i] \in SUBSET Decisions
      BY <3>2 DEF Durable, Store!TypeOK, Store!Parseable, Store!Texts
    <3> QED
      BY <1>1, <3>1, <3>3, LoadedTyped DEF Durable, Carried, Saving
  <2> QED
    BY <2>1, <2>2
<1>4. Store!TypeOK'
  BY <1>1, <1>3 DEF Durable, Store!TypeOK, Calls, Points, Store!Texts, Store!Inodes
<1>5. Apart' /\ Intact'
  BY <1>1 DEF Durable, Apart, Intact
<1> QED
  BY <1>1, <1>3, <1>4, <1>5, OneAtWork DEF Durable

\* A snapshot is begun: nothing a later load depends on changes.
LEMMA BeginSnapshotStep ==
  ASSUME Durable, NEW c \in Callers, Store!BeginSnapshot(c)
  PROVE  Durable'
<1>1. /\ UNCHANGED <<files, primary, tmp, acked, returned>> /\ call[c].pc = "copy"
      /\ call[c] \in Calls /\ snaps \in Seq(Store!Texts)
  BY DEF Store!BeginSnapshot, Durable, Store!TypeOK, Calls, Points
<1>2. PICK r \in Calls : /\ r.pc \in {"open", "copying"} /\ r.state = call[c].state
                         /\ r.decision = call[c].decision
                         /\ call' = [call EXCEPT ![c] = r]
  <2>1. CASE primary = Store!None
    <3> DEFINE r == [call[c] EXCEPT !.pc = "open"]
    <3>1. r \in Calls /\ r.pc = "open" /\ r.state = call[c].state /\ r.decision = call[c].decision
      BY <1>1 DEF Calls, Points
    <3>2. call' = [call EXCEPT ![c] = r]
      BY <2>1 DEF Store!BeginSnapshot, Store!Go
    <3> HIDE DEF r
    <3> QED
      BY <3>1, <3>2
  <2>2. CASE primary # Store!None
    <3> DEFINE k == Len(snaps) + 1
               r == [call[c] EXCEPT !.pc = "copying", !.snap = k]
    <3>1. k \in Nat
      BY <1>1
    <3>2. call' = [call EXCEPT ![c] = r]
      BY <2>2 DEF Store!BeginSnapshot, Durable, Store!TypeOK
    <3> HIDE DEF k
    <3>3. r \in Calls /\ r.pc = "copying" /\ r.state = call[c].state
          /\ r.decision = call[c].decision
      BY <1>1, <3>1 DEF Calls, Points
    <3> HIDE DEF r
    <3> QED
      BY <3>2, <3>3
  <2> QED
    BY <2>1, <2>2
<1>3. /\ call' \in [Callers -> Calls] /\ call'[c] = r
      /\ \A o \in Callers \ {c} : call'[o] = call[o]
  BY <1>2, CallTyped DEF Durable
<1>4. snaps' \in Seq(Store!Texts)
  BY <1>1 DEF Store!BeginSnapshot, Store!Texts
<1>5. Store!TypeOK'
  BY <1>1, <1>3, <1>4 DEF Durable, Store!TypeOK, Calls, Points, Store!Texts, Store!Inodes
<1>6. Carried(c)'
  BY <1>1, <1>2, <1>3 DEF Durable, Carried, Saving
<1>7. Apart' /\ Intact'
  BY <1>1 DEF Durable, Apart, Intact
<1> QED
  BY <1>1, <1>3, <1>5, <1>6, <1>7, OneAtWork DEF Durable

LEMMA EndSnapshotStep ==
  ASSUME Durable, NEW c \in Callers, Store!EndSnapshot(c)
  PROVE  Durable'
<1> DEFINE r == [call[c] EXCEPT !.pc = "open"]
           text == IF primary = Store!None THEN Store!Torn ELSE files[primary]
<1>1. /\ UNCHANGED <<files, primary, tmp, acked, returned>> /\ call[c].pc = "copying"
      /\ call[c] \in Calls /\ snaps \in Seq(Store!Texts)
  BY DEF Store!EndSnapshot, Durable, Store!TypeOK, Calls, Points
<1>2. r \in Calls /\ r.pc = "open" /\ r.state = call[c].state /\ r.decision = call[c].decision
  BY <1>1 DEF Calls, Points
<1>3. call' = [call EXCEPT ![c] = r]
  BY DEF Store!EndSnapshot, Store!Go
<1>4. text \in Store!Texts
  BY DEF Durable, Store!TypeOK, Store!Texts
<1>5. snaps' = [snaps EXCEPT ![call[c].snap] = text]
  BY DEF Store!EndSnapshot
<1> HIDE DEF r, text
<1>6. snaps' \in Seq(Store!Texts)
  <2> DEFINE k == call[c].snap
  <2>1. snaps' = [snaps EXCEPT ![k] = text]
    BY <1>5
  <2> HIDE DEF k
  <2>2. CASE k \in 1 .. Len(snaps)
    BY <1>1, <1>4, <2>1, <2>2, ExceptSeq
  <2>3. CASE k \notin 1 .. Len(snaps)
    <3>1. snaps \in [1 .. Len(snaps) -> Store!Texts] /\ Len(snaps) \in Nat
      BY <1>1
    <3>2. [snaps EXCEPT ![k] = text] \in [1 .. Len(snaps) -> Store!Texts]
      BY <2>3, <3>1
    <3> QED
      BY <2>1, <3>1, <3>2, SeqDef
  <2> QED
    BY <2>2, <2>3
<1>7. /\ call' \in [Callers -> Calls] /\ call'[c] = r
      /\ \A o \in Callers \ {c} : call'[o] = call[o]
  BY <1>2, <1>3, CallTyped DEF Durable
<1>8. Store!TypeOK'
  BY <1>1, <1>6, <1>7 DEF Durable, Store!TypeOK, Calls, Points, Store!Texts, Store!Inodes
<1>9. Carried(c)'
  BY <1>1, <1>2, <1>7 DEF Durable, Carried, Saving
<1>10. Apart' /\ Intact'
  BY <1>1 DEF Durable, Apart, Intact
<1> QED
  BY <1>1, <1>7, <1>8, <1>9, <1>10, OneAtWork DEF Durable

\* The file that is opened is not the primary.
LEMMA OpenStep ==
  ASSUME Durable, NEW c \in Callers, Store!OpenTmp(c)
  PROVE  Durable'
<1> DEFINE i == IF tmp = Store!None THEN Store!FreeInode ELSE tmp
           r == [call[c] EXCEPT !.pc = "write", !.inode = i]
<1>1. /\ UNCHANGED <<primary, snaps, acked, returned>> /\ call[c].pc = "open"
      /\ call[c] \in Calls
  BY DEF Store!OpenTmp, Durable, Store!TypeOK, Calls, Points
<1>2. i \in Store!Inodes /\ i # primary
  <2>1. CASE tmp = Store!None
    BY <2>1, FreeInodeExists DEF Durable, Used
  <2>2. CASE tmp # Store!None
    BY <2>2 DEF Durable, Apart, Store!TypeOK
  <2> QED
    BY <2>1, <2>2
<1>3. /\ tmp' = i /\ files' = [files EXCEPT ![i] = Store!Torn]
      /\ call' = [call EXCEPT ![c] = r]
  BY DEF Store!OpenTmp, Durable, Store!TypeOK
<1> HIDE DEF i
<1>4. i # Store!None
  BY <1>2 DEF Store!None, Store!Inodes
<1>5. /\ r \in Calls /\ r.pc = "write" /\ r.state = call[c].state /\ r.inode = i
      /\ r.decision = call[c].decision
  BY <1>1, <1>2 DEF Calls, Points
<1> HIDE DEF r
<1>6. /\ call' \in [Callers -> Calls] /\ call'[c] = r
      /\ \A o \in Callers \ {c} : call'[o] = call[o]
  BY <1>3, <1>5, CallTyped DEF Durable
<1>7. /\ files \in [Store!Inodes -> Store!Texts]
      /\ files' \in [Store!Inodes -> Store!Texts] /\ files'[i] = Store!Torn
  BY <1>2, <1>3 DEF Durable, Store!TypeOK, Store!Texts
<1>8. Store!TypeOK'
  BY <1>1, <1>2, <1>3, <1>6, <1>7 DEF Durable, Store!TypeOK, Calls, Points, Store!Texts, Store!Inodes
<1>9. Carried(c)'
  BY <1>1, <1>3, <1>4, <1>5, <1>6, <1>7 DEF Durable, Carried, Saving
<1>10. Apart'
  BY <1>1, <1>2, <1>3 DEF Apart
<1>11. Intact'
  <2>1. primary # Store!None => files'[primary] = files[primary]
    BY <1>2, <1>3, <1>7 DEF Durable, Store!TypeOK
  <2> QED
    BY <1>1, <2>1 DEF Durable, Intact
<1> QED
  BY <1>1, <1>6, <1>8, <1>9, <1>10, <1>11, OneAtWork DEF Durable

\* The file that was opened is torn until its text is written.
LEMMA WriteStep ==
  ASSUME Durable, NEW c \in Callers, Store!WriteTmp(c)
  PROVE  Durable'
<1> DEFINE r == [call[c] EXCEPT !.pc = "rename", !.inode = Store!None]
           i == call[c].inode
           text == Store!Written(files[i], call[c].state)
<1>1. /\ UNCHANGED <<primary, tmp, snaps, acked, returned>> /\ call[c].pc = "write"
      /\ call[c] \in Calls
  BY DEF Store!WriteTmp, Durable, Store!TypeOK, Calls, Points
<1>2. i = tmp /\ tmp # Store!None /\ files[tmp] = Store!Torn
  BY <1>1 DEF Durable, Carried
<1>3. text = call[c].state
  BY <1>2 DEF Store!Written
<1>4. files' = [files EXCEPT ![i] = text] /\ call' = [call EXCEPT ![c] = r]
  BY DEF Store!WriteTmp, Durable, Store!TypeOK
<1>5. /\ r \in Calls /\ r.pc = "rename" /\ r.state = call[c].state
      /\ r.decision = call[c].decision
  BY <1>1 DEF Calls, Points
<1> HIDE DEF r, i, text
<1>6. /\ call' \in [Callers -> Calls] /\ call'[c] = r
      /\ \A o \in Callers \ {c} : call'[o] = call[o]
  BY <1>4, <1>5, CallTyped DEF Durable
<1>7. /\ files \in [Store!Inodes -> Store!Texts] /\ tmp \in Store!Inodes
      /\ text \in Store!Texts
  BY <1>1, <1>2, <1>3 DEF Durable, Store!TypeOK, Store!Texts, Calls
<1>8. files' \in [Store!Inodes -> Store!Texts] /\ files'[tmp] = call[c].state
  BY <1>2, <1>3, <1>4, <1>7
<1>9. Store!TypeOK'
  BY <1>1, <1>6, <1>8 DEF Durable, Store!TypeOK, Calls, Points, Store!Texts, Store!Inodes
<1>10. Carried(c)'
  BY <1>1, <1>2, <1>5, <1>6, <1>8 DEF Durable, Carried, Saving
<1>11. Apart'
  BY <1>1 DEF Durable, Apart
<1>12. Intact'
  <2>1. primary # Store!None => files'[primary] = files[primary]
    BY <1>2, <1>4, <1>7 DEF Durable, Apart, Store!TypeOK
  <2> QED
    BY <1>1, <2>1 DEF Durable, Intact
<1> QED
  BY <1>1, <1>6, <1>9, <1>10, <1>11, <1>12, OneAtWork DEF Durable

\* The rename puts a text over the primary that has what was acknowledged before,
\* and the decision that is acknowledged by it.
LEMMA RenameStep ==
  ASSUME Durable, NEW c \in Callers, Store!RenameTmp(c)
  PROVE  Durable'
<1> DEFINE d == call[c].decision
           s == call[c].state
<1>1. /\ UNCHANGED <<files, snaps>> /\ call[c].pc = "rename" /\ call[c] \in Calls
  BY DEF Store!RenameTmp, Durable, Store!TypeOK, Calls, Points
<1>2. /\ tmp # Store!None /\ files[tmp] = s /\ s \subseteq Decisions
      /\ acked \subseteq s /\ (d \in s \/ acked = {})
  BY <1>1 DEF Durable, Carried, Saving, Calls
<1>3. primary' = tmp /\ tmp' = Store!None /\ Store!Saved(c)
  BY <1>2 DEF Store!RenameTmp
<1>4. /\ call' \in [Callers -> Calls] /\ returned' \subseteq Decisions
      /\ \A o \in Callers \ {c} : call'[o] = call[o]
      /\ acked' \subseteq s /\ Carried(c)'
  <2>1. CASE d \in s
    <3>1. Store!Idle \in Calls
      BY DEF Calls, Points, Store!Idle, Store!Empty, Store!None
    <3>2. acked' = acked \cup {d} /\ call' = [call EXCEPT ![c] = Store!Idle] /\ returned' = returned
      BY <1>3, <2>1 DEF Store!Saved
    <3>3. /\ call' \in [Callers -> Calls] /\ call'[c] = Store!Idle
          /\ \A o \in Callers \ {c} : call'[o] = call[o]
      BY <3>1, <3>2, CallTyped DEF Durable
    <3>4. Carried(c)'
      BY <3>3 DEF Carried, Saving, Store!Idle
    <3> QED
      BY <1>2, <2>1, <3>2, <3>3, <3>4 DEF Durable, Store!TypeOK
  <2>2. CASE d \notin s
    <3>1. Store!Loaded(c, Store!Empty) /\ acked' = {}
      BY <1>2, <1>3, <2>2 DEF Store!Saved
    <3>2. Store!Empty \in SUBSET Decisions
      BY DEF Store!Empty
    <3> QED
      BY <3>1, <3>2, LoadedTyped DEF Durable, Carried, Saving
  <2> QED
    BY <2>1, <2>2
<1> HIDE DEF d, s
<1>5. Store!TypeOK'
  BY <1>1, <1>2, <1>3, <1>4 DEF Durable, Store!TypeOK, Calls, Points, Store!Texts, Store!Inodes
<1>6. Apart'
  BY <1>3 DEF Apart
<1>7. Intact'
  BY <1>1, <1>2, <1>3, <1>4, TornIsNoText DEF Intact
<1> QED
  BY <1>1, <1>4, <1>5, <1>6, <1>7, OneAtWork DEF Durable

LEMMA UnlinkStep ==
  ASSUME Durable, NEW c \in Callers, Store!UnlinkTmp(c)
  PROVE  Durable'
<1>1. /\ UNCHANGED <<files, primary, snaps, acked, returned>> /\ call[c].pc = "unlink"
      /\ tmp' = Store!None /\ call' = [call EXCEPT ![c] = Store!Idle]
  BY DEF Store!UnlinkTmp
<1>2. Store!Idle \in Calls
  BY DEF Calls, Points, Store!Idle, Store!Empty, Store!None
<1>3. /\ call' \in [Callers -> Calls] /\ call'[c] = Store!Idle
      /\ \A o \in Callers \ {c} : call'[o] = call[o]
  BY <1>1, <1>2, CallTyped DEF Durable
<1>4. Store!TypeOK'
  BY <1>1, <1>3 DEF Durable, Store!TypeOK, Calls, Points, Store!Texts, Store!Inodes, Store!None
<1>5. Carried(c)'
  BY <1>3 DEF Carried, Saving, Store!Idle
<1>6. Apart' /\ Intact'
  BY <1>1 DEF Durable, Apart, Intact
<1> QED
  BY <1>1, <1>3, <1>4, <1>5, <1>6, OneAtWork DEF Durable

\* The process dies: what is under the primary path stays.
LEMMA DeathStep ==
  ASSUME Durable, Store!Crash
  PROVE  Durable'
<1>1. UNCHANGED <<files, primary, tmp, snaps, acked, returned>>
      /\ call' = [c \in Callers |-> Store!Idle]
  BY DEF Store!Crash
<1>2. Store!Idle \in Calls
  BY DEF Calls, Points, Store!Idle, Store!Empty, Store!None
<1>3. Store!TypeOK'
  BY <1>1, <1>2 DEF Durable, Store!TypeOK, Calls, Points, Store!Texts, Store!Inodes
<1>4. Alone' /\ \A c \in Callers : Carried(c)'
  BY <1>1 DEF Alone, Carried, Saving, Store!Idle
<1> QED
  BY <1>1, <1>3, <1>4 DEF Durable, Apart, Intact

\* A damage from outside: nothing is promised of what was acknowledged before.
LEMMA CorruptStep ==
  ASSUME Durable, Store!Corrupt
  PROVE  Durable'
<1>1. /\ UNCHANGED <<primary, tmp, snaps, call>> /\ acked' = {} /\ returned' = {}
      /\ files' = [files EXCEPT ![primary] = Store!Torn]
      /\ \A c \in Callers : call[c].pc = "idle"
  BY DEF Store!Corrupt
<1>2. files' \in [Store!Inodes -> Store!Texts]
  BY <1>1 DEF Durable, Store!TypeOK, Store!Texts
<1>3. Store!TypeOK'
  BY <1>1, <1>2 DEF Durable, Store!TypeOK, Store!Texts, Store!Inodes
<1>4. \A c \in Callers : Carried(c)'
  BY <1>1 DEF Carried, Saving
<1> QED
  BY <1>1, <1>3, <1>4 DEF Durable, Alone, Apart, Intact

LEMMA DurableStep ==
  ASSUME Durable, Store!Next \/ UNCHANGED svars
  PROVE  Durable'
<1>1. CASE UNCHANGED svars
  BY <1>1 DEF svars, Durable, Store!TypeOK, Store!Texts, Store!Inodes, Alone, Carried, Saving,
              Apart, Intact
<1>2. CASE Store!Crash
  BY <1>2, DeathStep
<1>3. CASE Store!Corrupt
  BY <1>3, CorruptStep
<1>4. ASSUME NEW c \in Callers, Store!Step(c) PROVE Durable'
  BY <1>4, StartStep, ReadStep, QuarantineStep, RecoverStep, BeginSnapshotStep, EndSnapshotStep,
     OpenStep, WriteStep, RenameStep, UnlinkStep DEF Store!Step
<1> QED
  BY <1>1, <1>2, <1>3, <1>4 DEF Store!Next

\* An acknowledged decision is in what every later load returns, whatever step of a
\* save the process dies in, until the primary is damaged from outside.
THEOREM AcknowledgedSurvives == Spec => []AcknowledgedKept
<1> DEFINE Inv == part = "store" => Durable
<1>1. Init => Inv
  BY DurableInit DEF Init
<1>2. Inv /\ [Next]_<<part, svars, gvars, evars, dvars>> => Inv'
  <2> SUFFICES ASSUME Inv, [Next]_<<part, svars, gvars, evars, dvars>>, part' = "store"
               PROVE  Durable'
    OBVIOUS
  <2>1. part = "store" /\ (Store!Next \/ UNCHANGED svars)
    BY DEF Next
  <2> QED
    BY <2>1, DurableStep
<1>3. Inv => AcknowledgedKept
  BY DEF Durable, Intact, AcknowledgedKept, Store!AcknowledgedKept, Store!NextLoad, Store!None
<1> QED
  BY <1>1, <1>2, <1>3, PTL DEF Spec

-----------------------------------------------------------------------------
(* The windows of the daily cycle                                           *)

\* The constants are as StrategyGovernance assumes them.
LEMMA CyclesAssumed == Day \in Nat /\ Day # 0 /\ MaxTime \in Nat
BY LearningAssumption DEF Cycles!GovernanceAssumption

Documents == [completed : Int, learned : [Cycles!Times -> Nat]]

\* A learning state has learned no trade twice, and none that is finalized only after
\* the time it calls completed: the next window begins there.
Honest(d, now) ==
  /\ d \in Documents /\ -1 <= d.completed /\ d.completed <= now
  /\ \A t \in Cycles!Times :
       d.learned[t] = 0 \/ (d.learned[t] = 1 /\ t < d.completed)

\* What a cycle at work was begun with, and what it is about to save.
Working(c, now) ==
  \/ c = Cycles!Idle
  \/ /\ c = [pc |-> "load", now |-> c.now, prior |-> c.prior]
     /\ c.now \in Nat /\ c.now <= now /\ Honest(c.prior, now) /\ c.prior.completed < c.now
  \/ /\ c = [pc |-> "govern", now |-> c.now, prior |-> c.prior, next |-> c.next]
     /\ Honest(c.prior, now) /\ Honest(c.next, now)
  \/ /\ c = [pc |-> c.pc, now |-> c.now, prior |-> c.prior, next |-> c.next,
             registry |-> c.registry]
     /\ c.pc \in {"learn", "register", "report"}
     /\ Honest(c.prior, now) /\ Honest(c.next, now)

Windowed ==
  /\ clock \in Nat /\ Honest(learning, clock)
  /\ cycle = [p \in Processes |-> cycle[p]]
  /\ \A p \in Processes : Working(cycle[p], clock)

LEMMA WindowedInit == Cycles!Init => Windowed
<1> SUFFICES ASSUME Cycles!Init PROVE Windowed
  OBVIOUS
<1>1. clock \in Nat /\ learning = [completed |-> -1, learned |-> [t \in Cycles!Times |-> 0]]
  BY CyclesAssumed DEF Cycles!Init, Cycles!Never
<1>2. learning.learned \in [Cycles!Times -> Nat] /\ \A t \in Cycles!Times : learning.learned[t] = 0
  BY <1>1
<1>3. Honest(learning, clock)
  BY <1>1, <1>2 DEF Honest, Documents
<1>4. \A p \in Processes : cycle[p] = Cycles!Idle
  BY DEF Cycles!Init
<1> QED
  BY <1>1, <1>3, <1>4 DEF Windowed, Working, Cycles!Init

\* Time only helps.
LEMMA HonestLater ==
  ASSUME NEW d, NEW now \in Nat, NEW later \in Nat, now <= later, Honest(d, now)
  PROVE  Honest(d, later)
BY DEF Honest, Documents

LEMMA WorkingLater ==
  ASSUME NEW c, NEW now \in Nat, NEW later \in Nat, now <= later, Working(c, now)
  PROVE  Working(c, later)
<1>1. CASE /\ c = [pc |-> "load", now |-> c.now, prior |-> c.prior]
           /\ c.now \in Nat /\ c.now <= now /\ Honest(c.prior, now)
           /\ c.prior.completed < c.now
  <2>1. c.now <= later
    BY <1>1
  <2> QED
    BY <1>1, <2>1, HonestLater DEF Working
<1>2. CASE Honest(c.prior, now) /\ Honest(c.next, now)
  BY <1>2, HonestLater DEF Working
<1> QED
  BY <1>1, <1>2 DEF Working

\* A window begins where the last one ended.
LEMMA WindowIsNew ==
  ASSUME NEW c, NEW now \in Nat, NEW prior, c = Cycles!Window(prior.completed, now),
         Honest(prior, clock), clock \in Nat, now <= clock, prior.completed < now
  PROVE  \A t \in Cycles!Times : t \in c => prior.learned[t] = 0 /\ t < clock
<1> SUFFICES ASSUME NEW t \in Cycles!Times, t \in c PROVE prior.learned[t] = 0 /\ t < clock
  OBVIOUS
<1>1. t \in Nat /\ prior.completed \in Int /\ Day \in Nat
  BY CyclesAssumed DEF Cycles!Times, Honest, Documents
<1>2. CASE prior.completed = -1
  <2>1. t \in now - Day .. now - 1
    BY <1>2 DEF Cycles!Window, Cycles!Never
  <2> QED
    BY <1>1, <1>2, <2>1 DEF Honest
<1>3. CASE prior.completed # -1
  <2>1. t \in prior.completed .. now - 1
    BY <1>1, <1>3 DEF Cycles!Window, Cycles!Never
  <2> QED
    BY <1>1, <2>1 DEF Honest
<1> QED
  BY <1>2, <1>3

\* One process's cycle moves.
LEMMA OneCycle ==
  ASSUME Windowed, NEW p \in Processes, NEW r, cycle' = [cycle EXCEPT ![p] = r],
         UNCHANGED clock, Honest(learning', clock),
         Working(r, clock)
  PROVE  Windowed'
<1>1. cycle' = [q \in Processes |-> cycle'[q]] /\ cycle'[p] = r
      /\ \A q \in Processes \ {p} : cycle'[q] = cycle[q]
  BY DEF Windowed
<1>2. \A q \in Processes : Working(cycle'[q], clock)
  BY <1>1 DEF Windowed
<1> QED
  BY <1>1, <1>2 DEF Windowed

LEMMA WindowedStep ==
  ASSUME Windowed, Cycles!Next \/ UNCHANGED gvars
  PROVE  Windowed'
<1>1. CASE UNCHANGED gvars
  BY <1>1 DEF gvars, Windowed
<1>2. CASE Cycles!Tick
  <2>1. clock' = clock + 1 /\ UNCHANGED <<learning, cycle>> /\ clock \in Nat
    BY <1>2 DEF Cycles!Tick, Windowed
  <2>2. Honest(learning', clock')
    BY <2>1, HonestLater DEF Windowed
  <2>3. \A p \in Processes : Working(cycle'[p], clock')
    BY <2>1, WorkingLater DEF Windowed
  <2> QED
    BY <2>1, <2>2, <2>3 DEF Windowed
<1>3. CASE Cycles!ChangeVersions
  BY <1>3 DEF Cycles!ChangeVersions, Windowed
<1>4. ASSUME NEW p \in Processes, Cycles!Begin(p) PROVE Windowed'
  <2> DEFINE r == [pc |-> "load", now |-> clock, prior |-> learning]
  <2>1. cycle' = [cycle EXCEPT ![p] = r] /\ UNCHANGED <<learning, clock>>
    BY <1>4 DEF Cycles!Begin
  <2>2. learning.completed < clock
    <3>1. CASE Cycles!Due
      BY <3>1, CyclesAssumed DEF Cycles!Due, Cycles!Never, Windowed, Honest, Documents
    <3>2. CASE ~Cycles!Due
      BY <1>4, <3>2 DEF Cycles!Begin
    <3> QED
      BY <3>1, <3>2
  <2>3. Working(r, clock)
    BY <2>2 DEF Working, Windowed
  <2> HIDE DEF r
  <2> QED
    BY <2>1, <2>3, OneCycle DEF Windowed
<1>5. ASSUME NEW p \in Processes, Cycles!LoadSamples(p) PROVE Windowed'
  <2> DEFINE c == cycle[p]
             samples == Cycles!Window(c.prior.completed, c.now) \cap Cycles!Times
             next == [completed |-> clock,
                      learned |-> [t \in Cycles!Times |->
                        c.prior.learned[t] + (IF t \in samples THEN 1 ELSE 0)]]
             r == [pc |-> "govern", now |-> c.now, prior |-> c.prior, next |-> next]
  <2>1. cycle' = [cycle EXCEPT ![p] = r] /\ UNCHANGED <<learning, clock>> /\ c.pc = "load"
    BY <1>5 DEF Cycles!LoadSamples
  <2>2. /\ c.now \in Nat /\ c.now <= clock /\ Honest(c.prior, clock)
        /\ c.prior.completed < c.now /\ clock \in Nat
    BY <2>1 DEF Windowed, Working, Cycles!Idle
  <2>3. \A t \in samples : c.prior.learned[t] = 0 /\ t < clock
    BY <2>2, WindowIsNew
  <2> HIDE DEF samples, c
  <2>4. next.completed = clock /\ \A t \in Cycles!Times :
          next.learned[t] = c.prior.learned[t] + (IF t \in samples THEN 1 ELSE 0)
    OBVIOUS
  <2>5. \A t \in Cycles!Times : c.prior.learned[t] \in Nat
    BY <2>2 DEF Honest, Documents
  <2>6. next \in Documents
    BY <2>2, <2>5 DEF Documents
  <2>7. ASSUME NEW t \in Cycles!Times
        PROVE  next.learned[t] = 0 \/ (next.learned[t] = 1 /\ t < next.completed)
    <3> HIDE DEF next
    <3>1. t \in Int /\ c.prior.completed \in Int /\ c.prior.completed <= clock
      BY <2>2 DEF Cycles!Times, Honest, Documents
    <3>2. CASE t \in samples
      BY <2>3, <2>4, <3>2
    <3>3. CASE t \notin samples
      BY <2>2, <2>4, <2>5, <3>1, <3>3 DEF Honest
    <3> QED
      BY <3>2, <3>3
  <2> HIDE DEF next
  <2>8. Honest(next, clock)
    BY <2>2, <2>4, <2>6, <2>7 DEF Honest
  <2>9. Working(r, clock)
    BY <2>2, <2>8 DEF Working
  <2> HIDE DEF r
  <2> QED
    BY <2>1, <2>9, OneCycle DEF Windowed
<1>6. ASSUME NEW p \in Processes, Cycles!Govern(p) PROVE Windowed'
  <2>1. PICK g : cycle' = [cycle EXCEPT ![p] =
                   [pc |-> "learn", now |-> @.now, prior |-> @.prior, next |-> @.next,
                    registry |-> g]]
    BY <1>6 DEF Cycles!Govern
  <2> DEFINE c == cycle[p]
             r == [pc |-> "learn", now |-> c.now, prior |-> c.prior, next |-> c.next,
                   registry |-> g]
  <2>2. cycle' = [cycle EXCEPT ![p] = r]
    BY <2>1 DEF Windowed
  <2>3. c.pc = "govern" /\ UNCHANGED <<learning, clock>>
    BY <1>6 DEF Cycles!Govern
  <2>4. Honest(c.prior, clock) /\ Honest(c.next, clock)
    BY <2>3 DEF Windowed, Working, Cycles!Idle
  <2>5. Working(r, clock)
    BY <2>4 DEF Working
  <2> HIDE DEF r
  <2> QED
    BY <2>2, <2>3, <2>5, OneCycle DEF Windowed
<1>7. ASSUME NEW p \in Processes, Cycles!SaveLearning(p) PROVE Windowed'
  <2> DEFINE c == cycle[p]
             r == [c EXCEPT !.pc = "register"]
  <2>1. /\ c.pc = "learn" /\ learning' = c.next /\ clock' = clock
        /\ cycle' = [cycle EXCEPT ![p] = r]
    BY <1>7 DEF Cycles!SaveLearning, Windowed
  <2>2. /\ c = [pc |-> c.pc, now |-> c.now, prior |-> c.prior, next |-> c.next,
                registry |-> c.registry]
        /\ Honest(c.prior, clock) /\ Honest(c.next, clock)
    BY <2>1 DEF Windowed, Working, Cycles!Idle
  <2> HIDE DEF c
  <2>3. r = [pc |-> "register", now |-> c.now, prior |-> c.prior, next |-> c.next,
             registry |-> c.registry]
    BY <2>2
  <2>4. Working(r, clock)
    BY <2>2, <2>3 DEF Working
  <2> HIDE DEF r
  <2> QED
    BY <2>1, <2>2, <2>4, OneCycle
<1>8. ASSUME NEW p \in Processes, Cycles!SaveRegistry(p) PROVE Windowed'
  <2> DEFINE c == cycle[p]
             r == [c EXCEPT !.pc = "report"]
  <2>1. c.pc = "register" /\ UNCHANGED <<learning, clock>> /\ cycle' = [cycle EXCEPT ![p] = r]
    BY <1>8 DEF Cycles!SaveRegistry, Windowed
  <2>2. /\ c = [pc |-> c.pc, now |-> c.now, prior |-> c.prior, next |-> c.next,
                registry |-> c.registry]
        /\ Honest(c.prior, clock) /\ Honest(c.next, clock)
    BY <2>1 DEF Windowed, Working, Cycles!Idle
  <2> HIDE DEF c
  <2>3. r = [pc |-> "report", now |-> c.now, prior |-> c.prior, next |-> c.next,
             registry |-> c.registry]
    BY <2>2
  <2>4. Working(r, clock)
    BY <2>2, <2>3 DEF Working
  <2> HIDE DEF r
  <2> QED
    BY <2>1, <2>4, OneCycle DEF Windowed
<1>9. ASSUME NEW p \in Processes, Cycles!Fail(p) PROVE Windowed'
  <2> DEFINE c == cycle[p]
             saved == [c.prior EXCEPT !.completed = clock]
  <2>1. /\ c.pc # "idle" /\ learning' = saved /\ clock' = clock
        /\ cycle' = [cycle EXCEPT ![p] = Cycles!Idle]
    BY <1>9 DEF Cycles!Fail
  <2>2. Honest(c.prior, clock) /\ clock \in Nat
    BY <2>1 DEF Windowed, Working, Cycles!Idle
  <2> HIDE DEF c
  <2>3. saved \in Documents /\ saved.completed = clock /\ saved.learned = c.prior.learned
    BY <2>2 DEF Honest, Documents
  <2> HIDE DEF saved
  <2>4. ASSUME NEW t \in Cycles!Times
        PROVE  saved.learned[t] = 0 \/ (saved.learned[t] = 1 /\ t < saved.completed)
    BY <2>2, <2>3 DEF Honest, Documents, Cycles!Times
  <2>5. Honest(saved, clock)
    BY <2>2, <2>3, <2>4 DEF Honest
  <2> QED
    BY <2>1, <2>5, OneCycle DEF Working
<1>10. ASSUME NEW p \in Processes, Cycles!Report(p) \/ Cycles!Crash(p) PROVE Windowed'
  <2>1. cycle' = [cycle EXCEPT ![p] = Cycles!Idle] /\ UNCHANGED <<learning, clock>>
    BY <1>10 DEF Cycles!Report, Cycles!Crash
  <2> QED
    BY <2>1, OneCycle DEF Windowed, Working
<1> QED
  BY <1>1, <1>2, <1>3, <1>4, <1>5, <1>6, <1>7, <1>8, <1>9, <1>10
     DEF Cycles!Next, Cycles!Step

\* No trade is learned from twice, whichever cycle fails, dies or runs beside another.
THEOREM TradesLearnedOnce == Spec => []LearnedOnce
<1> DEFINE Inv == part = "cycles" => Windowed
<1>1. Init => Inv
  BY WindowedInit DEF Init
<1>2. Inv /\ [Next]_<<part, svars, gvars, evars, dvars>> => Inv'
  <2> SUFFICES ASSUME Inv, [Next]_<<part, svars, gvars, evars, dvars>>, part' = "cycles"
               PROVE  Windowed'
    OBVIOUS
  <2>1. part = "cycles" /\ (Cycles!Next \/ UNCHANGED gvars)
    BY DEF Next
  <2> QED
    BY <2>1, WindowedStep
<1>3. Inv => LearnedOnce
  BY DEF Windowed, Honest, LearnedOnce, Cycles!LearnedOnce
<1> QED
  BY <1>1, <1>2, <1>3, PTL DEF Spec

-----------------------------------------------------------------------------
(* The execution policy of a context                                        *)

Recorded ==
  [n : Nat, makers : Nat, takers : Nat, makerFill : Int, takerFill : Int, slippage : Int,
   score : Int, cancel : Int, partial : Int, delay : Int, punished : BOOLEAN,
   health : Execution!Health]

Policies == {Execution!Proposed(r, m) : r \in Recorded, m \in {"taker_preferred", "maker_preferred", "balanced"}}

Averages == Int \X (Nat \ {0})

\* No average lies apart from itself.
LEMMA NotApart ==
  ASSUME NEW x \in Averages, NEW b \in Nat \ {0}
  PROVE  ~Execution!Apart(x, x, b)
<1> DEFINE total == x[1]
           weight == x[2]
<1>1. total \in Int /\ weight \in Nat /\ weight > 0
  BY DEF Averages
<1> HIDE DEF total, weight
<1>2. total * weight \in Int /\ b * weight \in Nat
  BY <1>1
<1>3. total * weight - total * weight = 0
  BY <1>2
<1>4. b * weight > 0
  BY <1>1
<1> DEFINE scaled == b * weight
<1>5. scaled \in Nat /\ scaled > 0
  BY <1>2, <1>4
<1> HIDE DEF scaled
<1>6. scaled * weight > 0
  BY <1>1, <1>5
<1>7. b * weight * weight > 0
  BY <1>6 DEF scaled
<1> DEFINE distance == total * weight - total * weight
           reach == b * weight * weight
<1>8. distance = 0 /\ reach > 0 /\ reach \in Int
  BY <1>1, <1>3, <1>5, <1>7 DEF scaled
<1> HIDE DEF distance, reach
<1>9. ~(distance >= reach \/ -distance >= reach)
  BY <1>8
<1> QED
  BY <1>9, Zenon DEF Execution!Apart, distance, reach, total, weight

\* Nothing proposed from a record differs materially from what is proposed from it.
LEMMA NoChange ==
  ASSUME NEW r \in Recorded, NEW m
  PROVE  ~Execution!MaterialChange(Execution!Proposed(r, m), Execution!Proposed(r, m))
<1>a. ASSUME NEW s \in Int, NEW n \in Nat
      PROVE  Execution!Average(s, n) \in Averages
  <2>1. CASE n = 0
    BY <2>1 DEF Execution!Average, Averages
  <2>2. CASE n # 0
    BY <2>2 DEF Execution!Average, Averages
  <2> QED
    BY <2>1, <2>2
<1> DEFINE p == Execution!Proposed(r, m)
<1>1. /\ p.makerFill \in Averages /\ p.takerFill \in Averages /\ p.slippage \in Averages
      /\ p.score \in Averages /\ p.cancel \in Averages /\ p.partial \in Averages
  BY <1>a DEF Execution!Proposed, Recorded
<1>2. p.delay \in Averages
  BY DEF Execution!Proposed, Execution!OrElse, Execution!Absent, Averages, Recorded
<1>3. /\ p = Execution!Proposed(r, m)
      /\ 2 \in Nat \ {0} /\ 5 \in Nat \ {0} /\ 10 \in Nat \ {0}
      /\ 20 \in Nat \ {0} /\ 50 \in Nat \ {0}
  OBVIOUS
<1> HIDE DEF p
<1>4. /\ ~Execution!Apart(p.makerFill, p.makerFill, 5)
      /\ ~Execution!Apart(p.takerFill, p.takerFill, 5)
      /\ ~Execution!Apart(p.delay, p.delay, 2)
      /\ ~Execution!Apart(p.slippage, p.slippage, 20)
      /\ ~Execution!Apart(p.score, p.score, 50)
      /\ ~Execution!Apart(p.cancel, p.cancel, 10)
      /\ ~Execution!Apart(p.partial, p.partial, 10)
  BY <1>1, <1>2, <1>3, NotApart, Zenon
<1>5. ~Execution!MaterialChange(p, p)
  BY <1>4, Zenon DEF Execution!MaterialChange
<1> QED
  BY <1>3, <1>5, Zenon

\* Health is what Healths lists.
LEMMA HealthNames ==
  {"healthy", "watch", "degraded", "quarantine_candidate"} \subseteq Execution!Health
BY DEF Execution!Health, Execution!Healths, Execution!ToSet

LEMMA WindowFigures ==
  \A name \in DOMAIN Windows : Execution!ExecutionWindow(Windows[name]) \in Execution!Figures
BY LearningAssumption DEF Execution!ExecutionAssumption

LEMMA MergedRecorded ==
  ASSUME NEW r \in Recorded, NEW w \in Execution!Figures
  PROVE  Execution!Merged(r, w) \in Recorded
<1>1. /\ w.n \in Nat /\ w.makers \in Nat /\ w.takers \in Nat /\ w.makerFill \in Int
      /\ w.takerFill \in Int /\ w.slippage \in Int /\ w.cancel \in Int /\ w.partial \in Int
      /\ w.delay \in Int /\ w.adverse.score \in Int /\ w.adverse.punished \in BOOLEAN
  BY DEF Execution!Figures
<1>2. /\ r.n \in Nat /\ r.makers \in Nat /\ r.takers \in Nat /\ r.makerFill \in Int
      /\ r.takerFill \in Int /\ r.slippage \in Int /\ r.cancel \in Int /\ r.partial \in Int
      /\ r.delay \in Int /\ r.score \in Int /\ r.punished \in BOOLEAN
  BY DEF Recorded
<1>3. r.n + w.n \in Nat /\ r.makers + w.makers \in Nat /\ r.takers + w.takers \in Nat
  BY <1>1, <1>2
<1>4. /\ r.makerFill + w.makerFill * w.makers \in Int
      /\ r.takerFill + w.takerFill * w.takers \in Int
      /\ r.slippage + w.slippage * w.n \in Int
      /\ r.score + w.adverse.score * w.n \in Int
      /\ r.cancel + w.cancel * w.n \in Int
      /\ r.partial + w.partial * w.n \in Int
  BY <1>1, <1>2
<1>5. Execution!MergedDelay(r.delay, r.n, w.delay, w.n) \in Int
  <2>1. CASE r.n # 0
    <3>1. r.n + w.n > 0 /\ r.delay * r.n + w.delay * w.n \in Int
      BY <1>1, <1>2, <2>1
    <3>2. (r.delay * r.n + w.delay * w.n) \div (r.n + w.n) \in Int
      BY <1>3, <3>1
    <3> QED
      BY <1>1, <1>2, <3>2 DEF Execution!MergedDelay
  <2>2. CASE r.n = 0
    BY <1>1, <1>2, <2>2 DEF Execution!MergedDelay
  <2> QED
    BY <2>1, <2>2
<1>6. (r.punished \/ w.adverse.punished) \in BOOLEAN
  OBVIOUS
<1>7. Execution!ExecutionHealthOf(w) \in Execution!Health
  BY HealthNames DEF Execution!ExecutionHealthOf
<1> QED
  BY <1>3, <1>4, <1>5, <1>6, <1>7 DEF Execution!Merged, Execution!MergedOver, Recorded

\* A context's record has its type; its policy is one that was proposed, and what has
\* been observed since is not materially different.
Followed(c) ==
  /\ context[c] \in Recorded
  /\ policies[c] \in Seq(Policies) /\ active[c] \in 0 .. Len(policies[c])
  /\ active[c] # 0 =>
       ~Execution!MaterialChange(policies[c][active[c]],
                                 Execution!Proposed(context[c], policies[c][active[c]].mode))

InForce ==
  /\ context = [c \in Contexts |-> context[c]] /\ policies = [c \in Contexts |-> policies[c]]
  /\ active = [c \in Contexts |-> active[c]]
  /\ \A c \in Contexts : Followed(c)

LEMMA InForceInit == Execution!Init => InForce
<1> SUFFICES ASSUME Execution!Init, NEW c \in Contexts PROVE Followed(c)
  BY DEF Execution!Init, InForce
<1>1. context[c] = Execution!FreshContext /\ policies[c] = <<>> /\ active[c] = 0
  BY DEF Execution!Init
<1>2. Execution!FreshContext \in Recorded
  BY HealthNames DEF Execution!FreshContext, Recorded, Execution!Absent
<1> QED
  BY <1>1, <1>2 DEF Followed

LEMMA UpdateStep ==
  ASSUME InForce, NEW c \in Contexts, Execution!Update(c)
  PROVE  InForce'
<1>1. PICK name \in DOMAIN Windows :
        LET w == Execution!ExecutionWindow(Windows[name])
            next == Execution!Merged(context[c], w)
        IN  /\ context' = [context EXCEPT ![c] = next]
            /\ Execution!CreateVersion(c, Execution!Proposed(next, Execution!ExecutionMode(w)))
  BY DEF Execution!Update
<1> DEFINE w == Execution!ExecutionWindow(Windows[name])
           next == Execution!Merged(context[c], w)
           mode == Execution!ExecutionMode(w)
           proposed == Execution!Proposed(next, mode)
           current == policies[c][active[c]]
<1>2. context' = [context EXCEPT ![c] = next] /\ Execution!CreateVersion(c, proposed)
  BY <1>1
<1>3. next \in Recorded
  BY WindowFigures, MergedRecorded DEF InForce, Followed
<1>4. mode \in {"taker_preferred", "maker_preferred", "balanced"}
  BY DEF Execution!ExecutionMode
<1> HIDE DEF w, mode, next
<1>5a. proposed \in Policies
  BY <1>3, <1>4, SMT DEF Policies
<1>5. proposed \in Policies /\ proposed.mode = mode
  BY <1>5a DEF Execution!Proposed
<1>6. context' = [d \in Contexts |-> context'[d]] /\ context'[c] = next
      /\ \A d \in Contexts \ {c} : context'[d] = context[d]
  BY <1>2 DEF InForce
<1>7. policies[c] \in Seq(Policies) /\ active[c] \in 0 .. Len(policies[c])
  BY DEF InForce, Followed
<1>8. CASE active[c] # 0 /\ ~Execution!MaterialChange(current, proposed)
  <2>1. UNCHANGED <<policies, active>>
    BY <1>2, <1>8 DEF Execution!CreateVersion
  <2>2. current.mode = mode
    BY <1>5, <1>8 DEF Execution!MaterialChange
  <2>3. Followed(c)'
    BY <1>3, <1>6, <1>7, <1>8, <2>1, <2>2 DEF Followed
  <2>4. \A d \in Contexts \ {c} : Followed(d)'
    BY <1>6, <2>1 DEF InForce, Followed
  <2> QED
    BY <1>6, <2>1, <2>3, <2>4 DEF InForce
<1>9. CASE ~(active[c] # 0 /\ ~Execution!MaterialChange(current, proposed))
  <2> HIDE DEF proposed
  <2>1. /\ policies' = [policies EXCEPT ![c] = Append(@, proposed)]
        /\ active' = [active EXCEPT ![c] = Len(policies[c]) + 1]
    BY <1>2, <1>9 DEF Execution!CreateVersion
  <2>2. /\ policies' = [d \in Contexts |-> policies'[d]] /\ active' = [d \in Contexts |-> active'[d]]
        /\ policies'[c] = Append(policies[c], proposed) /\ active'[c] = Len(policies[c]) + 1
        /\ \A d \in Contexts \ {c} : policies'[d] = policies[d] /\ active'[d] = active[d]
    BY <2>1 DEF InForce
  <2>3. /\ policies'[c] \in Seq(Policies) /\ active'[c] \in 0 .. Len(policies'[c])
        /\ policies'[c][active'[c]] = proposed
    BY <1>5, <1>7, <2>2
  <2>4. ~Execution!MaterialChange(proposed, Execution!Proposed(next, proposed.mode))
    BY <1>3, <1>5, NoChange DEF proposed
  <2>5. Followed(c)'
    BY <1>3, <1>6, <2>3, <2>4 DEF Followed
  <2>6. \A d \in Contexts \ {c} : Followed(d)'
    BY <1>6, <2>2 DEF InForce, Followed
  <2> QED
    BY <1>6, <2>2, <2>5, <2>6 DEF InForce
<1> QED
  BY <1>8, <1>9

\* However slowly the averages drift over the cycles, the version in force never assumes
\* anything materially different from what has been observed.
THEOREM PolicyTracks == Spec => []PolicyFollowsEvidence
<1>1. Init => InForce
  BY InForceInit DEF Init
<1>2. InForce /\ [Next]_<<part, svars, gvars, evars, dvars>> => InForce'
  <2> SUFFICES ASSUME InForce, [Next]_<<part, svars, gvars, evars, dvars>> PROVE InForce'
    OBVIOUS
  <2>1. Execution!Next \/ UNCHANGED evars
    BY DEF Next
  <2>2. CASE UNCHANGED evars
    BY <2>2 DEF evars, InForce, Followed
  <2>3. CASE Execution!Next
    BY <2>3, UpdateStep DEF Execution!Next
  <2> QED
    BY <2>1, <2>2, <2>3
<1>3. InForce => PolicyFollowsEvidence
  BY DEF InForce, Followed, PolicyFollowsEvidence, Execution!PolicyFollowsEvidence
<1> QED
  BY <1>1, <1>2, <1>3, PTL DEF Spec

-----------------------------------------------------------------------------
(* A damaged document                                                       *)

\* After a load the parts of a document agree, whatever was damaged.
THEOREM PartsAgreeAfterLoad == Spec => PartsAgree
<1> DEFINE Inv == contexts \in [Ids -> Document!Owners]
<1>1. Init => Inv
  BY DEF Init, Document!Init
<1>2. Inv /\ [Next]_<<part, svars, gvars, evars, dvars>> => Inv'
  BY DEF Next, dvars, Document!Next, Document!DamageField, Document!DamageRelation, Document!Load
<1>3. Inv /\ [Next]_<<part, svars, gvars, evars, dvars>> => [Document!Agreed]_dvars
  <2> SUFFICES ASSUME Inv, Document!Next PROVE Document!Agreed
    BY DEF Next
  <2>1. CASE Document!DamageField \/ Document!DamageRelation
    BY <2>1 DEF Document!DamageField, Document!DamageRelation, Document!Agreed
  <2>2. CASE Document!Load
    <3>1. index' \subseteq decisions'
      BY <2>2 DEF Document!Load, Document!NormalizeIndex
    <3>2. ASSUME NEW i \in Ids PROVE i \in listed'[contexts[i]]
      BY <2>2 DEF Document!Load, Document!Listed
    <3> QED
      BY <3>1, <3>2 DEF Document!Agreed
  <2> QED
    BY <2>1, <2>2 DEF Document!Next
<1> QED
  BY <1>1, <1>2, <1>3, PTL DEF Spec, PartsAgree

-----------------------------------------------------------------------------
(* The rollout of strategy variants.  The rules are the same for both        *)
(* instances of StrategyGovernance, whatever the set V of the variants.      *)

Statuses == {"none", "shadow", "canary", "incumbent", "probation", "quarantined", "retired"}

Records == [status : Statuses, stage : Cycles!Stages, alloc : 0 .. 100]

Rollouts(V) == [incumbent : V, challenger : V, stage : Cycles!Stages]

Registries(V) ==
  [incumbent : V \cup {0}, active : Rollouts(V) \cup {Cycles!NoRollout},
   high : SUBSET V, retired : SUBSET V, variants : [V -> Records]]

\* The whole of the capital is the incumbent's, and a rollout is one of the incumbent
\* or began with it.
Sane(r, V) ==
  /\ r \in Registries(V)
  /\ r.active # Cycles!NoRollout => r.incumbent \in {r.active.incumbent, r.active.challenger}
  /\ \A v \in V : r.variants[v].alloc = 100 => v = r.incumbent
  /\ r.incumbent = 0 => \A v \in V : r.variants[v].status = "none"

\* A variant that took none but the first rung, unless it is the incumbent.
Low(r, v) == r.variants[v].stage <= 1 \/ r.incumbent = v

LEMMA StagesAre == Cycles!Stages = 0 .. 4 /\ Cycles!Stages \subseteq Int
BY DEF Cycles!Stages, Cycles!ShadowOnly, Cycles!ScaledLive

LEMMA AllocationIs ==
  ASSUME NEW s \in Cycles!Stages
  PROVE  Cycles!Allocation(s) \in 0 .. 100 /\ (Cycles!Allocation(s) = 100 <=> s = 4)
BY StagesAre DEF Cycles!Allocation, Cycles!ScaledLive, Cycles!CautiousLive, Cycles!Canary

\* What the registry says once a variant was moved to a stage.
LEMMA PlacedIs ==
  ASSUME NEW V, NEW r \in Registries(V), NEW v \in V, NEW status \in Statuses,
         NEW s \in Cycles!Stages, NEW n, n = Cycles!Placed(r, v, status, s)
  PROVE  /\ n \in Registries(V)
         /\ n.incumbent = r.incumbent /\ n.active = r.active
         /\ n.high = r.high /\ n.retired = r.retired
         /\ n.variants[v].status = status /\ n.variants[v].stage = s
         /\ n.variants[v].alloc = 100 => s = 4
         /\ \A w \in V \ {v} : n.variants[w] = r.variants[w]
<1> DEFINE rec == [status |-> status, stage |-> s, alloc |-> Cycles!Allocation(s)]
<1>1. rec \in Records
  BY AllocationIs DEF Records
<1>2. n = [r EXCEPT !.variants = [r.variants EXCEPT ![v] = rec]]
  BY DEF Cycles!Placed
<1>3. rec.status = status /\ rec.stage = s /\ rec.alloc = Cycles!Allocation(s)
  OBVIOUS
<1> HIDE DEF rec
<1>4. /\ n.incumbent = r.incumbent /\ n.active = r.active /\ n.high = r.high
      /\ n.retired = r.retired /\ n.variants = [r.variants EXCEPT ![v] = rec]
  BY <1>2 DEF Registries
<1>5. r.variants \in [V -> Records]
  BY DEF Registries
<1>6. n.variants \in [V -> Records]
  BY <1>1, <1>4, <1>5
<1>7. n \in Registries(V)
  BY <1>2, <1>6 DEF Registries
<1>8. n.variants[v] = rec /\ \A w \in V \ {v} : n.variants[w] = r.variants[w]
  BY <1>4, <1>5
<1> QED
  BY <1>3, <1>4, <1>7, <1>8, AllocationIs

LEMMA NoRolloutIsNone ==
  ASSUME NEW V, V \subseteq Nat \ {0}, NEW a \in Rollouts(V)
  PROVE  a # Cycles!NoRollout /\ Cycles!NoRollout.challenger = 0
<1>1. a.challenger \in V /\ Cycles!NoRollout.challenger = 0
  BY DEF Rollouts, Cycles!NoRollout, Cycles!NoVariant
<1> QED
  BY <1>1

\* One variant was judged: it climbs a rung at most, and no other climbs.
JudgedTo(r, n, v, V) ==
  /\ Sane(n, V) /\ n.incumbent \in V
  /\ n.variants[v].stage <= r.variants[v].stage + 1
  /\ \A w \in V \ {v} :
       n.variants[w].stage <= r.variants[w].stage /\ (Low(r, w) => Low(n, w))

\* Without a rollout there is none after it, and the variant took no rung but the first.
Held(r, n, v) ==
  r.active = Cycles!NoRollout => n.active = Cycles!NoRollout /\ (Low(r, v) => Low(n, v))

\* A rollout that fits the incumbent.
Fits(a, r, V) ==
  /\ a \in Rollouts(V) \cup {Cycles!NoRollout}
  /\ a # Cycles!NoRollout => r.incumbent \in {a.incumbent, a.challenger}

\* A variant moved to a stage, and the rollout after it.
Moved(r, v, status, s, a) == [Cycles!Placed(r, v, status, s) EXCEPT !.active = a]

\* A variant moved to a stage below the last one, with whatever rollout fits.
LEMMA MovedIs ==
  ASSUME NEW V, V \subseteq Nat \ {0}, NEW r, Sane(r, V), r.incumbent \in V, NEW v \in V,
         NEW status \in Statuses, NEW s \in Cycles!Stages, s <= 3,
         s <= r.variants[v].stage + 1,
         NEW a, Fits(a, r, V), NEW n, n = Moved(r, v, status, s, a)
  PROVE  JudgedTo(r, n, v, V) /\ n.incumbent = r.incumbent /\ n.variants[v].stage = s
<1> DEFINE p == Cycles!Placed(r, v, status, s)
<1>1. r \in Registries(V)
  BY DEF Sane
<1>2. /\ p \in Registries(V) /\ p.incumbent = r.incumbent
      /\ p.variants[v].stage = s /\ (p.variants[v].alloc = 100 => s = 4)
      /\ \A w \in V \ {v} : p.variants[w] = r.variants[w]
  BY <1>1, PlacedIs
<1> HIDE DEF p
<1>3. n \in Registries(V) /\ n.active = a /\ n.variants = p.variants /\ n.incumbent = r.incumbent
  <2>1. n = [p EXCEPT !.active = a]
    BY DEF p, Moved
  <2> QED
    BY <1>2, <2>1 DEF Registries, Fits
<1>4. \A w \in V : n.variants[w].alloc = 100 => w = n.incumbent
  BY <1>2, <1>3, StagesAre DEF Sane
<1>5. r.incumbent # 0
  OBVIOUS
<1>6. Sane(n, V)
  BY <1>3, <1>4, <1>5 DEF Sane, Fits
<1>7. \A w \in V : r.variants[w].stage \in Int
  BY <1>1, StagesAre DEF Registries, Records
<1> QED
  BY <1>2, <1>3, <1>6, <1>7 DEF JudgedTo, Low

LEMMA MovedRollout ==
  ASSUME NEW V, NEW r \in Registries(V), NEW v \in V, NEW status \in Statuses,
         NEW s \in Cycles!Stages, NEW a, NEW n, n = Moved(r, v, status, s, a)
  PROVE  n.active = a /\ n.variants[v].stage = s
<1> DEFINE p == Cycles!Placed(r, v, status, s)
<1>1. p \in Registries(V) /\ p.variants[v].stage = s
  BY PlacedIs
<1>2. n = [p EXCEPT !.active = a]
  BY DEF Moved
<1> HIDE DEF p
<1> QED
  BY <1>1, <1>2 DEF Registries

LEMMA StagesMove ==
  ASSUME NEW s \in Cycles!Stages, NEW t \in Cycles!Stages
  PROVE  /\ Cycles!NextAllowedStage(s, t) \in Cycles!Stages
         /\ Cycles!NextAllowedStage(s, t) <= t /\ Cycles!NextAllowedStage(s, t) <= s + 1
         /\ Cycles!PreviousAllowedStage(s) \in Cycles!Stages /\ Cycles!PreviousAllowedStage(s) <= 3
         /\ Cycles!PreviousAllowedStage(s) <= s
         /\ Cycles!ProbationStage(s) \in Cycles!Stages /\ Cycles!ProbationStage(s) <= 3
         /\ Cycles!ProbationStage(s) <= s
BY StagesAre DEF Cycles!NextAllowedStage, Cycles!PreviousAllowedStage, Cycles!ProbationStage,
  Cycles!ShadowOnly, Cycles!CautiousLive, Cycles!ScaledLive

\* The fields of a sane registry.
LEMMA SaneFields ==
  ASSUME NEW V, V \subseteq Nat \ {0}, NEW r, Sane(r, V), NEW v \in V
  PROVE  /\ r.variants[v].stage \in Cycles!Stages /\ r.variants[v].status \in Statuses
         /\ r.active \in Rollouts(V) \cup {Cycles!NoRollout}
         /\ r.active # Cycles!NoRollout =>
              r.active.incumbent \in V /\ r.active.challenger \in V
         /\ Cycles!IsChallenger(r, v) => r.active # Cycles!NoRollout
<1>1. r.variants[v] \in Records /\ r.active \in Rollouts(V) \cup {Cycles!NoRollout}
  BY DEF Sane, Registries
<1>2. r.active # Cycles!NoRollout => r.active.incumbent \in V /\ r.active.challenger \in V
  BY <1>1 DEF Rollouts
<1>3. Cycles!IsChallenger(r, v) => r.active # Cycles!NoRollout
  BY DEF Cycles!IsChallenger, Cycles!NoRollout, Cycles!NoVariant
<1> QED
  BY <1>1, <1>2, <1>3 DEF Records

LEMMA ShadowIs ==
  ASSUME NEW V, V \subseteq Nat \ {0}, NEW r, Sane(r, V), r.incumbent \in V, NEW v \in V,
         NEW n, n = Cycles!BackToShadow(r, v)
  PROVE  JudgedTo(r, n, v, V) /\ Held(r, n, v)
<1> DEFINE a == IF Cycles!IsChallenger(r, v) THEN Cycles!NoRollout ELSE r.active
           status == IF r.variants[v].status = "retired" THEN "retired" ELSE "shadow"
<1>1. Fits(a, r, V)
  BY SaneFields DEF Sane, Fits
<1>2. 0 <= 3
  OBVIOUS
<1>3. status \in Statuses /\ 0 \in Cycles!Stages /\ 0 <= r.variants[v].stage + 1
  <2>1. r.variants[v].stage \in Cycles!Stages
    BY SaneFields
  <2> QED
    BY <2>1, StagesAre DEF Statuses
<1>4. n = Moved(r, v, status, 0, a)
  <2>1. Cycles!Placed(r, v, status, 0).active = r.active
    BY <1>3, PlacedIs DEF Sane
  <2> QED
    BY <2>1 DEF Moved, Cycles!BackToShadow, Cycles!ShadowOnly
<1>5. r.active = Cycles!NoRollout => a = Cycles!NoRollout
  OBVIOUS
<1> HIDE DEF a, status
<1>6. JudgedTo(r, n, v, V)
  BY <1>1, <1>2, <1>3, <1>4, MovedIs
<1>7. n.active = a /\ n.variants[v].stage = 0
  BY <1>3, <1>4, MovedRollout DEF Sane
<1> QED
  BY <1>5, <1>6, <1>7 DEF Held, Low

LEMMA QuarantineIs ==
  ASSUME NEW V, V \subseteq Nat \ {0}, NEW r, Sane(r, V), r.incumbent \in V, NEW v \in V,
         NEW n, n = Cycles!Quarantine(r, v)
  PROVE  JudgedTo(r, n, v, V) /\ Held(r, n, v)
<1>1. "quarantined" \in Statuses /\ 0 \in Cycles!Stages /\ 0 <= r.variants[v].stage + 1
  <2>1. r.variants[v].stage \in Cycles!Stages
    BY SaneFields
  <2> QED
    BY <2>1, StagesAre DEF Statuses
<1>2. n \in Registries(V) /\ n.active = r.active
  BY <1>1, PlacedIs DEF Sane, Cycles!Quarantine, Cycles!ShadowOnly
<1> DEFINE a == r.active
<1>3. n = [n EXCEPT !.active = a]
  BY <1>2 DEF Registries
<1>4. n = Moved(r, v, "quarantined", 0, a)
  BY <1>3 DEF Cycles!Quarantine, Cycles!ShadowOnly, Moved
<1>5. Fits(a, r, V)
  BY SaneFields DEF Sane, Fits
<1>6. 0 <= 3
  OBVIOUS
<1> HIDE DEF a
<1>7. JudgedTo(r, n, v, V)
  BY <1>1, <1>4, <1>5, <1>6, MovedIs
<1>8. n.variants[v].stage = 0
  BY <1>1, <1>4, MovedRollout DEF Sane
<1> QED
  BY <1>2, <1>7, <1>8 DEF Held, Low

LEMMA DemotionIs ==
  ASSUME NEW V, V \subseteq Nat \ {0}, NEW r, Sane(r, V), r.incumbent \in V, NEW v \in V,
         NEW action, NEW n, n = Cycles!ApplyLiveDemotion(r, v, action)
  PROVE  /\ JudgedTo(r, n, v, V) /\ n.incumbent = r.incumbent
         /\ n.variants[v].stage <= r.variants[v].stage /\ Held(r, n, v)
<1>1. /\ r \in Registries(V) /\ \A w \in V : r.variants[w].stage \in Int
      /\ r.variants[v].stage \in Cycles!Stages
  <2>1. \A w \in V : r.variants[w].stage \in Cycles!Stages
    BY SaneFields
  <2> QED
    BY <2>1, StagesAre DEF Sane
<1>2. CASE action = "none"
  <2>1. n = r
    BY <1>2 DEF Cycles!ApplyLiveDemotion
  <2> QED
    BY <1>1, <2>1 DEF JudgedTo, Held
<1>3. CASE action = "quarantine"
  <2> DEFINE a == IF Cycles!IsChallenger(r, v) THEN Cycles!NoRollout ELSE r.active
  <2>1. "quarantined" \in Statuses /\ 0 \in Cycles!Stages /\ 0 <= r.variants[v].stage + 1
    BY <1>1, StagesAre DEF Statuses
  <2>2. Cycles!Placed(r, v, "quarantined", 0).active = r.active
    BY <1>1, <2>1, PlacedIs
  <2>3. n = Moved(r, v, "quarantined", 0, a)
    BY <1>3, <2>2 DEF Cycles!ApplyLiveDemotion, Cycles!ShadowOnly, Moved
  <2>4. Fits(a, r, V)
    BY SaneFields DEF Sane, Fits
  <2>5. 0 <= 3
    OBVIOUS
  <2>7. r.active = Cycles!NoRollout => a = Cycles!NoRollout
    OBVIOUS
  <2> HIDE DEF a
  <2>6. JudgedTo(r, n, v, V) /\ n.incumbent = r.incumbent /\ n.variants[v].stage = 0
    BY <2>1, <2>3, <2>4, <2>5, MovedIs
  <2>8. n.active = a
    BY <1>1, <2>1, <2>3, MovedRollout
  <2> QED
    BY <1>1, <2>6, <2>7, <2>8, StagesAre DEF Held, Low
<1>4. CASE action \notin {"none", "quarantine"}
  <2> DEFINE s == IF action = "demote" THEN Cycles!PreviousAllowedStage(r.variants[v].stage)
                  ELSE Cycles!ProbationStage(r.variants[v].stage)
             a == IF Cycles!IsChallenger(r, v) THEN Cycles!Rollout(r.active.incumbent, v, s)
                  ELSE r.active
  <2>1. s \in Cycles!Stages /\ s <= 3 /\ s <= r.variants[v].stage
    BY <1>1, StagesMove
  <2>2. n = [Cycles!Placed(r, v, "probation", s) EXCEPT
               !.active = IF Cycles!IsChallenger(r, v)
                          THEN Cycles!Rollout(@.incumbent, v, s) ELSE @]
    BY <1>4 DEF Cycles!ApplyLiveDemotion
  <2> HIDE DEF s
  <2>3. "probation" \in Statuses
    BY DEF Statuses
  <2>4. Cycles!Placed(r, v, "probation", s).active = r.active
    BY <1>1, <2>1, <2>3, PlacedIs
  <2>5. n = Moved(r, v, "probation", s, a)
    BY <2>2, <2>4 DEF Moved
  <2>6. Fits(a, r, V)
    <3>1. CASE Cycles!IsChallenger(r, v)
      <4>1. /\ r.active # Cycles!NoRollout /\ r.active.incumbent \in V
            /\ r.active.challenger = v /\ r.incumbent \in {r.active.incumbent, v}
        BY <3>1, SaneFields DEF Sane, Cycles!IsChallenger
      <4>2. a = [incumbent |-> r.active.incumbent, challenger |-> v, stage |-> s]
        BY <3>1 DEF Cycles!Rollout
      <4> QED
        BY <2>1, <4>1, <4>2 DEF Rollouts, Fits
    <3>2. CASE ~Cycles!IsChallenger(r, v)
      BY <3>2, SaneFields DEF Sane, Fits
    <3> QED
      BY <3>1, <3>2
  <2>9. r.active = Cycles!NoRollout => a = Cycles!NoRollout
    BY SaneFields
  <2> HIDE DEF a
  <2>7. s <= r.variants[v].stage + 1
    BY <1>1, <2>1, StagesAre
  <2>8. JudgedTo(r, n, v, V) /\ n.incumbent = r.incumbent /\ n.variants[v].stage = s
    BY <2>1, <2>3, <2>5, <2>6, <2>7, MovedIs
  <2>10. n.active = a
    BY <1>1, <2>1, <2>3, <2>5, MovedRollout
  <2> QED
    BY <1>1, <2>1, <2>8, <2>9, <2>10, StagesAre DEF Held, Low
<1> QED
  BY <1>2, <1>3, <1>4

LEMMA CanaryIs ==
  ASSUME NEW V, V \subseteq Nat \ {0}, NEW r, Sane(r, V), r.incumbent \in V, NEW v \in V,
         NEW target \in Cycles!Stages, target <= 3,
         NEW n, n = Cycles!EnterCanary(r, v, target)
  PROVE  JudgedTo(r, n, v, V)
<1> DEFINE s == Cycles!NextAllowedStage(r.variants[v].stage, target)
           a == Cycles!Rollout(r.incumbent, v, s)
<1>1. r.variants[v].stage \in Cycles!Stages
  BY SaneFields
<1>2. s \in Cycles!Stages /\ s <= 3 /\ s <= r.variants[v].stage + 1
  BY <1>1, StagesMove, StagesAre
<1>3. n = Moved(r, v, "canary", s, a)
  BY DEF Cycles!EnterCanary, Moved
<1> HIDE DEF s
<1>4. Fits(a, r, V)
  BY <1>2 DEF Rollouts, Cycles!Rollout, Fits
<1>5. "canary" \in Statuses
  BY DEF Statuses
<1> HIDE DEF a
<1> QED
  BY <1>2, <1>3, <1>4, <1>5, MovedIs

\* The incumbent before goes to shadow: what it held of the capital is given up first.
LEMMA PromotionIs ==
  ASSUME NEW V, V \subseteq Nat \ {0}, NEW r, Sane(r, V), r.incumbent \in V, NEW v \in V,
         NEW n, n = Cycles!Promote(r, v, 4)
  PROVE  JudgedTo(r, n, v, V)
<1> DEFINE s == Cycles!NextAllowedStage(r.variants[v].stage, 4)
           b == Cycles!Placed(r, r.incumbent, "shadow", 0)
           p == Cycles!Placed(b, v, "incumbent", s)
           a == Cycles!Rollout(r.incumbent, v, s)
<1>1. r \in Registries(V) /\ \A w \in V : r.variants[w].stage \in Cycles!Stages
  BY SaneFields DEF Sane
<1>2. s \in Cycles!Stages /\ s <= r.variants[v].stage + 1
  BY <1>1, StagesMove, StagesAre
<1>3. n = [p EXCEPT !.incumbent = v, !.active = a]
  BY DEF Cycles!Promote, Cycles!NoVariant, Cycles!ShadowOnly
<1>4. a \in Rollouts(V) /\ a.challenger = v
  BY <1>2 DEF Rollouts, Cycles!Rollout
<1> HIDE DEF s, a
<1>5. "shadow" \in Statuses /\ "incumbent" \in Statuses /\ 0 \in Cycles!Stages
  BY StagesAre DEF Statuses
<1>6. /\ b \in Registries(V) /\ b.variants[r.incumbent].stage = 0
      /\ b.variants[r.incumbent].alloc # 100
      /\ \A w \in V \ {r.incumbent} : b.variants[w] = r.variants[w]
  BY <1>1, <1>5, PlacedIs
<1> HIDE DEF b
<1>7. /\ p \in Registries(V) /\ p.variants[v].stage = s
      /\ \A w \in V \ {v} : p.variants[w] = b.variants[w]
  BY <1>2, <1>5, <1>6, PlacedIs
<1> HIDE DEF p
<1>8. n \in Registries(V) /\ n.active = a /\ n.incumbent = v /\ n.variants = p.variants
  BY <1>3, <1>4, <1>7 DEF Registries
<1>9. ASSUME NEW w \in V, n.variants[w].alloc = 100 PROVE w = v
  <2>1. SUFFICES ASSUME w # v PROVE FALSE
    OBVIOUS
  <2>2. n.variants[w] = b.variants[w]
    BY <1>7, <1>8, <2>1
  <2>3. w # r.incumbent /\ b.variants[w] = r.variants[w]
    BY <1>6, <1>9, <2>2
  <2> QED
    BY <1>9, <2>2, <2>3 DEF Sane
<1>10. Sane(n, V)
  BY <1>4, <1>8, <1>9 DEF Sane
<1>11. ASSUME NEW w \in V \ {v}
       PROVE  n.variants[w].stage <= r.variants[w].stage /\ (Low(r, w) => Low(n, w))
  <2>1. n.variants[w] = b.variants[w] /\ r.variants[w].stage \in 0 .. 4
    BY <1>1, <1>7, <1>8, StagesAre
  <2>2. CASE w = r.incumbent
    <3>1. n.variants[w].stage = 0
      BY <1>6, <2>1, <2>2
    <3> QED
      BY <2>1, <3>1 DEF Low
  <2>3. CASE w # r.incumbent
    <3>1. n.variants[w] = r.variants[w]
      BY <1>6, <2>1, <2>3
    <3> QED
      BY <2>1, <2>3, <3>1 DEF Low
  <2> QED
    BY <2>2, <2>3
<1>12. n.variants[v].stage <= r.variants[v].stage + 1
  BY <1>2, <1>7, <1>8
<1> QED
  BY <1>8, <1>10, <1>11, <1>12 DEF JudgedTo

\* What a cycle may find of a variant.
Findings ==
  {Cycles!Found(name) : name \in {"untraded", "strong", "toxic", "unstable", "weak", "collapsed",
                                  "beaten", "decayed"}}

LEMMA FindingIs ==
  ASSUME NEW e \in Findings
  PROVE  /\ e.calibration = "healthy" /\ e.execution \in {"healthy", "quarantine_candidate"}
         /\ e.samples \in Int /\ e.retained \in Int /\ e.improvement = Cycles!Absent
BY DEF Findings, Cycles!Found, Cycles!Finding, Cycles!Absent

\* A challenger is promoted to the last stage only, and enters no other but as a canary.
LEMMA DecisionIs ==
  ASSUME NEW e \in Findings, NEW stage \in Cycles!Stages, NEW d,
         d = Cycles!PromotionDecision(e, stage, e.action, e.live, e.stable, e.growth)
  PROVE  \/ d.verdict \in {"reject", "shadow_only"}
         \/ d.verdict = "canary" /\ d.target \in Cycles!Stages /\ d.target <= 3 /\ e.live
         \/ d.verdict = "promote" /\ d.target = 4 /\ e.live
         \/ d.verdict = "rollback"
<1> DEFINE next == Cycles!NextRolloutStage(stage)
<1>1. next \in 1 .. 4
  BY StagesAre DEF Cycles!NextRolloutStage
<1>2. e.execution # "degraded" /\ e.calibration # "degraded"
  BY FindingIs
<1>3. \/ d.verdict \in {"reject", "shadow_only", "rollback"}
      \/ d = Cycles!Decision(IF next = 4 THEN "promote" ELSE "canary", next) /\ e.live
  <2> HIDE DEF next
  <2>1. \/ d.verdict \in {"reject", "shadow_only", "rollback"}
        \/ d = Cycles!Decision(IF Cycles!NextRolloutStage(stage) = 4 THEN "promote" ELSE "canary",
                               Cycles!NextRolloutStage(stage)) /\ e.live
    BY <1>2 DEF Cycles!PromotionDecision, Cycles!Decision
  <2> QED
    BY <2>1 DEF next
<1> HIDE DEF next
<1> QED
  BY <1>1, <1>3, StagesAre DEF Cycles!Decision

LEMMA JudgeIs ==
  ASSUME NEW V, V \subseteq Nat \ {0}, NEW r, Sane(r, V), r.incumbent \in V, NEW v \in V,
         NEW e \in Findings, NEW n, n = Cycles!Judge(r, v, e)
  PROVE  JudgedTo(r, n, v, V) /\ (~e.live => Held(r, n, v))
<1> DEFINE m == IF e.recorded THEN [r EXCEPT !.high = @ \cup {v}] ELSE r
           stage == IF Cycles!IsChallenger(r, v) THEN r.active.stage ELSE r.variants[v].stage
           d == Cycles!PromotionDecision(e, stage, e.action, e.live, e.stable, e.growth)
<1>1. /\ m \in Registries(V) /\ m.incumbent = r.incumbent /\ m.active = r.active
      /\ m.variants = r.variants
  BY DEF Sane, Registries
<1>2. stage \in Cycles!Stages
  <2>1. CASE Cycles!IsChallenger(r, v)
    <3>1. r.active \in Rollouts(V)
      BY <2>1, SaneFields
    <3> QED
      BY <2>1, <3>1 DEF Rollouts
  <2>2. CASE ~Cycles!IsChallenger(r, v)
    BY <2>2, SaneFields
  <2> QED
    BY <2>1, <2>2
<1>3. n = IF Cycles!QuarantineStatus(e.recorded, e.action, e) = "quarantined"
          THEN Cycles!Quarantine(m, v)
          ELSE Cycles!ApplyPromotion(m, v, d.verdict, d.target)
  BY DEF Cycles!Judge
<1> HIDE DEF m, stage
<1>4. Sane(m, V) /\ m.incumbent \in V
  BY <1>1 DEF Sane
<1>5. \/ d.verdict \in {"reject", "shadow_only"}
      \/ d.verdict = "canary" /\ d.target \in Cycles!Stages /\ d.target <= 3 /\ e.live
      \/ d.verdict = "promote" /\ d.target = 4 /\ e.live
      \/ d.verdict = "rollback"
  BY <1>2, DecisionIs
<1> HIDE DEF d
<1>6. JudgedTo(m, n, v, V) /\ (~e.live => Held(m, n, v))
  <2>1. CASE n = Cycles!Quarantine(m, v)
    BY <1>4, <2>1, QuarantineIs
  <2>2. CASE n = Cycles!ApplyPromotion(m, v, d.verdict, d.target)
    <3>1. CASE d.verdict \in {"reject", "shadow_only"}
      <4>1. n = Cycles!BackToShadow(m, v)
        BY <2>2, <3>1 DEF Cycles!ApplyPromotion
      <4> QED
        BY <1>4, <4>1, ShadowIs
    <3>2. CASE d.verdict = "canary" /\ d.target \in Cycles!Stages /\ d.target <= 3 /\ e.live
      <4>1. n = Cycles!EnterCanary(m, v, d.target)
        BY <2>2, <3>2 DEF Cycles!ApplyPromotion
      <4> QED
        BY <1>4, <3>2, <4>1, CanaryIs
    <3>3. CASE d.verdict = "promote" /\ d.target = 4 /\ e.live
      <4>1. n = Cycles!Promote(m, v, 4)
        BY <2>2, <3>3 DEF Cycles!ApplyPromotion
      <4> QED
        BY <1>4, <3>3, <4>1, PromotionIs
    <3>4. CASE d.verdict = "rollback"
      <4>1. n = Cycles!ApplyLiveDemotion(m, v, "demote")
        BY <2>2, <3>4 DEF Cycles!ApplyPromotion
      <4> QED
        BY <1>4, <4>1, DemotionIs
    <3> QED
      BY <1>5, <3>1, <3>2, <3>3, <3>4
  <2> QED
    BY <1>3, <2>1, <2>2
<1> QED
  BY <1>1, <1>6 DEF JudgedTo, Low, Held

LEMMA ShadowedIs ==
  ASSUME NEW V, NEW r \in Registries(V), NEW f \in V, NEW status \in Statuses,
         NEW n, n = Cycles!Placed(r, f, status, 0)
  PROVE  /\ n \in Registries(V) /\ n.variants[f].stage = 0 /\ n.variants[f].alloc # 100
         /\ \A w \in V \ {f} : n.variants[w] = r.variants[w]
<1> DEFINE s == 0
<1>1. s \in Cycles!Stages /\ n = Cycles!Placed(r, f, status, s) /\ s # 4 /\ s = 0
  BY StagesAre
<1> HIDE DEF s
<1>2. /\ n \in Registries(V) /\ n.variants[f].stage = s
      /\ (n.variants[f].alloc = 100 => s = 4)
      /\ \A w \in V \ {f} : n.variants[w] = r.variants[w]
  BY <1>1, PlacedIs
<1> QED
  BY <1>1, <1>2

\* The rollback controller gives everything to the incumbent of the rollout's start.
LEMMA RollbackIs ==
  ASSUME NEW V, V \subseteq Nat \ {0}, NEW r, Sane(r, V), r.incumbent \in V,
         r.active # Cycles!NoRollout, NEW n, n = Cycles!ApplyRollback(r)
  PROVE  /\ Sane(n, V) /\ n.incumbent \in V /\ n.active = Cycles!NoRollout
         /\ \A w \in V \ {n.incumbent} :
              n.variants[w].stage <= r.variants[w].stage /\ (Low(r, w) => Low(n, w))
<1> DEFINE f == r.active.challenger
           t == r.active.incumbent
           status == IF r.variants[f].status = "quarantined" THEN "quarantined" ELSE "shadow"
           b == Cycles!Placed(r, f, status, 0)
           p == Cycles!Placed(b, t, "incumbent", 4)
<1>1. r \in Registries(V) /\ r.active \in Rollouts(V) /\ r.incumbent \in {t, f}
  BY DEF Sane, Registries
<1>2. t \in V /\ f \in V /\ t # 0
  BY <1>1 DEF Rollouts
<1>3. n = [[p EXCEPT !.incumbent = t] EXCEPT !.active = Cycles!NoRollout]
  BY <1>2 DEF Cycles!ApplyRollback, Cycles!NoVariant, Cycles!ShadowOnly, Cycles!ScaledLive
<1>4. /\ status \in Statuses /\ "incumbent" \in Statuses /\ 0 \in Cycles!Stages
      /\ 4 \in Cycles!Stages
  BY StagesAre DEF Statuses
<1> HIDE DEF f, t, status
<1>5. /\ b \in Registries(V) /\ b.variants[f].stage = 0 /\ b.variants[f].alloc # 100
      /\ \A w \in V \ {f} : b.variants[w] = r.variants[w]
  <2>1. b = Cycles!Placed(r, f, status, 0)
    OBVIOUS
  <2> HIDE DEF b, p
  <2>2. r \in Registries(V)
    BY <1>1
  <2>3. f \in V
    BY <1>2
  <2>4. status \in Statuses
    BY <1>4
  <2> QED
    BY <2>2, <2>3, <2>4, <2>1, ShadowedIs
<1> HIDE DEF b
<1>6. p \in Registries(V) /\ \A w \in V \ {t} : p.variants[w] = b.variants[w]
  BY <1>2, <1>4, <1>5, PlacedIs
<1> HIDE DEF p
<1>7. /\ n \in Registries(V) /\ n.incumbent = t /\ n.active = Cycles!NoRollout
      /\ n.variants = p.variants
  BY <1>2, <1>3, <1>6 DEF Registries
<1>8. ASSUME NEW w \in V, w # t
      PROVE  /\ n.variants[w].alloc # 100
             /\ n.variants[w].stage <= r.variants[w].stage /\ (Low(r, w) => Low(n, w))
  <2>1. r.variants[w].stage \in 0 .. 4
    BY SaneFields, StagesAre
  <2>2. n.variants[w] = b.variants[w]
    BY <1>6, <1>7, <1>8
  <2>3. CASE w = f
    <3>1. n.variants[w].stage = 0 /\ n.variants[w].alloc # 100
      BY <1>5, <2>2, <2>3
    <3> QED
      BY <2>1, <3>1 DEF Low
  <2>4. CASE w # f
    <3>1. n.variants[w] = r.variants[w] /\ w # r.incumbent
      BY <1>1, <1>5, <1>8, <2>2, <2>4
    <3>2. n.variants[w].alloc # 100
      BY <3>1 DEF Sane
    <3> QED
      BY <2>1, <3>1, <3>2 DEF Low
  <2> QED
    BY <2>3, <2>4
<1>9. Sane(n, V)
  BY <1>2, <1>7, <1>8 DEF Sane
<1> QED
  BY <1>2, <1>7, <1>8, <1>9

-----------------------------------------------------------------------------
(* A cycle's verdict on the whole registry.                                  *)

\* The active version became the first incumbent, or nothing climbed.
SyncedTo(r, n, act, V) ==
  \E retired \in SUBSET V, placed \in [V -> Records] :
    /\ n = [r EXCEPT !.incumbent = IF r.incumbent = 0 THEN act ELSE r.incumbent,
                     !.retired = retired, !.variants = placed]
    /\ \A v \in V :
         \/ r.incumbent = 0 /\ v = act
            /\ placed[v] = [status |-> "incumbent", stage |-> 4, alloc |-> 100]
         \/ ~(r.incumbent = 0 /\ v = act)
            /\ \/ placed[v] = r.variants[v]
               \/ placed[v] = [status |-> "shadow", stage |-> 0, alloc |-> 0]
               \/ placed[v] = [status |-> "retired", stage |-> 0, alloc |-> 0]

\* Nothing climbs but the first incumbent.
Founded(r, n, V) ==
  /\ Sane(n, V) /\ n.incumbent \in V /\ n.active = r.active
  /\ \A v \in V : /\ Low(r, v) => Low(n, v)
                  /\ \/ n.variants[v].stage <= r.variants[v].stage
                     \/ r.variants[v].status = "none" /\ n.incumbent = v

LEMMA SyncIs ==
  ASSUME NEW V, V \subseteq Nat \ {0}, NEW r, Sane(r, V), NEW act \in V,
         NEW n, SyncedTo(r, n, act, V)
  PROVE  Founded(r, n, V)
<1>1. PICK retired \in SUBSET V, placed \in [V -> Records] :
        /\ n = [r EXCEPT !.incumbent = IF r.incumbent = 0 THEN act ELSE r.incumbent,
                         !.retired = retired, !.variants = placed]
        /\ \A v \in V :
             \/ r.incumbent = 0 /\ v = act
                /\ placed[v] = [status |-> "incumbent", stage |-> 4, alloc |-> 100]
             \/ ~(r.incumbent = 0 /\ v = act)
                /\ \/ placed[v] = r.variants[v]
                   \/ placed[v] = [status |-> "shadow", stage |-> 0, alloc |-> 0]
                   \/ placed[v] = [status |-> "retired", stage |-> 0, alloc |-> 0]
  BY DEF SyncedTo
<1>2. r \in Registries(V) /\ act # 0
  BY DEF Sane
<1> DEFINE i == IF r.incumbent = 0 THEN act ELSE r.incumbent
<1>3. i \in V
  BY <1>2 DEF Registries
<1>4. n = [r EXCEPT !.incumbent = i, !.retired = retired, !.variants = placed]
  BY <1>1
<1>5. r.incumbent = 0 => i = act
  OBVIOUS
<1>6. r.incumbent # 0 => i = r.incumbent
  OBVIOUS
<1> HIDE DEF i
<1>7. /\ n \in Registries(V) /\ n.incumbent = i /\ n.active = r.active
      /\ n.variants = placed
  BY <1>2, <1>3, <1>4 DEF Registries
<1>8. r.incumbent = 0 => r.active = Cycles!NoRollout
  <2> SUFFICES ASSUME r.incumbent = 0, r.active # Cycles!NoRollout PROVE FALSE
    OBVIOUS
  <2>1. r.active \in Rollouts(V) /\ r.incumbent \in {r.active.incumbent, r.active.challenger}
    BY <1>2 DEF Sane, Registries
  <2> QED
    BY <2>1 DEF Rollouts
<1>9. ASSUME NEW v \in V
      PROVE  /\ n.variants[v].alloc = 100 => v = i
             /\ Low(r, v) => Low(n, v)
             /\ \/ n.variants[v].stage <= r.variants[v].stage
                \/ r.variants[v].status = "none" /\ i = v
  <2>1. r.variants[v].stage \in 0 .. 4
    BY SaneFields, StagesAre
  <2>2. CASE r.incumbent = 0 /\ v = act
    <3>1. r.variants[v].status = "none"
      BY <2>2 DEF Sane
    <3> QED
      BY <1>5, <1>7, <2>2, <3>1 DEF Low
  <2>3. CASE ~(r.incumbent = 0 /\ v = act)
    <3>1. \/ n.variants[v] = r.variants[v]
          \/ n.variants[v].stage = 0 /\ n.variants[v].alloc = 0
      BY <1>1, <1>7, <2>3
    <3>2. CASE n.variants[v] = r.variants[v]
      <4>1. r.variants[v].alloc = 100 => v = r.incumbent
        BY DEF Sane
      <4>2. v # 0
        OBVIOUS
      <4> QED
        BY <1>6, <1>7, <2>1, <3>2, <4>1, <4>2 DEF Low
    <3>3. CASE n.variants[v].stage = 0 /\ n.variants[v].alloc = 0
      BY <2>1, <3>3 DEF Low
    <3> QED
      BY <3>1, <3>2, <3>3
  <2> QED
    BY <2>2, <2>3
<1>10. Sane(n, V)
  <2>1. n.active # Cycles!NoRollout => n.incumbent \in {n.active.incumbent, n.active.challenger}
    BY <1>6, <1>7, <1>8 DEF Sane
  <2>2. n.incumbent # 0
    BY <1>3, <1>7
  <2> QED
    BY <1>7, <1>9, <2>1, <2>2 DEF Sane
<1> QED
  BY <1>3, <1>7, <1>9, <1>10 DEF Founded

\* A finite set of numbers that is not empty has a greatest one.
LEMMA MaxIs ==
  ASSUME NEW S, S \subseteq Nat, IsFiniteSet(S), S # {}
  PROVE  Cycles!Max(S) \in S /\ \A y \in S : Cycles!Max(S) >= y
<1> DEFINE Bad == {u \in FiniteSubsetsOf(S) : u # {} /\ ~\E x \in u : \A y \in u : x >= y}
<1>1. Bad = {}
  <2> SUFFICES ASSUME Bad # {} PROVE FALSE
    OBVIOUS
  <2>1. Bad \subseteq FiniteSubsetsOf(S)
    OBVIOUS
  <2> HIDE DEF Bad
  <2>2. PICK u \in Bad : \A w \in Bad : <<w, u>> \notin StrictSubsetOrdering(S)
    BY <2>1, FS_StrictSubsetOrderingWellFounded, WFMin
  <2>3. u \in FiniteSubsetsOf(S) /\ u # {} /\ ~\E x \in u : \A y \in u : x >= y
    BY <2>2 DEF Bad
  <2>4. u \subseteq S /\ IsFiniteSet(u)
    BY <2>3 DEF FiniteSubsetsOf
  <2>5. PICK x : x \in u
    BY <2>3
  <2>6. IsFiniteSet(u \ {x}) /\ u \ {x} \subseteq S
    BY <2>4, FS_RemoveElement
  <2>7. <<u \ {x}, u>> \in StrictSubsetOrdering(S)
    BY <2>4, <2>5 DEF StrictSubsetOrdering
  <2>8. u \ {x} \notin Bad
    BY <2>2, <2>7
  <2>9. CASE u \ {x} = {}
    BY <2>3, <2>4, <2>5, <2>9
  <2>10. CASE u \ {x} # {}
    <3>1. PICK m \in u \ {x} : \A y \in u \ {x} : m >= y
      BY <2>6, <2>8, <2>10 DEF Bad, FiniteSubsetsOf
    <3>2. m \in Nat /\ x \in Nat /\ \A y \in u : y \in Nat
      BY <2>4, <2>5, <3>1
    <3>3. CASE m >= x
      BY <2>3, <3>1, <3>3
    <3>4. CASE x >= m
      BY <2>3, <2>5, <3>1, <3>2, <3>4
    <3> QED
      BY <3>2, <3>3, <3>4
  <2> QED
    BY <2>9, <2>10
<1>2. S \in FiniteSubsetsOf(S)
  BY DEF FiniteSubsetsOf
<1>3. \E x \in S : \A y \in S : x >= y
  BY <1>1, <1>2
<1> QED
  BY <1>3 DEF Cycles!Max

\* The registry after each set of the variants of C was judged, the greatest last.
Runs(f, C, base, found) ==
  f = [s \in SUBSET C |->
         IF s = {} THEN base
         ELSE Cycles!Judge(f[s \ {Cycles!Max(s)}], Cycles!Max(s), found[Cycles!Max(s)])]

LEMMA RunExists ==
  ASSUME NEW C, C \subseteq Nat, IsFiniteSet(C), NEW base, NEW found
  PROVE  \E f : Runs(f, C, base, found)
<1> DEFINE Bad == {u \in FiniteSubsetsOf(C) : ~\E f : Runs(f, u, base, found)}
<1>1. Bad = {}
  <2> SUFFICES ASSUME Bad # {} PROVE FALSE
    OBVIOUS
  <2>1. Bad \subseteq FiniteSubsetsOf(C)
    OBVIOUS
  <2> HIDE DEF Bad
  <2>2. PICK u \in Bad : \A w \in Bad : <<w, u>> \notin StrictSubsetOrdering(C)
    BY <2>1, FS_StrictSubsetOrderingWellFounded, WFMin
  <2>3. u \in FiniteSubsetsOf(C) /\ ~\E f : Runs(f, u, base, found)
    BY <2>2 DEF Bad
  <2>4. u \subseteq C /\ IsFiniteSet(u) /\ u \subseteq Nat
    BY <2>3 DEF FiniteSubsetsOf
  <2>5. CASE u = {}
    <3> DEFINE f == [s \in SUBSET u |-> base]
    <3>1. Runs(f, u, base, found)
      <4>1. \A s \in SUBSET u : s = {}
        BY <2>5
      <4> QED
        BY <4>1 DEF Runs
    <3> QED
      BY <2>3, <3>1
  <2>6. CASE u # {}
    <3> DEFINE x == Cycles!Max(u)
               w == u \ {x}
    <3>1. x \in u /\ \A y \in u : x >= y
      BY <2>4, <2>6, MaxIs
    <3> HIDE DEF x
    <3>2. w \in FiniteSubsetsOf(C)
      BY <2>4, FS_RemoveElement DEF FiniteSubsetsOf
    <3>3. <<w, u>> \in StrictSubsetOrdering(C)
      BY <2>4, <3>1 DEF StrictSubsetOrdering
    <3>4. PICK g : Runs(g, w, base, found)
      BY <2>2, <3>2, <3>3 DEF Bad
    <3> DEFINE f == [s \in SUBSET u |->
                       IF x \in s THEN Cycles!Judge(g[s \ {x}], x, found[x]) ELSE g[s]]
    <3>5. ASSUME NEW s \in SUBSET u
          PROVE  f[s] = IF s = {} THEN base
                        ELSE Cycles!Judge(f[s \ {Cycles!Max(s)}], Cycles!Max(s),
                                          found[Cycles!Max(s)])
      <4>1. IsFiniteSet(s) /\ s \subseteq Nat
        BY <2>4, FS_Subset
      <4>2. CASE x \in s
        <5>1. Cycles!Max(s) \in s /\ Cycles!Max(s) >= x
          BY <4>1, <4>2, MaxIs
        <5> DEFINE m == Cycles!Max(s)
        <5>5. m \in u /\ m >= x /\ x >= m /\ m \in Nat /\ x \in Nat
          BY <2>4, <3>1, <5>1
        <5>2. m = x
          <6> HIDE DEF m
          <6> QED
            BY <5>5
        <5>3. s \ {x} \in SUBSET u /\ x \notin s \ {x}
          OBVIOUS
        <5>4. f[s \ {x}] = g[s \ {x}] /\ f[s] = Cycles!Judge(g[s \ {x}], x, found[x])
          BY <4>2, <5>3
        <5> HIDE DEF f
        <5> QED
          BY <4>2, <5>2, <5>4
      <4>3. CASE x \notin s
        <5>1. s \in SUBSET w
          BY <4>3
        <5>2. f[s] = g[s]
          BY <4>3
        <5>3. g[s] = IF s = {} THEN base
                     ELSE Cycles!Judge(g[s \ {Cycles!Max(s)}], Cycles!Max(s),
                                       found[Cycles!Max(s)])
          BY <3>4, <5>1 DEF Runs
        <5>4. ASSUME s # {} PROVE f[s \ {Cycles!Max(s)}] = g[s \ {Cycles!Max(s)}]
          BY <4>3
        <5> HIDE DEF f
        <5> QED
          BY <5>2, <5>3, <5>4
      <4> QED
        BY <4>2, <4>3
    <3>6. f = [s \in SUBSET u |-> f[s]]
      OBVIOUS
    <3> HIDE DEF f
    <3>7. Runs(f, u, base, found)
      BY <3>5, <3>6 DEF Runs
    <3> QED
      BY <2>3, <3>7
  <2> QED
    BY <2>5, <2>6
<1>2. C \in FiniteSubsetsOf(C)
  BY DEF FiniteSubsetsOf
<1> QED
  BY <1>1, <1>2

\* What the judgements of the challengers s make of a registry.
Judged(base, n, s, V) ==
  /\ Sane(n, V) /\ n.incumbent \in V
  /\ \A w \in V : n.variants[w].stage <= base.variants[w].stage + 1
  /\ \A w \in V \ s : n.variants[w].stage <= base.variants[w].stage /\ (Low(base, w) => Low(n, w))

\* No rollout, and no variant but the incumbent above the first rung.
Quiet(r, V) == r.active = Cycles!NoRollout /\ \A v \in V : Low(r, v)

LEMMA RunKeeps ==
  ASSUME NEW V, V \subseteq Nat \ {0}, NEW C \in SUBSET V, IsFiniteSet(C),
         NEW base, Sane(base, V), base.incumbent \in V,
         NEW found \in [V -> Findings], NEW f, Runs(f, C, base, found)
  PROVE  /\ Judged(base, f[C], C, V)
         /\ (\A v \in V : ~found[v].live) /\ Quiet(base, V) => Quiet(f[C], V)
<1> DEFINE Keeps(s) ==
             /\ Judged(base, f[s], s, V)
             /\ (\A v \in V : ~found[v].live) /\ Quiet(base, V) => Quiet(f[s], V)
           Bad == {u \in FiniteSubsetsOf(C) : ~Keeps(u)}
<1>1. Bad = {}
  <2> SUFFICES ASSUME Bad # {} PROVE FALSE
    OBVIOUS
  <2>1. Bad \subseteq FiniteSubsetsOf(C)
    OBVIOUS
  <2> HIDE DEF Bad, Keeps
  <2>2. PICK u \in Bad : \A w \in Bad : <<w, u>> \notin StrictSubsetOrdering(C)
    BY <2>1, FS_StrictSubsetOrderingWellFounded, WFMin
  <2>3. u \in FiniteSubsetsOf(C) /\ ~Keeps(u)
    BY <2>2 DEF Bad
  <2>4. u \in SUBSET C /\ u \subseteq V /\ IsFiniteSet(u) /\ u \subseteq Nat
    BY <2>3 DEF FiniteSubsetsOf
  <2>5. ASSUME NEW r, Sane(r, V), NEW w \in V PROVE r.variants[w].stage \in 0 .. 4
    BY <2>5, SaneFields, StagesAre
  <2>6. CASE u = {}
    <3>1. f[u] = base
      BY <2>4, <2>6 DEF Runs
    <3>2. \A w \in V : base.variants[w].stage \in 0 .. 4
      BY <2>5
    <3>3. Keeps(u)
      BY <2>6, <3>1, <3>2 DEF Keeps, Judged
    <3> QED
      BY <2>3, <3>3
  <2>7. CASE u # {}
    <3> DEFINE x == Cycles!Max(u)
               w == u \ {x}
               r == f[w]
               n == f[u]
    <3>1. x \in u
      BY <2>4, <2>7, MaxIs
    <3>2. n = Cycles!Judge(r, x, found[x])
      BY <2>4, <2>7 DEF Runs
    <3> HIDE DEF x
    <3>3. w \in FiniteSubsetsOf(C)
      BY <2>4, FS_RemoveElement DEF FiniteSubsetsOf
    <3>4. <<w, u>> \in StrictSubsetOrdering(C)
      BY <2>4, <3>1 DEF StrictSubsetOrdering
    <3>5. Keeps(w)
      BY <2>2, <3>3, <3>4 DEF Bad
    <3>6. Judged(base, r, w, V) /\ ((\A v \in V : ~found[v].live) /\ Quiet(base, V) => Quiet(r, V))
      BY <3>5 DEF Keeps
    <3>7. Sane(r, V) /\ r.incumbent \in V
      BY <3>6 DEF Judged
    <3>8. x \in V /\ found[x] \in Findings
      BY <2>4, <3>1
    <3> HIDE DEF r, n
    <3>9. JudgedTo(r, n, x, V) /\ (~found[x].live => Held(r, n, x))
      BY <3>2, <3>7, <3>8, JudgeIs
    <3>10. Sane(n, V) /\ n.incumbent \in V
      BY <3>9 DEF JudgedTo
    <3>11. ASSUME NEW v \in V
           PROVE  /\ n.variants[v].stage <= base.variants[v].stage + 1
                  /\ v \notin u => /\ n.variants[v].stage <= base.variants[v].stage
                                   /\ Low(base, v) => Low(n, v)
      <4>1. /\ n.variants[v].stage \in Int /\ r.variants[v].stage \in Int
            /\ base.variants[v].stage \in Int
        BY <2>5, <3>7, <3>10
      <4>2. CASE v = x
        <5>1. r.variants[v].stage <= base.variants[v].stage /\ v \in u
          BY <3>1, <3>6, <4>2 DEF Judged
        <5>2. n.variants[v].stage <= r.variants[v].stage + 1
          BY <3>9, <4>2 DEF JudgedTo
        <5> QED
          BY <4>1, <5>1, <5>2
      <4>3. CASE v # x
        <5>1. n.variants[v].stage <= r.variants[v].stage /\ (Low(r, v) => Low(n, v))
          BY <3>9, <4>3 DEF JudgedTo
        <5>2. r.variants[v].stage <= base.variants[v].stage + 1
          BY <3>6 DEF Judged
        <5>3. v \notin u => /\ r.variants[v].stage <= base.variants[v].stage
                            /\ Low(base, v) => Low(r, v)
          BY <3>6 DEF Judged
        <5> QED
          BY <4>1, <5>1, <5>2, <5>3
      <4> QED
        BY <4>2, <4>3
    <3>12. ASSUME \A v \in V : ~found[v].live, Quiet(base, V) PROVE Quiet(n, V)
      <4>1. Quiet(r, V) /\ Held(r, n, x)
        BY <3>6, <3>8, <3>9, <3>12
      <4>2. \A v \in V \ {x} : Low(r, v) => Low(n, v)
        BY <3>9 DEF JudgedTo
      <4> QED
        BY <4>1, <4>2, <3>8 DEF Quiet, Held
    <3>13. Keeps(u)
      BY <3>10, <3>11, <3>12 DEF Keeps, Judged, n
    <3> QED
      BY <2>3, <3>13
  <2> QED
    BY <2>6, <2>7
<1> HIDE DEF Keeps
<1>2. C \in FiniteSubsetsOf(C)
  BY DEF FiniteSubsetsOf
<1>3. Keeps(C)
  BY <1>1, <1>2
<1> QED
  BY <1>3 DEF Keeps

\* From one saved registry to the next.
Climbs(r, n, v) ==
  \/ n.variants[v].stage <= r.variants[v].stage + 1
  \/ r.variants[v].status = "none" /\ v = n.incumbent
  \/ n.incumbent = v /\ n.active = Cycles!NoRollout

\* The incumbent was gated, and the rollout rolled back or not.
GatedTo(r, n, found) ==
  LET gated == IF r.incumbent = 0 THEN r
               ELSE Cycles!ApplyLiveDemotion(r, r.incumbent, found[r.incumbent].action)
  IN  \/ n = gated
      \/ gated.active # Cycles!NoRollout /\ n = Cycles!ApplyRollback(gated)

\* A verdict on a registry.
Ruled(r, n, V) == Sane(n, V) /\ n.incumbent \in V /\ \A v \in V : Climbs(r, n, v)

\* Without evidence that passes the live gates there is no rollout.
QuietAfter(r, n, found, V) == (\A v \in V : ~found[v].live) /\ Quiet(r, V) => Quiet(n, V)

LEMMA VerdictIs ==
  ASSUME NEW V, V \subseteq Nat \ {0}, IsFiniteSet(V), NEW r, Sane(r, V), NEW act \in V,
         NEW synced, SyncedTo(r, synced, act, V),
         NEW C \in SUBSET V, synced.incumbent \notin C,
         NEW found \in [V -> Findings], NEW f, Runs(f, C, synced, found),
         NEW n, GatedTo(f[C], n, found)
  PROVE  Ruled(r, n, V) /\ QuietAfter(r, n, found, V)
<1> DEFINE judged == f[C]
           i == judged.incumbent
           gated == Cycles!ApplyLiveDemotion(judged, i, found[i].action)
<1>1. /\ Sane(synced, V) /\ synced.incumbent \in V /\ synced.active = r.active
      /\ \A v \in V : /\ Low(r, v) => Low(synced, v)
                      /\ \/ synced.variants[v].stage <= r.variants[v].stage
                         \/ r.variants[v].status = "none" /\ synced.incumbent = v
  <2>1. Founded(r, synced, V)
    BY SyncIs
  <2> QED
    BY <2>1 DEF Founded
<1>2. IsFiniteSet(C)
  BY FS_Subset
<1>3. /\ Judged(synced, judged, C, V)
      /\ (\A v \in V : ~found[v].live) /\ Quiet(synced, V) => Quiet(judged, V)
  BY <1>1, <1>2, RunKeeps
<1>5. Sane(judged, V) /\ i \in V
  BY <1>3 DEF Judged
<1>4. \/ n = gated
      \/ gated.active # Cycles!NoRollout /\ n = Cycles!ApplyRollback(gated)
  BY <1>5 DEF GatedTo
<1> HIDE DEF judged
<1> HIDE DEF i
<1>6. /\ JudgedTo(judged, gated, i, V) /\ gated.incumbent = judged.incumbent
      /\ gated.variants[i].stage <= judged.variants[i].stage /\ Held(judged, gated, i)
  <2>1. judged.incumbent \in V
    BY <1>5 DEF i
  <2> QED
    BY <1>5, <2>1, DemotionIs
<1> HIDE DEF gated
<1>7. Sane(gated, V) /\ gated.incumbent \in V /\ gated.incumbent = i
  BY <1>5, <1>6 DEF JudgedTo, i
<1>8. ASSUME NEW v \in V
      PROVE  /\ gated.variants[v].stage <= judged.variants[v].stage
             /\ Low(judged, v) => Low(gated, v)
  <2>1. CASE v = i
    BY <1>6, <1>7, <2>1 DEF Low
  <2>2. CASE v # i
    BY <1>6, <2>2 DEF JudgedTo
  <2> QED
    BY <2>1, <2>2
<1>9. /\ Sane(n, V) /\ n.incumbent \in V
      /\ n = gated \/ n.active = Cycles!NoRollout
      /\ \A v \in V \ {n.incumbent} :
           n.variants[v].stage <= gated.variants[v].stage /\ (Low(gated, v) => Low(n, v))
  <2>1. CASE n = gated
    <3>1. \A v \in V : gated.variants[v].stage \in Int
      BY <1>7, SaneFields, StagesAre
    <3> QED
      BY <1>7, <2>1, <3>1
  <2>2. CASE gated.active # Cycles!NoRollout /\ n = Cycles!ApplyRollback(gated)
    BY <1>7, <2>2, RollbackIs
  <2> QED
    BY <1>4, <2>1, <2>2
<1>10. ASSUME NEW v \in V PROVE Climbs(r, n, v)
  <2>1. /\ r.variants[v].stage \in 0 .. 4 /\ synced.variants[v].stage \in 0 .. 4
        /\ judged.variants[v].stage \in 0 .. 4 /\ gated.variants[v].stage \in 0 .. 4
        /\ n.variants[v].stage \in 0 .. 4
    BY <1>1, <1>5, <1>7, <1>9, SaneFields, StagesAre
  <2>2. CASE synced.variants[v].stage <= r.variants[v].stage
    <3>1. judged.variants[v].stage <= synced.variants[v].stage + 1
      BY <1>3 DEF Judged
    <3>2. gated.variants[v].stage <= r.variants[v].stage + 1
      BY <1>8, <2>1, <2>2, <3>1
    <3> QED
      BY <1>9, <2>1, <3>2 DEF Climbs
  <2>3. CASE r.variants[v].status = "none" /\ synced.incumbent = v
    <3>1. Low(judged, v)
      BY <1>3, <2>3 DEF Judged, Low
    <3>2. v = n.incumbent \/ Low(n, v)
      BY <1>8, <1>9, <3>1
    <3> QED
      BY <2>1, <2>3, <3>2 DEF Climbs, Low
  <2> QED
    BY <1>1, <2>2, <2>3
<1>11. ASSUME \A v \in V : ~found[v].live, Quiet(r, V) PROVE Quiet(n, V)
  <2>1. Quiet(judged, V)
    BY <1>1, <1>3, <1>11 DEF Quiet
  <2>2. gated.active = Cycles!NoRollout /\ \A v \in V : Low(gated, v)
    BY <1>6, <1>8, <2>1 DEF Quiet, Held
  <2>3. n = gated
    BY <1>4, <2>2
  <2> QED
    BY <2>2, <2>3 DEF Quiet
<1> QED
  BY <1>9, <1>10, <1>11 DEF Ruled, QuietAfter

\* The two instances of StrategyGovernance judge alike.
LEMMA SameNames ==
  /\ Rollout!NoVariant = 0 /\ Cycles!NoVariant = 0 /\ Rollout!NoRollout = Cycles!NoRollout
  /\ Rollout!ScaledLive = 4 /\ Cycles!ScaledLive = 4
  /\ Rollout!ShadowOnly = 0 /\ Cycles!ShadowOnly = 0
BY DEF Rollout!NoVariant, Cycles!NoVariant, Rollout!NoRollout, Cycles!NoRollout,
  Rollout!ScaledLive, Cycles!ScaledLive, Rollout!ShadowOnly, Cycles!ShadowOnly

LEMMA SameFound == \A name : Rollout!Found(name) = Cycles!Found(name)
BY DEF Rollout!Found, Cycles!Found, Rollout!Finding, Cycles!Finding, Rollout!Absent,
  Cycles!Absent

LEMMA SamePlaced ==
  \A r, v, status, stage : Rollout!Placed(r, v, status, stage) = Cycles!Placed(r, v, status, stage)
BY DEF Rollout!Placed, Cycles!Placed, Rollout!Allocation, Cycles!Allocation, Rollout!ScaledLive,
  Cycles!ScaledLive, Rollout!CautiousLive, Cycles!CautiousLive, Rollout!Canary, Cycles!Canary

LEMMA SameDemotion ==
  \A r, v, action : Rollout!ApplyLiveDemotion(r, v, action) = Cycles!ApplyLiveDemotion(r, v, action)
BY SameNames, SamePlaced DEF Rollout!ApplyLiveDemotion, Cycles!ApplyLiveDemotion,
  Rollout!PreviousAllowedStage, Cycles!PreviousAllowedStage, Rollout!ProbationStage,
  Cycles!ProbationStage, Rollout!CautiousLive, Cycles!CautiousLive, Rollout!IsChallenger,
  Cycles!IsChallenger, Rollout!Rollout, Cycles!Rollout

LEMMA SamePromotion ==
  \A r, v, verdict, target :
    Rollout!ApplyPromotion(r, v, verdict, target) = Cycles!ApplyPromotion(r, v, verdict, target)
<1>1. \A r, v : Rollout!BackToShadow(r, v) = Cycles!BackToShadow(r, v)
  BY SameNames, SamePlaced DEF Rollout!BackToShadow, Cycles!BackToShadow, Rollout!IsChallenger,
    Cycles!IsChallenger
<1>2. \A s, t : Rollout!NextAllowedStage(s, t) = Cycles!NextAllowedStage(s, t)
  BY DEF Rollout!NextAllowedStage, Cycles!NextAllowedStage
<1>3. \A i, c, s : Rollout!Rollout(i, c, s) = Cycles!Rollout(i, c, s)
  BY DEF Rollout!Rollout, Cycles!Rollout
<1>4. \A r, v, t : Rollout!EnterCanary(r, v, t) = Cycles!EnterCanary(r, v, t)
  BY <1>2, <1>3, SamePlaced DEF Rollout!EnterCanary, Cycles!EnterCanary
<1>5. \A r, v, t : Rollout!Promote(r, v, t) = Cycles!Promote(r, v, t)
  BY <1>2, <1>3, SameNames, SamePlaced DEF Rollout!Promote, Cycles!Promote
<1> QED
  BY <1>1, <1>4, <1>5, SameDemotion DEF Rollout!ApplyPromotion, Cycles!ApplyPromotion

LEMMA SameJudge == \A r, v, e : Rollout!Judge(r, v, e) = Cycles!Judge(r, v, e)
<1>1. \A recorded, action, e :
        Rollout!QuarantineStatus(recorded, action, e) = Cycles!QuarantineStatus(recorded, action, e)
  BY DEF Rollout!QuarantineStatus, Cycles!QuarantineStatus
<1>2. \A e, stage, action, live, stable, growth :
        Rollout!PromotionDecision(e, stage, action, live, stable, growth)
          = Cycles!PromotionDecision(e, stage, action, live, stable, growth)
  BY DEF Rollout!PromotionDecision, Cycles!PromotionDecision, Rollout!Decision, Cycles!Decision,
    Rollout!NextRolloutStage, Cycles!NextRolloutStage, Rollout!OrElse, Cycles!OrElse,
    Rollout!Absent, Cycles!Absent
<1>3. \A r, v : Rollout!Quarantine(r, v) = Cycles!Quarantine(r, v)
  BY SameNames, SamePlaced DEF Rollout!Quarantine, Cycles!Quarantine
<1> QED
  BY <1>1, <1>2, <1>3, SamePromotion DEF Rollout!Judge, Cycles!Judge, Rollout!IsChallenger,
    Cycles!IsChallenger

LEMMA SameRollback == \A r : Rollout!ApplyRollback(r) = Cycles!ApplyRollback(r)
BY SameNames, SamePlaced DEF Rollout!ApplyRollback, Cycles!ApplyRollback

LEMMA SameMax == \A S : Rollout!Max(S) = Cycles!Max(S)
BY DEF Rollout!Max, Cycles!Max

\* The fold over the challengers is a run.
CyclesJudged(C, base, found) ==
  Cycles!MapThenFoldSet(LAMBDA v, r1 : Cycles!Judge(r1, v, found[v]), base, LAMBDA v : v,
                     Cycles!Max, C)

LEMMA CyclesFold ==
  ASSUME NEW C, C \subseteq Nat, IsFiniteSet(C), NEW base, NEW found
  PROVE  \E f : /\ Runs(f, C, base, found)
                /\ CyclesJudged(C, base, found) = f[C]
<1> DEFINE f == CHOOSE f : Runs(f, C, base, found)
<1>1. Runs(f, C, base, found)
  BY RunExists
<1>2. CyclesJudged(C, base, found) = f[C]
  BY DEF CyclesJudged, Cycles!MapThenFoldSet, Runs
<1> QED
  BY <1>1, <1>2

RolloutJudged(C, base, found) ==
  Rollout!MapThenFoldSet(LAMBDA v, r1 : Rollout!Judge(r1, v, found[v]), base, LAMBDA v : v,
                     Rollout!Max, C)

LEMMA RolloutFold ==
  ASSUME NEW C, C \subseteq Nat, IsFiniteSet(C), NEW base, NEW found
  PROVE  \E f : /\ Runs(f, C, base, found)
                /\ RolloutJudged(C, base, found) = f[C]
<1> DEFINE f == CHOOSE f : f = [s \in SUBSET C |->
                  IF s = {} THEN base
                  ELSE Rollout!Judge(f[s \ {Rollout!Max(s)}], Rollout!Max(s),
                                     found[Rollout!Max(s)])]
<1>1. Runs(f, C, base, found)
  <2>1. PICK g : Runs(g, C, base, found)
    BY RunExists
  <2>2. g = [s \in SUBSET C |->
               IF s = {} THEN base
               ELSE Rollout!Judge(g[s \ {Rollout!Max(s)}], Rollout!Max(s), found[Rollout!Max(s)])]
    BY <2>1, SameJudge, SameMax DEF Runs
  <2>3. f = [s \in SUBSET C |->
               IF s = {} THEN base
               ELSE Rollout!Judge(f[s \ {Rollout!Max(s)}], Rollout!Max(s), found[Rollout!Max(s)])]
    BY <2>2
  <2> HIDE DEF f
  <2> QED
    BY <2>3, SameJudge, SameMax DEF Runs
<1>2. RolloutJudged(C, base, found) = f[C]
  BY DEF RolloutJudged, Rollout!MapThenFoldSet
<1> QED
  BY <1>1, <1>2

EightNames ==
  {"untraded", "strong", "toxic", "unstable", "weak", "collapsed", "beaten", "decayed"}

RolloutEvidence == {"untraded", "strong", "collapsed", "beaten"}

LEMMA CyclesVariants ==
  Variants \subseteq Nat \ {0} /\ IsFiniteSet(Variants) /\ Evidence \subseteq EightNames
BY LearningAssumption DEF Cycles!GovernanceAssumption, Cycles!RolloutAssumption, EightNames,
  Cycles!IsFiniteSet, IsFiniteSet

LEMMA RolloutVariants ==
  /\ {1, 2} \subseteq Nat \ {0} /\ IsFiniteSet({1, 2})
  /\ RolloutEvidence \subseteq EightNames
<1>1. IsFiniteSet({1})
  BY FS_Singleton
<1>2. IsFiniteSet({1} \cup {2})
  BY <1>1, FS_AddElement
<1>3. {1} \cup {2} = {1, 2}
  OBVIOUS
<1> QED
  BY <1>2, <1>3 DEF EightNames, RolloutEvidence

LEMMA CyclesSync ==
  ASSUME NEW r, Sane(r, Variants), NEW act \in Variants, NEW present
  PROVE  SyncedTo(r, Cycles!Sync(r, present, act), act, Variants)
<1> DEFINE first == r.incumbent = 0
           gone == (Cycles!Registered(r) \ present) \ r.retired
           placed == [v \in Variants |->
             IF first /\ v = act
             THEN [status |-> "incumbent", stage |-> 4, alloc |-> 100]
             ELSE IF v \in present /\ r.variants[v].status = "none"
             THEN [status |-> "shadow", stage |-> 0, alloc |-> 0]
             ELSE IF v \in gone
             THEN [status |-> "retired", stage |-> 0, alloc |-> 0]
             ELSE r.variants[v]]
           retired == r.retired \cup gone
<1>1. r \in Registries(Variants) /\ act # 0
  BY CyclesVariants DEF Sane
<1>2. Cycles!Sync(r, present, act) =
        [r EXCEPT !.incumbent = IF first THEN act ELSE r.incumbent, !.retired = retired,
                  !.variants = placed]
  BY <1>1, SameNames DEF Cycles!Sync
<1>3. retired \in SUBSET Variants
  BY <1>1 DEF Registries, Cycles!Registered
<1> HIDE DEF gone, retired
<1>4. ASSUME NEW v \in Variants PROVE placed[v] \in Records
  <2>1. r.variants[v] \in Records
    BY <1>1 DEF Registries
  <2> QED
    BY <2>1, StagesAre DEF Records, Statuses
<1>5. placed \in [Variants -> Records]
  BY <1>4
<1>6. \A v \in Variants :
        \/ r.incumbent = 0 /\ v = act
           /\ placed[v] = [status |-> "incumbent", stage |-> 4, alloc |-> 100]
        \/ ~(r.incumbent = 0 /\ v = act)
           /\ \/ placed[v] = r.variants[v]
              \/ placed[v] = [status |-> "shadow", stage |-> 0, alloc |-> 0]
              \/ placed[v] = [status |-> "retired", stage |-> 0, alloc |-> 0]
  OBVIOUS
<1> HIDE DEF placed
<1> QED
  BY <1>2, <1>3, <1>5, <1>6 DEF SyncedTo

LEMMA CyclesGoverned ==
  ASSUME NEW r, Sane(r, Variants), versions.active \in Variants,
         NEW names \in [Variants -> Evidence], NEW found,
         found = [v \in Variants |-> Cycles!Found(names[v])],
         NEW n, n = Cycles!Governed(r, found)
  PROVE  /\ Ruled(r, n, Variants)
         /\ (\A name \in Evidence : ~Cycles!Found(name).live) /\ Quiet(r, Variants) =>
              Quiet(n, Variants)
<1> DEFINE synced == Cycles!Sync(r, versions.present, versions.active)
           C == Cycles!Challengers(synced)
           judged == CyclesJudged(C, synced, found)
<1>1. SyncedTo(r, synced, versions.active, Variants)
  BY CyclesSync
<1>2. C \in SUBSET Variants /\ synced.incumbent \notin C
  BY DEF Cycles!Challengers, Cycles!Registered
<1>3. Variants \subseteq Nat \ {0} /\ IsFiniteSet(Variants) /\ IsFiniteSet(C)
  BY <1>2, CyclesVariants, FS_Subset
<1>4. found \in [Variants -> Findings] /\ \A v \in Variants : found[v] = Cycles!Found(names[v])
  BY CyclesVariants, SameFound DEF Findings, EightNames
<1>5. Cycles!Governed(r, found) =
        IF Cycles!RollbackDue(Cycles!JudgeIncumbent(judged, found),
                          {v \in Variants : found[v].collapsed})
        THEN Cycles!ApplyRollback(Cycles!JudgeIncumbent(judged, found))
        ELSE Cycles!JudgeIncumbent(judged, found)
  BY DEF Cycles!Governed, CyclesJudged
<1> HIDE DEF synced, C
<1>6. PICK f : Runs(f, C, synced, found) /\ judged = f[C]
  <2>1. C \subseteq Nat
    BY <1>2, <1>3
  <2> QED
    BY <1>3, <2>1, CyclesFold
<1> HIDE DEF judged
<1>7. GatedTo(judged, n, found)
  BY <1>5, SameNames, SameDemotion, SameRollback
  DEF GatedTo, Cycles!JudgeIncumbent, Cycles!RollbackDue
<1>8. Ruled(r, n, Variants) /\ QuietAfter(r, n, found, Variants)
  <2>1. GatedTo(f[C], n, found)
    BY <1>6, <1>7
  <2> QED
    BY <1>1, <1>2, <1>3, <1>4, <1>6, <2>1, VerdictIs
<1> QED
  BY <1>4, <1>8 DEF QuietAfter

LEMMA RolloutSync ==
  ASSUME NEW r, Sane(r, {1, 2}), NEW act \in {1, 2}, NEW present
  PROVE  SyncedTo(r, Rollout!Sync(r, present, act), act, {1, 2})
<1> DEFINE first == r.incumbent = 0
           gone == (Rollout!Registered(r) \ present) \ r.retired
           placed == [v \in {1, 2} |->
             IF first /\ v = act
             THEN [status |-> "incumbent", stage |-> 4, alloc |-> 100]
             ELSE IF v \in present /\ r.variants[v].status = "none"
             THEN [status |-> "shadow", stage |-> 0, alloc |-> 0]
             ELSE IF v \in gone
             THEN [status |-> "retired", stage |-> 0, alloc |-> 0]
             ELSE r.variants[v]]
           retired == r.retired \cup gone
<1>1. r \in Registries({1, 2}) /\ act # 0
  BY RolloutVariants DEF Sane
<1>2. Rollout!Sync(r, present, act) =
        [r EXCEPT !.incumbent = IF first THEN act ELSE r.incumbent, !.retired = retired,
                  !.variants = placed]
  BY <1>1, SameNames DEF Rollout!Sync
<1>3. retired \in SUBSET {1, 2}
  BY <1>1 DEF Registries, Rollout!Registered
<1> HIDE DEF gone, retired
<1>4. ASSUME NEW v \in {1, 2} PROVE placed[v] \in Records
  <2>1. r.variants[v] \in Records
    BY <1>1 DEF Registries
  <2> QED
    BY <2>1, StagesAre DEF Records, Statuses
<1>5. placed \in [{1, 2} -> Records]
  BY <1>4
<1>6. \A v \in {1, 2} :
        \/ r.incumbent = 0 /\ v = act
           /\ placed[v] = [status |-> "incumbent", stage |-> 4, alloc |-> 100]
        \/ ~(r.incumbent = 0 /\ v = act)
           /\ \/ placed[v] = r.variants[v]
              \/ placed[v] = [status |-> "shadow", stage |-> 0, alloc |-> 0]
              \/ placed[v] = [status |-> "retired", stage |-> 0, alloc |-> 0]
  OBVIOUS
<1> HIDE DEF placed
<1> QED
  BY <1>2, <1>3, <1>5, <1>6 DEF SyncedTo

LEMMA RolloutGoverned ==
  ASSUME NEW r, Sane(r, {1, 2}), versions.active \in {1, 2},
         NEW names \in [{1, 2} -> RolloutEvidence], NEW found,
         found = [v \in {1, 2} |-> Rollout!Found(names[v])],
         NEW n, n = Rollout!Governed(r, found)
  PROVE  /\ Ruled(r, n, {1, 2})
         /\ (\A name \in RolloutEvidence : ~Cycles!Found(name).live) /\ Quiet(r, {1, 2}) =>
              Quiet(n, {1, 2})
<1> DEFINE synced == Rollout!Sync(r, versions.present, versions.active)
           C == Rollout!Challengers(synced)
           judged == RolloutJudged(C, synced, found)
<1>1. SyncedTo(r, synced, versions.active, {1, 2})
  BY RolloutSync
<1>2. C \in SUBSET {1, 2} /\ synced.incumbent \notin C
  BY DEF Rollout!Challengers, Rollout!Registered
<1>3. {1, 2} \subseteq Nat \ {0} /\ IsFiniteSet({1, 2}) /\ IsFiniteSet(C)
  BY <1>2, RolloutVariants, FS_Subset
<1>4. found \in [{1, 2} -> Findings] /\ \A v \in {1, 2} : found[v] = Cycles!Found(names[v])
  BY RolloutVariants, SameFound DEF Findings, EightNames
<1>5. Rollout!Governed(r, found) =
        IF Rollout!RollbackDue(Rollout!JudgeIncumbent(judged, found),
                          {v \in {1, 2} : found[v].collapsed})
        THEN Rollout!ApplyRollback(Rollout!JudgeIncumbent(judged, found))
        ELSE Rollout!JudgeIncumbent(judged, found)
  BY DEF Rollout!Governed, RolloutJudged
<1> HIDE DEF synced, C
<1>6. PICK f : Runs(f, C, synced, found) /\ judged = f[C]
  <2>1. C \subseteq Nat
    BY <1>2, <1>3
  <2> QED
    BY <1>3, <2>1, RolloutFold
<1> HIDE DEF judged
<1>7. GatedTo(judged, n, found)
  BY <1>5, SameNames, SameDemotion, SameRollback
  DEF GatedTo, Rollout!JudgeIncumbent, Rollout!RollbackDue
<1>8. Ruled(r, n, {1, 2}) /\ QuietAfter(r, n, found, {1, 2})
  <2>1. GatedTo(f[C], n, found)
    BY <1>6, <1>7
  <2> QED
    BY <1>1, <1>2, <1>3, <1>4, <1>6, <2>1, VerdictIs
<1> QED
  BY <1>4, <1>8 DEF QuietAfter

-----------------------------------------------------------------------------
(* The saved registry, cycle by cycle, for variants V and processes P.       *)

\* Where a cycle holds the registry it is about to save.
Pending == {"learn", "register"}

Shape(c) ==
  c = [pc |-> c.pc, now |-> c.now, prior |-> c.prior, next |-> c.next, registry |-> c.registry]

Based(V, P) ==
  /\ Sane(registry, V) /\ versions.active \in V /\ cycle = [p \in P |-> cycle[p]]
  /\ \A p \in P : cycle[p].pc \in Pending => Shape(cycle[p]) /\ Sane(cycle[p].registry, V)

\* What is about to be saved was judged from what is saved.
FromSaved(V, P) ==
  \A p \in P : cycle[p].pc \in Pending => Ruled(registry, cycle[p].registry, V)

\* Nothing saved, or about to be, has a rollout.
Still(V, P) ==
  /\ Quiet(registry, V)
  /\ \A p \in P : cycle[p].pc \in Pending => Quiet(cycle[p].registry, V)

\* What a step does to the saved registry and to those about to be saved.
Turn(V, P, quiet) ==
  \/ registry' = registry /\ cycle' = cycle /\ versions'.active \in V
  \/ /\ versions' = versions
     /\ \E p \in P :
          \/ /\ registry' = registry
             /\ \E c : c.pc \notin Pending /\ cycle' = [cycle EXCEPT ![p] = c]
          \/ /\ registry' = registry
             /\ \E c : /\ c.pc = "learn" /\ Shape(c) /\ Ruled(registry, c.registry, V)
                       /\ quiet /\ Quiet(registry, V) => Quiet(c.registry, V)
                       /\ cycle' = [cycle EXCEPT ![p] = c]
          \/ /\ registry' = registry
             /\ cycle[p].pc = "learn" /\ cycle' = [cycle EXCEPT ![p].pc = "register"]
          \/ /\ cycle[p].pc = "register" /\ registry' = cycle[p].registry
             /\ cycle' = [cycle EXCEPT ![p].pc = "report"]

LEMMA TurnKeeps ==
  ASSUME NEW V, NEW P, NEW quiet, Based(V, P), Turn(V, P, quiet)
  PROVE  /\ Based(V, P)'
         /\ (\E q : P = {q}) /\ FromSaved(V, P) =>
              /\ FromSaved(V, P)'
              /\ registry' # registry => \A v \in V : Climbs(registry, registry', v)
         /\ quiet /\ Still(V, P) => Still(V, P)'
<1>1. /\ Sane(registry, V) /\ versions.active \in V /\ cycle = [p \in P |-> cycle[p]]
      /\ \A p \in P : cycle[p].pc \in Pending => Shape(cycle[p]) /\ Sane(cycle[p].registry, V)
  BY DEF Based
<1>2. CASE registry' = registry /\ cycle' = cycle /\ versions'.active \in V
  BY <1>1, <1>2 DEF Based, FromSaved, Still
<1>3. ASSUME NEW p \in P, NEW c, versions' = versions, registry' = registry,
             cycle' = [cycle EXCEPT ![p] = c],
             c.pc \in Pending =>
               /\ Shape(c) /\ Sane(c.registry, V)
               /\ FromSaved(V, P) => Ruled(registry, c.registry, V)
               /\ quiet /\ Still(V, P) => Quiet(c.registry, V)
      PROVE  /\ Based(V, P)' /\ (FromSaved(V, P) => FromSaved(V, P)')
             /\ quiet /\ Still(V, P) => Still(V, P)'
  <2>1. /\ cycle' = [q \in P |-> cycle'[q]] /\ cycle'[p] = c
        /\ \A q \in P \ {p} : cycle'[q] = cycle[q]
    BY <1>1, <1>3
  <2>2. Based(V, P)'
    BY <1>1, <1>3, <2>1 DEF Based
  <2>3. FromSaved(V, P) => FromSaved(V, P)'
    BY <1>3, <2>1 DEF FromSaved
  <2>4. quiet /\ Still(V, P) => Still(V, P)'
    BY <1>3, <2>1 DEF Still
  <2> QED
    BY <2>2, <2>3, <2>4
<1>4. ASSUME NEW p \in P, versions' = versions, registry' = registry,
             NEW c, c.pc \notin Pending, cycle' = [cycle EXCEPT ![p] = c]
      PROVE  /\ Based(V, P)' /\ (FromSaved(V, P) => FromSaved(V, P)')
             /\ quiet /\ Still(V, P) => Still(V, P)'
  BY <1>3, <1>4
<1>5. ASSUME NEW p \in P, versions' = versions, registry' = registry,
             NEW c, c.pc = "learn", Shape(c), Ruled(registry, c.registry, V),
             quiet /\ Quiet(registry, V) => Quiet(c.registry, V),
             cycle' = [cycle EXCEPT ![p] = c]
      PROVE  /\ Based(V, P)' /\ (FromSaved(V, P) => FromSaved(V, P)')
             /\ quiet /\ Still(V, P) => Still(V, P)'
  <2>1. Sane(c.registry, V) /\ (quiet /\ Still(V, P) => Quiet(c.registry, V))
    BY <1>5 DEF Ruled, Still
  <2> QED
    BY <1>3, <1>5, <2>1
<1>6. ASSUME NEW p \in P, versions' = versions, registry' = registry,
             cycle[p].pc = "learn", cycle' = [cycle EXCEPT ![p].pc = "register"]
      PROVE  /\ Based(V, P)' /\ (FromSaved(V, P) => FromSaved(V, P)')
             /\ quiet /\ Still(V, P) => Still(V, P)'
  <2> DEFINE c == [cycle[p] EXCEPT !.pc = "register"]
  <2>1. cycle' = [cycle EXCEPT ![p] = c]
    BY <1>6
  <2>2. Shape(cycle[p]) /\ Sane(cycle[p].registry, V) /\ cycle[p].pc \in Pending
    BY <1>1, <1>6 DEF Pending
  <2>3. Shape(c) /\ c.registry = cycle[p].registry
    BY <2>2 DEF Shape
  <2> HIDE DEF c
  <2>4. /\ FromSaved(V, P) => Ruled(registry, c.registry, V)
        /\ Still(V, P) => Quiet(c.registry, V)
    BY <2>2, <2>3 DEF FromSaved, Still
  <2> QED
    BY <1>3, <1>6, <2>1, <2>2, <2>3, <2>4
<1>7. ASSUME NEW p \in P, versions' = versions, registry' = cycle[p].registry,
             cycle[p].pc = "register", cycle' = [cycle EXCEPT ![p].pc = "report"]
      PROVE  /\ Based(V, P)'
             /\ (\E q : P = {q}) /\ FromSaved(V, P) =>
                  /\ FromSaved(V, P)'
                  /\ \A v \in V : Climbs(registry, registry', v)
             /\ Still(V, P) => Still(V, P)'
  <2>1. Shape(cycle[p]) /\ Sane(cycle[p].registry, V) /\ cycle[p].pc \in Pending
    BY <1>1, <1>7 DEF Pending
  <2>2. /\ cycle' = [q \in P |-> cycle'[q]] /\ cycle'[p] = [cycle[p] EXCEPT !.pc = "report"]
        /\ \A q \in P \ {p} : cycle'[q] = cycle[q]
    BY <1>1, <1>7
  <2>3. cycle'[p].pc \notin Pending
    BY <2>1, <2>2 DEF Shape, Pending
  <2>4. Based(V, P)'
    BY <1>1, <1>7, <2>1, <2>2, <2>3 DEF Based
  <2>5. ASSUME NEW q, P = {q}, FromSaved(V, P)
        PROVE  FromSaved(V, P)' /\ \A v \in V : Climbs(registry, registry', v)
    BY <1>7, <2>1, <2>3, <2>5 DEF FromSaved, Ruled
  <2>6. Still(V, P) => Still(V, P)'
    BY <1>7, <2>1, <2>2, <2>3 DEF Still
  <2> QED
    BY <2>4, <2>5, <2>6
<1> QED
  BY <1>2, <1>4, <1>5, <1>6, <1>7 DEF Turn

LEMMA CyclesTurn ==
  ASSUME Based(Variants, Processes), Cycles!Next \/ UNCHANGED gvars
  PROVE  Turn(Variants, Processes, \A name \in Evidence : ~Cycles!Found(name).live)
<1> DEFINE quiet == \A name \in Evidence : ~Cycles!Found(name).live
<1>1. CASE UNCHANGED gvars
  BY <1>1 DEF gvars, Turn, Based
<1>2. CASE Cycles!Tick
  BY <1>2 DEF Cycles!Tick, Turn, Based
<1>3. CASE Cycles!ChangeVersions
  BY <1>3 DEF Cycles!ChangeVersions, Turn
<1>4. ASSUME NEW p \in Processes, Cycles!Step(p)
      PROVE  Turn(Variants, Processes, quiet)
  <2>1. ASSUME NEW c, c.pc \notin Pending, cycle' = [cycle EXCEPT ![p] = c],
               versions' = versions, registry' = registry
        PROVE  Turn(Variants, Processes, quiet)
    BY <2>1 DEF Turn
  <2>2. CASE Cycles!Begin(p)
    <3> DEFINE c == [pc |-> "load", now |-> clock, prior |-> learning]
    <3>1. c.pc \notin Pending /\ cycle' = [cycle EXCEPT ![p] = c]
      BY <2>2 DEF Cycles!Begin, Pending
    <3> HIDE DEF c
    <3> QED
      BY <2>1, <2>2, <3>1 DEF Cycles!Begin
  <2>3. CASE Cycles!LoadSamples(p)
    <3> DEFINE samples == Cycles!Window(cycle[p].prior.completed, cycle[p].now) \cap Cycles!Times
               next == [completed |-> clock,
                        learned |-> [t \in Cycles!Times |->
                          cycle[p].prior.learned[t] + (IF t \in samples THEN 1 ELSE 0)]]
               c == [pc |-> "govern", now |-> cycle[p].now, prior |-> cycle[p].prior,
                     next |-> next]
    <3>1. cycle' = [cycle EXCEPT ![p] = c]
      BY <2>3 DEF Cycles!LoadSamples
    <3> HIDE DEF next
    <3>2. c.pc \notin Pending
      BY DEF Pending
    <3> HIDE DEF c
    <3> QED
      BY <2>1, <2>3, <3>1, <3>2 DEF Cycles!LoadSamples
  <2>4. CASE Cycles!Govern(p)
    <3>1. PICK names \in [Variants -> Evidence] :
            cycle' = [cycle EXCEPT ![p] =
              [pc |-> "learn", now |-> @.now, prior |-> @.prior, next |-> @.next,
               registry |-> Cycles!Governed(registry, [v \in Variants |-> Cycles!Found(names[v])])]]
      BY <2>4 DEF Cycles!Govern
    <3> DEFINE found == [v \in Variants |-> Cycles!Found(names[v])]
               n == Cycles!Governed(registry, found)
               c == [pc |-> "learn", now |-> cycle[p].now, prior |-> cycle[p].prior,
                     next |-> cycle[p].next, registry |-> n]
    <3>2. cycle' = [cycle EXCEPT ![p] = c]
      BY <3>1
    <3>3. Ruled(registry, n, Variants) /\ (quiet /\ Quiet(registry, Variants) => Quiet(n, Variants))
      <4> HIDE DEF found
      <4>1. found = [v \in Variants |-> Cycles!Found(names[v])]
        BY DEF found
      <4> HIDE DEF n
      <4>2. n = Cycles!Governed(registry, found)
        BY DEF n
      <4>3. Sane(registry, Variants) /\ versions.active \in Variants
        BY DEF Based
      <4> QED
        BY <4>1, <4>2, <4>3, CyclesGoverned
    <3> HIDE DEF n, quiet
    <3>4. c.pc = "learn" /\ c.registry = n /\ Shape(c)
      BY DEF Shape
    <3> HIDE DEF c
    <3>5. versions' = versions /\ registry' = registry
      BY <2>4 DEF Cycles!Govern
    <3> QED
      BY <3>2, <3>3, <3>4, <3>5 DEF Turn
  <2>5. CASE Cycles!SaveLearning(p)
    BY <2>5 DEF Cycles!SaveLearning, Turn
  <2>6. CASE Cycles!SaveRegistry(p)
    BY <2>6 DEF Cycles!SaveRegistry, Turn
  <2>7. Cycles!Idle.pc \notin Pending
    BY DEF Cycles!Idle, Pending
  <2>8. CASE Cycles!Report(p) \/ Cycles!Fail(p) \/ Cycles!Crash(p)
    BY <2>1, <2>7, <2>8 DEF Cycles!Report, Cycles!Fail, Cycles!Crash
  <2> QED
    BY <1>4, <2>2, <2>3, <2>4, <2>5, <2>6, <2>8 DEF Cycles!Step
<1> HIDE DEF quiet
<1> QED
  BY <1>1, <1>2, <1>3, <1>4 DEF Cycles!Next, quiet

LEMMA CyclesStart ==
  ASSUME Cycles!Init
  PROVE  Based(Variants, Processes) /\ FromSaved(Variants, Processes) /\ Still(Variants, Processes)
<1>1. /\ registry.incumbent = 0 /\ registry.active = Cycles!NoRollout
      /\ \A v \in Variants : registry.variants[v] = [status |-> "none", stage |-> 0, alloc |-> 0]
      /\ registry \in Registries(Variants)
  <2>1. registry = [incumbent |-> 0, active |-> Cycles!NoRollout, high |-> {}, retired |-> {},
                    variants |-> [v \in Variants |-> [status |-> "none", stage |-> 0, alloc |-> 0]]]
    BY SameNames DEF Cycles!Init, Cycles!EmptyRegistry, Cycles!Unregistered
  <2>2. [status |-> "none", stage |-> 0, alloc |-> 0] \in Records
    BY StagesAre DEF Records, Statuses
  <2> QED
    BY <2>1, <2>2 DEF Registries
<1>2. Sane(registry, Variants) /\ Quiet(registry, Variants)
  BY <1>1 DEF Sane, Quiet, Low
<1>3. /\ cycle = [p \in Processes |-> cycle[p]] /\ versions.active \in Variants
      /\ \A p \in Processes : cycle[p].pc \notin Pending
  BY DEF Cycles!Init, Cycles!Idle, Pending
<1> QED
  BY <1>2, <1>3 DEF Based, FromSaved, Still

LEMMA RolloutTurn ==
  ASSUME Based({1, 2}, {"bot"}), Rollout!Next \/ UNCHANGED gvars
  PROVE  Turn({1, 2}, {"bot"}, \A name \in RolloutEvidence : ~Cycles!Found(name).live)
<1> DEFINE quiet == \A name \in RolloutEvidence : ~Cycles!Found(name).live
<1>1. CASE UNCHANGED gvars
  BY <1>1 DEF gvars, Turn, Based
<1>2. CASE Rollout!Tick
  BY <1>2 DEF Rollout!Tick, Turn, Based
<1>3. CASE Rollout!ChangeVersions
  BY <1>3 DEF Rollout!ChangeVersions, Turn
<1>4. ASSUME NEW p \in {"bot"}, Rollout!Step(p)
      PROVE  Turn({1, 2}, {"bot"}, quiet)
  <2>1. ASSUME NEW c, c.pc \notin Pending, cycle' = [cycle EXCEPT ![p] = c],
               versions' = versions, registry' = registry
        PROVE  Turn({1, 2}, {"bot"}, quiet)
    BY <2>1 DEF Turn
  <2>2. CASE Rollout!Begin(p)
    <3> DEFINE c == [pc |-> "load", now |-> clock, prior |-> learning]
    <3>1. c.pc \notin Pending /\ cycle' = [cycle EXCEPT ![p] = c]
      BY <2>2 DEF Rollout!Begin, Pending
    <3> HIDE DEF c
    <3> QED
      BY <2>1, <2>2, <3>1 DEF Rollout!Begin
  <2>3. CASE Rollout!LoadSamples(p)
    <3> DEFINE samples == Rollout!Window(cycle[p].prior.completed, cycle[p].now) \cap Rollout!Times
               next == [completed |-> clock,
                        learned |-> [t \in Rollout!Times |->
                          cycle[p].prior.learned[t] + (IF t \in samples THEN 1 ELSE 0)]]
               c == [pc |-> "govern", now |-> cycle[p].now, prior |-> cycle[p].prior,
                     next |-> next]
    <3>1. cycle' = [cycle EXCEPT ![p] = c]
      BY <2>3 DEF Rollout!LoadSamples
    <3> HIDE DEF next
    <3>2. c.pc \notin Pending
      BY DEF Pending
    <3> HIDE DEF c
    <3> QED
      BY <2>1, <2>3, <3>1, <3>2 DEF Rollout!LoadSamples
  <2>4. CASE Rollout!Govern(p)
    <3>1. PICK names \in [{1, 2} -> RolloutEvidence] :
            cycle' = [cycle EXCEPT ![p] =
              [pc |-> "learn", now |-> @.now, prior |-> @.prior, next |-> @.next,
               registry |-> Rollout!Governed(registry, [v \in {1, 2} |-> Rollout!Found(names[v])])]]
      BY <2>4 DEF Rollout!Govern, RolloutEvidence
    <3> DEFINE found == [v \in {1, 2} |-> Rollout!Found(names[v])]
               n == Rollout!Governed(registry, found)
               c == [pc |-> "learn", now |-> cycle[p].now, prior |-> cycle[p].prior,
                     next |-> cycle[p].next, registry |-> n]
    <3>2. cycle' = [cycle EXCEPT ![p] = c]
      BY <3>1
    <3>3. Ruled(registry, n, {1, 2}) /\ (quiet /\ Quiet(registry, {1, 2}) => Quiet(n, {1, 2}))
      <4> HIDE DEF found
      <4>1. found = [v \in {1, 2} |-> Rollout!Found(names[v])]
        BY DEF found
      <4> HIDE DEF n
      <4>2. n = Rollout!Governed(registry, found)
        BY DEF n
      <4>3. Sane(registry, {1, 2}) /\ versions.active \in {1, 2}
        BY DEF Based
      <4> QED
        BY <4>1, <4>2, <4>3, RolloutGoverned
    <3> HIDE DEF n, quiet
    <3>4. c.pc = "learn" /\ c.registry = n /\ Shape(c)
      BY DEF Shape
    <3> HIDE DEF c
    <3>5. versions' = versions /\ registry' = registry
      BY <2>4 DEF Rollout!Govern
    <3> QED
      BY <3>2, <3>3, <3>4, <3>5 DEF Turn
  <2>5. CASE Rollout!SaveLearning(p)
    BY <2>5 DEF Rollout!SaveLearning, Turn
  <2>6. CASE Rollout!SaveRegistry(p)
    BY <2>6 DEF Rollout!SaveRegistry, Turn
  <2>7. Rollout!Idle.pc \notin Pending
    BY DEF Rollout!Idle, Pending
  <2>8. CASE Rollout!Report(p) \/ Rollout!Fail(p) \/ Rollout!Crash(p)
    BY <2>1, <2>7, <2>8 DEF Rollout!Report, Rollout!Fail, Rollout!Crash
  <2> QED
    BY <1>4, <2>2, <2>3, <2>4, <2>5, <2>6, <2>8 DEF Rollout!Step
<1> HIDE DEF quiet
<1> QED
  BY <1>1, <1>2, <1>3, <1>4 DEF Rollout!Next, quiet

LEMMA RolloutStart ==
  ASSUME Rollout!Init
  PROVE  Based({1, 2}, {"bot"}) /\ FromSaved({1, 2}, {"bot"}) /\ Still({1, 2}, {"bot"})
<1>1. /\ registry.incumbent = 0 /\ registry.active = Cycles!NoRollout
      /\ \A v \in {1, 2} : registry.variants[v] = [status |-> "none", stage |-> 0, alloc |-> 0]
      /\ registry \in Registries({1, 2})
  <2>1. registry = [incumbent |-> 0, active |-> Cycles!NoRollout, high |-> {}, retired |-> {},
                    variants |-> [v \in {1, 2} |-> [status |-> "none", stage |-> 0, alloc |-> 0]]]
    BY SameNames DEF Rollout!Init, Rollout!EmptyRegistry, Rollout!Unregistered
  <2>2. [status |-> "none", stage |-> 0, alloc |-> 0] \in Records
    BY StagesAre DEF Records, Statuses
  <2> QED
    BY <2>1, <2>2 DEF Registries
<1>2. Sane(registry, {1, 2}) /\ Quiet(registry, {1, 2})
  BY <1>1 DEF Sane, Quiet, Low
<1>3. /\ cycle = [p \in {"bot"} |-> cycle[p]] /\ versions.active \in {1, 2}
      /\ \A p \in {"bot"} : cycle[p].pc \notin Pending
  BY DEF Rollout!Init, Rollout!Idle, Pending
<1> QED
  BY <1>2, <1>3 DEF Based, FromSaved, Still

\* Between two registries without a rollout nothing climbs more than a rung.
LEMMA StillClimbs ==
  ASSUME NEW V, V \subseteq Nat \ {0}, NEW r, NEW n, Sane(r, V), Sane(n, V), Quiet(n, V),
         NEW v \in V
  PROVE  Climbs(r, n, v)
<1>1. r.variants[v].stage \in 0 .. 4 /\ n.variants[v].stage \in 0 .. 4
  BY SaneFields, StagesAre
<1>2. n.active = Cycles!NoRollout /\ (n.variants[v].stage <= 1 \/ n.incumbent = v)
  BY DEF Quiet, Low
<1>3. CASE n.variants[v].stage <= 1
  <2>1. n.variants[v].stage <= r.variants[v].stage + 1
    BY <1>1, <1>3
  <2> QED
    BY <2>1 DEF Climbs
<1>4. CASE n.incumbent = v
  BY <1>2, <1>4 DEF Climbs
<1> QED
  BY <1>2, <1>3, <1>4

NoneLive == \A name \in Evidence : ~Cycles!Found(name).live

\* The registry of either part, saved and about to be saved.
Laddered ==
  IF part = "rollout" THEN Based({1, 2}, {"bot"}) /\ FromSaved({1, 2}, {"bot"})
  ELSE /\ Based(Variants, Processes)
       /\ (\E p : Processes = {p}) => FromSaved(Variants, Processes)
       /\ NoneLive => Still(Variants, Processes)

LEMMA LadderedInit == Init => Laddered
<1> SUFFICES ASSUME Init PROVE Laddered
  OBVIOUS
<1>1. CASE part = "rollout"
  <2>1. Rollout!Init
    BY <1>1 DEF Init
  <2> QED
    BY <1>1, <2>1, RolloutStart DEF Laddered
<1>2. CASE part # "rollout"
  <2>1. Cycles!Init
    BY <1>2 DEF Init
  <2> QED
    BY <1>2, <2>1, CyclesStart DEF Laddered
<1> QED
  BY <1>1, <1>2

\* What the two instances promise of a step.
LadderStep ==
  IF part = "rollout" THEN Rollout!FullShare' /\ Rollout!ClimbsOneRung
  ELSE Cycles!ClimbsOneRung

LEMMA LadderedStep ==
  ASSUME Laddered, [Next]_<<part, svars, gvars, evars, dvars>>
  PROVE  /\ Laddered'
         /\ (\E p : Processes = {p}) \/ NoneLive => [LadderStep]_registry
<1>1. part' = part
  BY DEF Next
<1>2. CASE part = "rollout"
  <2>1. Rollout!Next \/ UNCHANGED gvars
    BY <1>2 DEF Next
  <2> DEFINE quiet == \A name \in RolloutEvidence : ~Cycles!Found(name).live
  <2>2. Based({1, 2}, {"bot"}) /\ FromSaved({1, 2}, {"bot"})
    BY <1>2 DEF Laddered
  <2>3. Turn({1, 2}, {"bot"}, quiet)
    BY <2>1, <2>2, RolloutTurn
  <2> HIDE DEF quiet
  <2>4. \E q : {"bot"} = {q}
    OBVIOUS
  <2>5. /\ Based({1, 2}, {"bot"})' /\ FromSaved({1, 2}, {"bot"})'
        /\ registry' # registry => \A v \in {1, 2} : Climbs(registry, registry', v)
    BY <2>2, <2>3, <2>4, TurnKeeps
  <2>6. Laddered'
    BY <1>1, <1>2, <2>5 DEF Laddered
  <2>7. ASSUME registry' # registry PROVE LadderStep
    <3>1. Sane(registry', {1, 2})
      BY <2>5 DEF Based
    <3>2. Rollout!FullShare'
      BY <3>1 DEF Rollout!FullShare, Sane
    <3>3. Rollout!ClimbsOneRung
      BY <2>5, <2>7, SameNames DEF Rollout!ClimbsOneRung, Climbs
    <3> QED
      BY <1>2, <3>2, <3>3 DEF LadderStep
  <2> QED
    BY <2>6, <2>7
<1>3. CASE part # "rollout"
  <2>1. Cycles!Next \/ UNCHANGED gvars
    BY <1>3 DEF Next
  <2>2. /\ Based(Variants, Processes)
        /\ (\E p : Processes = {p}) => FromSaved(Variants, Processes)
        /\ NoneLive => Still(Variants, Processes)
    BY <1>3 DEF Laddered
  <2>3. Turn(Variants, Processes, NoneLive)
    BY <2>1, <2>2, CyclesTurn DEF NoneLive
  <2>4. /\ Based(Variants, Processes)'
        /\ (\E q : Processes = {q}) /\ FromSaved(Variants, Processes) =>
             /\ FromSaved(Variants, Processes)'
             /\ registry' # registry => \A v \in Variants : Climbs(registry, registry', v)
        /\ NoneLive /\ Still(Variants, Processes) => Still(Variants, Processes)'
    BY <2>2, <2>3, TurnKeeps
  <2>5. NoneLive' = NoneLive
    BY DEF NoneLive
  <2>6. Laddered'
    BY <1>1, <1>3, <2>2, <2>4, <2>5 DEF Laddered
  <2>7. ASSUME registry' # registry, (\E p : Processes = {p}) \/ NoneLive
        PROVE  \A v \in Variants : Climbs(registry, registry', v)
    <3>1. CASE \E p : Processes = {p}
      BY <2>2, <2>4, <2>7, <3>1
    <3>2. CASE NoneLive
      <4>1. Sane(registry, Variants) /\ Sane(registry', Variants) /\ Quiet(registry', Variants)
        BY <2>2, <2>4, <3>2 DEF Based, Still
      <4> QED
        BY <4>1, CyclesVariants, StillClimbs
    <3> QED
      BY <2>7, <3>1, <3>2
  <2>8. ASSUME registry' # registry, (\E p : Processes = {p}) \/ NoneLive
        PROVE  LadderStep
    BY <1>3, <2>7, <2>8 DEF LadderStep, Cycles!ClimbsOneRung, Cycles!NoRollout, Climbs
  <2> QED
    BY <2>6, <2>8
<1> QED
  BY <1>2, <1>3

\* A variant climbs one rung of the rollout ladder per saved cycle, and the whole of the
\* capital is the incumbent's alone, when one process runs the cycles or no evidence passes
\* the live gates; two processes whose cycles overlap may lift a variant two rungs
\* (DailyReviewJob.runWaveTwoGovernance, StrategyRolloutController).
THEOREM RungByRung ==
  ASSUME (\E p : Processes = {p}) \/ \A name \in Evidence : ~Cycles!Found(name).live
  PROVE  Spec => LadderKept
<1>1. Laddered /\ [Next]_<<part, svars, gvars, evars, dvars>> => Laddered' /\ [LadderStep]_registry
  BY LadderedStep DEF NoneLive
<1>2. [LadderStep]_registry =>
        [IF part = "rollout" THEN Rollout!FullShare' /\ Rollout!ClimbsOneRung
         ELSE Cycles!ClimbsOneRung]_registry
  BY DEF LadderStep
<1> QED
  BY <1>1, <1>2, LadderedInit, PTL DEF Spec, LadderKept

-----------------------------------------------------------------------------
(* Types                                                                    *)

\* The steps of a caller, under the lock or not.
Work(c) ==
  \/ \E d \in Decisions \cup {"none"} : Store!Start(c, d)
  \/ Store!ReadPrimary(c) \/ Store!QuarantineCorruptPrimary(c) \/ Store!ReadLatestSnapshot(c)
  \/ Store!BeginSnapshot(c) \/ Store!EndSnapshot(c)
  \/ Store!OpenTmp(c) \/ Store!WriteTmp(c) \/ Store!RenameTmp(c) \/ Store!UnlinkTmp(c)

\* The two instances differ in the lock alone.
LEMMA SharedWork ==
  ASSUME NEW c \in Callers, Shared!Step(c)
  PROVE  Work(c)
<1>1. CASE Shared!Load(c)
  BY <1>1 DEF Shared!Load, Shared!Start, Shared!Idle, Shared!Empty, Shared!None,
              Work, Store!Start, Store!Idle, Store!Empty, Store!None
<1>2. ASSUME NEW d \in Decisions, Shared!RecordDecision(c, d) PROVE Work(c)
  BY <1>2 DEF Shared!RecordDecision, Shared!Start, Shared!Idle, Shared!Empty, Shared!None,
              Work, Store!Start, Store!Idle, Store!Empty, Store!None
<1>3. CASE Shared!ReadPrimary(c)
  <2>1. Store!ReadPrimary(c)
    BY <1>3 DEF Shared!ReadPrimary, Store!ReadPrimary, Shared!Loaded, Store!Loaded, Shared!Go,
                Store!Go, Shared!None, Store!None, Shared!Torn, Store!Torn, Shared!Empty,
                Store!Empty, Shared!Idle, Store!Idle
  <2> QED
    BY <2>1 DEF Work
<1>4. CASE Shared!QuarantineCorruptPrimary(c)
  <2>1. Store!QuarantineCorruptPrimary(c)
    BY <1>4 DEF Shared!QuarantineCorruptPrimary, Store!QuarantineCorruptPrimary, Shared!Go,
                Store!Go, Shared!None, Store!None
  <2> QED
    BY <2>1 DEF Work
<1>5. CASE Shared!ReadLatestSnapshot(c)
  <2>1. Store!ReadLatestSnapshot(c)
    BY <1>5 DEF Shared!ReadLatestSnapshot, Store!ReadLatestSnapshot, Shared!Parseable,
                Store!Parseable, Shared!Loaded, Store!Loaded, Shared!None, Store!None,
                Shared!Torn, Store!Torn, Shared!Empty, Store!Empty, Shared!Idle, Store!Idle
  <2> QED
    BY <2>1 DEF Work
<1>6. CASE Shared!BeginSnapshot(c)
  <2>1. Store!BeginSnapshot(c)
    BY <1>6 DEF Shared!BeginSnapshot, Store!BeginSnapshot, Shared!Go, Store!Go, Shared!None,
                Store!None, Shared!Torn, Store!Torn
  <2> QED
    BY <2>1 DEF Work
<1>7. CASE Shared!EndSnapshot(c)
  <2>1. Store!EndSnapshot(c)
    BY <1>7 DEF Shared!EndSnapshot, Store!EndSnapshot, Shared!Go, Store!Go, Shared!None,
                Store!None, Shared!Torn, Store!Torn
  <2> QED
    BY <2>1 DEF Work
<1>8. CASE Shared!OpenTmp(c)
  <2>1. Store!OpenTmp(c)
    BY <1>8 DEF Shared!OpenTmp, Store!OpenTmp, Shared!FreeInode, Store!FreeInode, Shared!Inodes,
                Store!Inodes, Shared!Cardinality, Store!Cardinality, Shared!None, Store!None,
                Shared!Torn, Store!Torn
  <2> QED
    BY <2>1 DEF Work
<1>9. CASE Shared!WriteTmp(c)
  <2>1. Store!WriteTmp(c)
    BY <1>9 DEF Shared!WriteTmp, Store!WriteTmp, Shared!Written, Store!Written,
                Shared!Cardinality, Store!Cardinality, Shared!None, Store!None, Shared!Torn,
                Store!Torn
  <2> QED
    BY <2>1 DEF Work
<1>10. CASE Shared!RenameTmp(c)
  <2>1. Store!RenameTmp(c)
    BY <1>10 DEF Shared!RenameTmp, Store!RenameTmp, Shared!Saved, Store!Saved, Shared!Loaded,
                 Store!Loaded, Shared!Go, Store!Go, Shared!None, Store!None, Shared!Empty,
                 Store!Empty, Shared!Idle, Store!Idle
  <2> QED
    BY <2>1 DEF Work
<1>11. CASE Shared!UnlinkTmp(c)
  <2>1. Store!UnlinkTmp(c)
    BY <1>11 DEF Shared!UnlinkTmp, Store!UnlinkTmp, Shared!None, Store!None, Shared!Empty,
                 Store!Empty, Shared!Idle, Store!Idle
  <2> QED
    BY <2>1 DEF Work
<1> QED
  BY <1>1, <1>2, <1>3, <1>4, <1>5, <1>6, <1>7, <1>8, <1>9, <1>10, <1>11 DEF Shared!Step

\* What a step of one caller has to leave typed.
LEMMA StoreTypes ==
  ASSUME files' \in [Store!Inodes -> Store!Texts],
         primary' \in Store!Inodes \cup {Store!None}, tmp' \in Store!Inodes \cup {Store!None},
         snaps' \in Seq(Store!Texts), call' \in [Callers -> Calls],
         acked' \subseteq Decisions, returned' \subseteq Decisions
  PROVE  Store!TypeOK'
BY DEF Store!TypeOK, Calls, Points, Store!Texts, Store!Inodes

\* A file that is written holds a text.
LEMMA FileTyped ==
  ASSUME Store!TypeOK, NEW i, NEW t \in Store!Texts, files' = [files EXCEPT ![i] = t]
  PROVE  files' \in [Store!Inodes -> Store!Texts]
BY DEF Store!TypeOK

\* A snapshot that is written, or was never opened, leaves a sequence of texts.
LEMMA SnapshotsTyped ==
  ASSUME Store!TypeOK, NEW k, NEW t \in Store!Texts, snaps' = [snaps EXCEPT ![k] = t]
  PROVE  snaps' \in Seq(Store!Texts)
<1>1. snaps \in Seq(Store!Texts)
  BY DEF Store!TypeOK
<1>2. CASE k \in 1 .. Len(snaps)
  BY <1>1, <1>2, ExceptSeq
<1>3. CASE k \notin 1 .. Len(snaps)
  <2>1. snaps \in [1 .. Len(snaps) -> Store!Texts] /\ Len(snaps) \in Nat
    BY <1>1
  <2>2. [snaps EXCEPT ![k] = t] \in [1 .. Len(snaps) -> Store!Texts]
    BY <1>3, <2>1
  <2> QED
    BY <2>1, <2>2, SeqDef
<1> QED
  BY <1>2, <1>3

LEMMA WorkTyped ==
  ASSUME Store!TypeOK, NEW c \in Callers, Work(c)
  PROVE  Store!TypeOK'
<1>1. /\ files \in [Store!Inodes -> Store!Texts]
      /\ primary \in Store!Inodes \cup {Store!None} /\ tmp \in Store!Inodes \cup {Store!None}
      /\ snaps \in Seq(Store!Texts) /\ call \in [Callers -> Calls]
      /\ acked \subseteq Decisions /\ returned \subseteq Decisions
  BY DEF Store!TypeOK, Calls, Points
<1>2. /\ call[c] \in Calls /\ call[c].state \subseteq Decisions
      /\ call[c].decision \in Decisions \cup {"none"} /\ Store!Empty \subseteq Decisions
      /\ Store!Idle \in Calls
  BY <1>1 DEF Calls, Points, Store!Empty, Store!Idle, Store!None
<1>3. Store!Torn \in Store!Texts /\ Store!Empty \in Store!Texts
      /\ \A s : s \subseteq Decisions => s \in Store!Texts
  BY DEF Store!Texts, Store!Empty
<1>4. ASSUME NEW t \in Store!Texts, t # Store!Torn PROVE t \subseteq Decisions
  BY <1>4 DEF Store!Texts
<1>5. ASSUME NEW pc \in Points
      PROVE  [call EXCEPT ![c].pc = pc] \in [Callers -> Calls]
  <2>1. [call[c] EXCEPT !.pc = pc] \in Calls
    BY <1>2 DEF Calls
  <2> QED
    BY <1>1, <2>1
<1>6. ASSUME NEW pc \in Points, Store!Go(c, pc) PROVE call' \in [Callers -> Calls]
  BY <1>5, <1>6 DEF Store!Go
<1>7. CASE \E d \in Decisions \cup {"none"} : Store!Start(c, d)
  <2>1. PICK d \in Decisions \cup {"none"} : Store!Start(c, d)
    BY <1>7
  <2> DEFINE r == [Store!Idle EXCEPT !.pc = "read", !.decision = d]
  <2>2. r \in Calls
    BY DEF Calls, Points, Store!Idle, Store!Empty, Store!None
  <2>3. call' = [call EXCEPT ![c] = r] /\ UNCHANGED <<files, primary, tmp, snaps, acked, returned>>
    BY <2>1 DEF Store!Start
  <2> HIDE DEF r
  <2>4. call' \in [Callers -> Calls]
    BY <2>2, <2>3, CallTyped
  <2> QED
    BY <1>1, <2>3, <2>4, StoreTypes
<1>8. CASE Store!ReadPrimary(c)
  <2>1. UNCHANGED <<files, primary, tmp, snaps, acked>>
    BY <1>8 DEF Store!ReadPrimary
  <2>2. call' \in [Callers -> Calls] /\ returned' \subseteq Decisions
    <3>1. CASE primary = Store!None
      <4> DEFINE r == [call[c] EXCEPT !.pc = "copy", !.state = Store!Empty]
      <4>1. r \in Calls
        BY <1>2 DEF Calls, Points
      <4>2. call' = [call EXCEPT ![c] = r] /\ returned' = returned
        BY <1>1, <1>8, <3>1 DEF Store!ReadPrimary
      <4> HIDE DEF r
      <4> QED
        BY <1>1, <4>1, <4>2, CallTyped
    <3>2. CASE primary # Store!None /\ files[primary] = Store!Torn
      BY <1>1, <1>6, <1>8, <3>2 DEF Store!ReadPrimary, Points
    <3>3. CASE primary # Store!None /\ files[primary] # Store!Torn
      <4>1. files[primary] \in SUBSET Decisions
        BY <1>1, <1>4, <3>3
      <4>2. Store!Loaded(c, files[primary])
        BY <1>8, <3>3 DEF Store!ReadPrimary
      <4> QED
        BY <4>1, <4>2, LoadedTyped
    <3> QED
      BY <3>1, <3>2, <3>3
  <2> QED
    BY <1>1, <2>1, <2>2, StoreTypes
<1>9. CASE Store!QuarantineCorruptPrimary(c)
  <2>1. /\ primary' = Store!None /\ Store!Go(c, "recover")
        /\ UNCHANGED <<files, tmp, snaps, acked, returned>>
    BY <1>9 DEF Store!QuarantineCorruptPrimary
  <2>2. call' \in [Callers -> Calls]
    BY <1>6, <2>1 DEF Points
  <2> QED
    BY <1>1, <2>1, <2>2, StoreTypes
<1>10. CASE Store!ReadLatestSnapshot(c)
  <2>1. UNCHANGED <<files, primary, tmp, snaps, acked>>
    BY <1>10 DEF Store!ReadLatestSnapshot
  <2>2. call' \in [Callers -> Calls] /\ returned' \subseteq Decisions
    <3>1. CASE Store!Parseable = {}
      <4> DEFINE r == [call[c] EXCEPT !.pc = "copy", !.state = Store!Empty]
      <4>1. r \in Calls
        BY <1>2 DEF Calls, Points
      <4>2. call' = [call EXCEPT ![c] = r] /\ returned' = returned
        BY <1>1, <1>10, <3>1 DEF Store!ReadLatestSnapshot
      <4> HIDE DEF r
      <4> QED
        BY <1>1, <4>1, <4>2, CallTyped
    <3>2. CASE Store!Parseable # {}
      <4> DEFINE i == CHOOSE i \in Store!Parseable : \A j \in Store!Parseable : j <= i
      <4>1. i \in Store!Parseable
        BY <3>2, NewestParseable
      <4>2. Store!Loaded(c, snaps[i])
        BY <1>10, <3>2 DEF Store!ReadLatestSnapshot
      <4> HIDE DEF i
      <4>3. snaps[i] \in Store!Texts /\ snaps[i] # Store!Torn
        BY <1>1, <4>1 DEF Store!Parseable
      <4>4. snaps[i] \in SUBSET Decisions
        BY <1>4, <4>3
      <4> QED
        BY <4>2, <4>4, LoadedTyped
    <3> QED
      BY <3>1, <3>2
  <2> QED
    BY <1>1, <2>1, <2>2, StoreTypes
<1>11. CASE Store!BeginSnapshot(c)
  <2>1. UNCHANGED <<files, primary, tmp, acked, returned>>
    BY <1>11 DEF Store!BeginSnapshot
  <2>2. call' \in [Callers -> Calls] /\ snaps' \in Seq(Store!Texts)
    <3>1. CASE primary = Store!None
      BY <1>1, <1>6, <1>11, <3>1 DEF Store!BeginSnapshot, Points
    <3>2. CASE primary # Store!None
      <4> DEFINE r == [call[c] EXCEPT !.pc = "copying", !.snap = Len(snaps) + 1]
      <4>1. Len(snaps) + 1 \in Nat
        BY <1>1
      <4>2. r \in Calls
        BY <1>2, <4>1 DEF Calls, Points
      <4>3. call' = [call EXCEPT ![c] = r] /\ snaps' = Append(snaps, Store!Torn)
        BY <1>1, <1>11, <3>2 DEF Store!BeginSnapshot
      <4> HIDE DEF r
      <4>4. call' \in [Callers -> Calls]
        BY <4>2, <4>3, CallTyped
      <4>5. snaps' \in Seq(Store!Texts)
        BY <1>1, <1>3, <4>3
      <4> QED
        BY <4>4, <4>5
    <3> QED
      BY <3>1, <3>2
  <2> QED
    BY <1>1, <2>1, <2>2, StoreTypes
<1>12. CASE Store!EndSnapshot(c)
  <2> DEFINE t == IF primary = Store!None THEN Store!Torn ELSE files[primary]
  <2>1. /\ snaps' = [snaps EXCEPT ![call[c].snap] = t] /\ Store!Go(c, "open")
        /\ UNCHANGED <<files, primary, tmp, acked, returned>>
    BY <1>12 DEF Store!EndSnapshot
  <2>2. t \in Store!Texts
    BY <1>1, <1>3
  <2> HIDE DEF t
  <2>3. snaps' \in Seq(Store!Texts)
    BY <2>1, <2>2, SnapshotsTyped
  <2>4. call' \in [Callers -> Calls]
    BY <1>6, <2>1 DEF Points
  <2> QED
    BY <1>1, <2>1, <2>3, <2>4, StoreTypes
<1>13. CASE Store!OpenTmp(c)
  <2> DEFINE i == IF tmp = Store!None THEN Store!FreeInode ELSE tmp
             r == [call[c] EXCEPT !.pc = "write", !.inode = i]
  <2>1. i \in Store!Inodes
    BY <1>1, FreeInodeExists
  <2>2. /\ tmp' = i /\ files' = [files EXCEPT ![i] = Store!Torn]
        /\ UNCHANGED <<primary, snaps, acked, returned>>
    BY <1>13 DEF Store!OpenTmp
  <2>3. call' = [call EXCEPT ![c] = r]
    BY <1>1, <1>13 DEF Store!OpenTmp
  <2> HIDE DEF i
  <2>4. r \in Calls
    BY <1>2, <2>1 DEF Calls, Points
  <2> HIDE DEF r
  <2>5. call' \in [Callers -> Calls]
    BY <2>3, <2>4, CallTyped
  <2>6. files' \in [Store!Inodes -> Store!Texts]
    BY <1>3, <2>2, FileTyped
  <2> QED
    BY <1>1, <2>1, <2>2, <2>5, <2>6, StoreTypes
<1>14. CASE Store!WriteTmp(c)
  <2> DEFINE i == call[c].inode
             r == [call[c] EXCEPT !.pc = "rename", !.inode = Store!None]
             t == Store!Written(files[i], call[c].state)
  <2>1. UNCHANGED <<primary, tmp, snaps, acked, returned>>
    BY <1>14 DEF Store!WriteTmp
  <2>2. call' = [call EXCEPT ![c] = r] /\ files' = [files EXCEPT ![i] = t]
    BY <1>1, <1>14 DEF Store!WriteTmp
  <2>3. r \in Calls
    BY <1>2 DEF Calls, Points
  <2>4. t \in Store!Texts
    BY <1>2, <1>3 DEF Store!Written
  <2> HIDE DEF r, t, i
  <2>5. call' \in [Callers -> Calls]
    BY <2>2, <2>3, CallTyped
  <2>6. files' \in [Store!Inodes -> Store!Texts]
    BY <2>2, <2>4, FileTyped
  <2> QED
    BY <1>1, <2>1, <2>5, <2>6, StoreTypes
<1>15. CASE Store!RenameTmp(c)
  <2>1. UNCHANGED <<files, snaps>>
    BY <1>15 DEF Store!RenameTmp
  <2>2. CASE tmp = Store!None
    <3>1. Store!Go(c, "unlink") /\ UNCHANGED <<primary, tmp, acked, returned>>
      BY <1>15, <2>2 DEF Store!RenameTmp
    <3>2. call' \in [Callers -> Calls]
      BY <1>6, <3>1 DEF Points
    <3> QED
      BY <1>1, <2>1, <3>1, <3>2, StoreTypes
  <2>3. CASE tmp # Store!None
    <3>1. primary' = tmp /\ tmp' = Store!None /\ Store!Saved(c)
      BY <1>15, <2>3 DEF Store!RenameTmp
    <3>2. call' \in [Callers -> Calls] /\ acked' \subseteq Decisions /\ returned' \subseteq Decisions
      <4>1. CASE call[c].decision \in call[c].state
        <5>1. acked' = acked \cup {call[c].decision} /\ call' = [call EXCEPT ![c] = Store!Idle]
              /\ returned' = returned
          BY <3>1, <4>1 DEF Store!Saved
        <5>2. call' \in [Callers -> Calls]
          BY <1>2, <5>1, CallTyped
        <5> QED
          BY <1>1, <1>2, <4>1, <5>1, <5>2
      <4>2. CASE call[c].decision \notin call[c].state
        <5>1. Store!Loaded(c, Store!Empty) /\ acked' = acked
          BY <3>1, <4>2 DEF Store!Saved
        <5> QED
          BY <1>1, <1>2, <5>1, LoadedTyped
      <4> QED
        BY <4>1, <4>2
    <3> QED
      BY <1>1, <2>1, <3>1, <3>2, StoreTypes
  <2> QED
    BY <2>2, <2>3
<1>16. CASE Store!UnlinkTmp(c)
  <2>1. /\ tmp' = Store!None /\ call' = [call EXCEPT ![c] = Store!Idle]
        /\ UNCHANGED <<files, primary, snaps, acked, returned>>
    BY <1>16 DEF Store!UnlinkTmp
  <2>2. call' \in [Callers -> Calls]
    BY <1>2, <2>1, CallTyped
  <2> QED
    BY <1>1, <2>1, <2>2, StoreTypes
<1> QED
  BY <1>7, <1>8, <1>9, <1>10, <1>11, <1>12, <1>13, <1>14, <1>15, <1>16 DEF Work

\* A process that dies leaves no call, a damaged document no text.
LEMMA SharedTyped ==
  ASSUME Store!TypeOK, Shared!Next
  PROVE  Store!TypeOK'
<1>1. ASSUME NEW c \in Callers, Shared!Step(c) PROVE Store!TypeOK'
  BY <1>1, SharedWork, WorkTyped
<1>2. CASE Shared!Crash
  BY <1>2, SMT DEF Shared!Crash, Shared!Idle, Shared!Empty, Shared!None, Store!TypeOK, Store!None,
              Store!Texts, Store!Inodes
<1>3. CASE Shared!Corrupt
  BY <1>3 DEF Shared!Corrupt, Shared!Torn, Store!Torn, Store!TypeOK, Store!Texts, Store!Inodes
<1> QED
  BY <1>1, <1>2, <1>3 DEF Shared!Next

\* What a cycle of the learning state holds while it works: T is its last tick.
Learnings(T) == [completed : -1 .. T, learned : [0 .. T -> Nat]]

AtWork(c, T) ==
  \/ c.pc = "idle"
  \/ c.pc = "load" /\ c.prior \in Learnings(T)
  \/ /\ c.pc \in {"govern", "learn", "register", "report"}
     /\ c.prior \in Learnings(T) /\ c.next \in Learnings(T)

Scheduled(V, P, T) ==
  /\ clock \in 0 .. T /\ learning \in Learnings(T) /\ traded \subseteq V
  /\ cycle = [p \in P |-> cycle[p]]
  /\ \A p \in P : AtWork(cycle[p], T)

\* What a step does to the learning state, the clock and the cycles at work.
Round(V, P, T) ==
  \/ /\ UNCHANGED <<learning, cycle>> /\ clock' \in 0 .. T /\ traded' \subseteq traded \cup V
  \/ /\ UNCHANGED <<clock, traded>>
     /\ \E p \in P :
          \/ learning' = learning /\ \E c : AtWork(c, T) /\ cycle' = [cycle EXCEPT ![p] = c]
          \/ /\ cycle[p].pc = "learn" /\ learning' = cycle[p].next
             /\ \E c : AtWork(c, T) /\ cycle' = [cycle EXCEPT ![p] = c]
          \/ /\ cycle[p].pc # "idle" /\ learning' = [cycle[p].prior EXCEPT !.completed = clock]
             /\ \E c : AtWork(c, T) /\ cycle' = [cycle EXCEPT ![p] = c]

LEMMA RoundKeeps ==
  ASSUME NEW V, NEW P, NEW T \in Nat, Scheduled(V, P, T), Round(V, P, T)
  PROVE  Scheduled(V, P, T)'
<1>1. ASSUME NEW p \in P, NEW c, AtWork(c, T), cycle' = [cycle EXCEPT ![p] = c]
      PROVE  cycle' = [q \in P |-> cycle'[q]] /\ \A q \in P : AtWork(cycle'[q], T)
  <2>1. /\ cycle' = [q \in P |-> cycle'[q]] /\ cycle'[p] = c
        /\ \A q \in P \ {p} : cycle'[q] = cycle[q]
    BY <1>1 DEF Scheduled
  <2> QED
    BY <1>1, <2>1 DEF Scheduled
<1>2. CASE UNCHANGED <<learning, cycle>> /\ clock' \in 0 .. T /\ traded' \subseteq traded \cup V
  BY <1>2 DEF Scheduled
<1>3. ASSUME UNCHANGED <<clock, traded>>, NEW p \in P,
             learning' = learning /\ \E c : AtWork(c, T) /\ cycle' = [cycle EXCEPT ![p] = c]
      PROVE  Scheduled(V, P, T)'
  BY <1>1, <1>3 DEF Scheduled
<1>4. ASSUME UNCHANGED <<clock, traded>>, NEW p \in P,
             cycle[p].pc = "learn", learning' = cycle[p].next,
             \E c : AtWork(c, T) /\ cycle' = [cycle EXCEPT ![p] = c]
      PROVE  Scheduled(V, P, T)'
  <2>1. cycle[p].next \in Learnings(T)
    BY <1>4 DEF Scheduled, AtWork
  <2> QED
    BY <1>1, <1>4, <2>1 DEF Scheduled
<1>5. ASSUME UNCHANGED <<clock, traded>>, NEW p \in P,
             cycle[p].pc # "idle", learning' = [cycle[p].prior EXCEPT !.completed = clock],
             \E c : AtWork(c, T) /\ cycle' = [cycle EXCEPT ![p] = c]
      PROVE  Scheduled(V, P, T)'
  <2>1. cycle[p].prior \in Learnings(T) /\ clock \in 0 .. T
    BY <1>5 DEF Scheduled, AtWork
  <2>2. learning' \in Learnings(T)
    BY <1>5, <2>1 DEF Learnings
  <2> QED
    BY <1>1, <1>5, <2>2 DEF Scheduled
<1> QED
  BY <1>2, <1>3, <1>4, <1>5 DEF Round

\* The clock begins after a day.
LEMMA CyclesFits == Day \in 0 .. MaxTime
BY LearningAssumption DEF Cycles!GovernanceAssumption

LEMMA CyclesRound ==
  ASSUME Scheduled(Variants, Processes, MaxTime), Based(Variants, Processes), Cycles!Next \/ UNCHANGED gvars
  PROVE  Round(Variants, Processes, MaxTime)
<1>a. MaxTime \in Nat /\ Cycles!Times = 0 .. MaxTime
  BY CyclesAssumed, SMT DEF Cycles!Times
<1>b. clock \in 0 .. MaxTime /\ learning \in Learnings(MaxTime)
  BY DEF Scheduled
<1>1. CASE UNCHANGED gvars
  BY <1>1, <1>b DEF gvars, Round
<1>2. CASE Cycles!Tick
  <2>1. UNCHANGED <<learning, cycle>> /\ clock' = clock + 1 /\ clock < MaxTime
        /\ traded' \subseteq traded \cup Variants
    BY <1>2 DEF Cycles!Tick
  <2>2. clock' \in 0 .. MaxTime
    BY <1>a, <1>b, <2>1
  <2> QED
    BY <2>1, <2>2 DEF Round
<1>3. CASE Cycles!ChangeVersions
  BY <1>3, <1>b DEF Cycles!ChangeVersions, Round
<1>4. ASSUME NEW p \in Processes, Cycles!Step(p)
      PROVE  Round(Variants, Processes, MaxTime)
  <2>a. AtWork(cycle[p], MaxTime)
    BY DEF Scheduled
  <2>b. AtWork(Cycles!Idle, MaxTime)
    BY DEF AtWork, Cycles!Idle
  <2>1. ASSUME NEW c, AtWork(c, MaxTime), cycle' = [cycle EXCEPT ![p] = c],
               UNCHANGED <<learning, clock, traded>>
        PROVE  Round(Variants, Processes, MaxTime)
    BY <2>1 DEF Round
  <2>2. CASE Cycles!Begin(p)
    <3> DEFINE c == [pc |-> "load", now |-> clock, prior |-> learning]
    <3>1. AtWork(c, MaxTime)
      BY <1>b DEF AtWork
    <3>2. cycle' = [cycle EXCEPT ![p] = c] /\ UNCHANGED <<learning, clock, traded>>
      BY <2>2 DEF Cycles!Begin
    <3> HIDE DEF c
    <3> QED
      BY <2>1, <3>1, <3>2
  <2>3. CASE Cycles!LoadSamples(p)
    <3> DEFINE prior == cycle[p].prior
               samples == Cycles!Window(prior.completed, cycle[p].now) \cap Cycles!Times
               next == [completed |-> clock,
                        learned |-> [t \in Cycles!Times |->
                          prior.learned[t] + (IF t \in samples THEN 1 ELSE 0)]]
               c == [pc |-> "govern", now |-> cycle[p].now, prior |-> prior, next |-> next]
    <3>1. /\ cycle' = [cycle EXCEPT ![p] = c] /\ UNCHANGED <<learning, clock, traded>>
          /\ cycle[p].pc = "load"
      BY <2>3 DEF Cycles!LoadSamples
    <3>2. prior \in Learnings(MaxTime)
      BY <2>a, <3>1 DEF AtWork
    <3> HIDE DEF prior, samples
    <3>3. ASSUME NEW t \in 0 .. MaxTime
          PROVE  prior.learned[t] + (IF t \in samples THEN 1 ELSE 0) \in Nat
      <4>1. prior.learned[t] \in Nat
        BY <3>2 DEF Learnings
      <4> QED
        BY <4>1
    <3>4. next \in Learnings(MaxTime)
      BY <1>a, <1>b, <3>3 DEF Learnings
    <3> HIDE DEF next
    <3>5. AtWork(c, MaxTime)
      BY <3>2, <3>4 DEF AtWork
    <3> HIDE DEF c
    <3> QED
      BY <2>1, <3>1, <3>5
  <2>4. CASE Cycles!Govern(p)
    <3>1. PICK n :
            cycle' = [cycle EXCEPT ![p] =
              [pc |-> "learn", now |-> @.now, prior |-> @.prior, next |-> @.next,
               registry |-> n]]
      BY <2>4 DEF Cycles!Govern
    <3> DEFINE c == [pc |-> "learn", now |-> cycle[p].now, prior |-> cycle[p].prior,
                     next |-> cycle[p].next, registry |-> n]
    <3>2. cycle' = [cycle EXCEPT ![p] = c]
      BY <3>1
    <3>3. UNCHANGED <<learning, clock, traded>> /\ cycle[p].pc = "govern"
      BY <2>4 DEF Cycles!Govern
    <3>4. AtWork(c, MaxTime)
      BY <2>a, <3>3 DEF AtWork
    <3> HIDE DEF c
    <3> QED
      BY <2>1, <3>2, <3>3, <3>4
  <2>c. ASSUME NEW pc \in {"register", "report"}, cycle[p].pc \in {"learn", "register"}
        PROVE  AtWork([cycle[p] EXCEPT !.pc = pc], MaxTime)
    <3>1. Shape(cycle[p])
      BY <2>c DEF Based, Pending
    <3> DEFINE c == [pc |-> pc, now |-> cycle[p].now, prior |-> cycle[p].prior,
                     next |-> cycle[p].next, registry |-> cycle[p].registry]
    <3>2. [cycle[p] EXCEPT !.pc = pc] = c
      BY <3>1 DEF Shape
    <3>3. AtWork(c, MaxTime)
      BY <2>a, <2>c DEF AtWork
    <3> QED
      BY <3>2, <3>3
  <2>5. CASE Cycles!SaveLearning(p)
    <3> DEFINE c == [cycle[p] EXCEPT !.pc = "register"]
    <3>1. /\ cycle[p].pc = "learn" /\ learning' = cycle[p].next /\ UNCHANGED <<clock, traded>>
          /\ cycle' = [cycle EXCEPT ![p] = c]
      BY <2>5 DEF Cycles!SaveLearning, Based
    <3>2. AtWork(c, MaxTime)
      BY <2>c, <3>1
    <3> HIDE DEF c
    <3> QED
      BY <3>1, <3>2 DEF Round
  <2>6. CASE Cycles!SaveRegistry(p)
    <3> DEFINE c == [cycle[p] EXCEPT !.pc = "report"]
    <3>1. /\ cycle[p].pc = "register" /\ UNCHANGED <<learning, clock, traded>>
          /\ cycle' = [cycle EXCEPT ![p] = c]
      BY <2>6 DEF Cycles!SaveRegistry, Based
    <3>2. AtWork(c, MaxTime)
      BY <2>c, <3>1
    <3> HIDE DEF c
    <3> QED
      BY <2>1, <3>1, <3>2
  <2>7. CASE Cycles!Report(p) \/ Cycles!Crash(p)
    BY <2>1, <2>7, <2>b DEF Cycles!Report, Cycles!Crash
  <2>8. CASE Cycles!Fail(p)
    <3>1. /\ cycle[p].pc # "idle" /\ learning' = [cycle[p].prior EXCEPT !.completed = clock]
          /\ cycle' = [cycle EXCEPT ![p] = Cycles!Idle] /\ UNCHANGED <<clock, traded>>
      BY <2>8 DEF Cycles!Fail
    <3> QED
      BY <2>b, <3>1 DEF Round
  <2> QED
    BY <1>4, <2>2, <2>3, <2>4, <2>5, <2>6, <2>7, <2>8 DEF Cycles!Step
<1> QED
  BY <1>1, <1>2, <1>3, <1>4 DEF Cycles!Next

LEMMA CyclesFirst ==
  ASSUME Cycles!Init
  PROVE  Scheduled(Variants, Processes, MaxTime)
<1>1. MaxTime \in Nat /\ Cycles!Times = 0 .. MaxTime /\ clock \in 0 .. MaxTime
  BY CyclesAssumed, CyclesFits, SMT DEF Cycles!Times, Cycles!Init
<1>2. learning = [completed |-> -1, learned |-> [t \in 0 .. MaxTime |-> 0]] /\ traded \subseteq Variants
  BY <1>1, SMT DEF Cycles!Init, Cycles!Never
<1>3. learning \in Learnings(MaxTime)
  BY <1>1, <1>2 DEF Learnings
<1>4. cycle = [p \in Processes |-> Cycles!Idle]
  BY DEF Cycles!Init
<1>5. AtWork(Cycles!Idle, MaxTime)
  BY DEF AtWork, Cycles!Idle
<1> QED
  BY <1>1, <1>2, <1>3, <1>4, <1>5 DEF Scheduled

\* What the module of a cycle calls typed.
LEMMA CyclesTyped ==
  ASSUME Scheduled(Variants, Processes, MaxTime), Sane(registry, Variants)
  PROVE  Cycles!TypeOK
<1>1. MaxTime \in Nat /\ Cycles!Times = 0 .. MaxTime /\ Cycles!Never = -1
  BY CyclesAssumed, SMT DEF Cycles!Times, Cycles!Never
<1>2. /\ learning.completed \in Cycles!Times \cup {Cycles!Never}
      /\ learning.learned \in [Cycles!Times -> Nat]
      /\ traded \subseteq Variants /\ clock \in Cycles!Times
  BY <1>1 DEF Scheduled, Learnings
<1>3. \A p \in Processes : cycle[p].pc \in {"idle", "load", "govern", "learn", "register", "report"}
  BY DEF Scheduled, AtWork
<1>a. Cycles!Stages = 0 .. 4
  BY StagesAre
<1>4. Cycles!VariantRecord = Records
  BY <1>a DEF Cycles!VariantRecord, Records, Statuses
<1>5. registry \in Registries(Variants)
  BY DEF Sane
<1>6. /\ registry.incumbent \in Variants \cup {0}
      /\ registry.active \in Rollouts(Variants) \cup {Cycles!NoRollout}
      /\ registry.high \subseteq Variants /\ registry.retired \subseteq Variants
      /\ registry.variants \in [Variants -> Records]
  BY <1>5 DEF Registries
<1>7. Cycles!NoVariant = 0
  BY SameNames
<1>8. registry.active \in Rollouts(Variants) =>
        registry.active \in [incumbent : Variants \cup {0}, challenger : Variants, stage : Cycles!Stages]
  BY <1>a DEF Rollouts
<1>9. Cycles!RegistryOK(registry)
  BY <1>4, <1>6, <1>7, <1>8 DEF Cycles!RegistryOK
<1> QED
  BY <1>2, <1>3, <1>9 DEF Cycles!TypeOK

LEMMA RolloutRound ==
  ASSUME Scheduled({1, 2}, {"bot"}, 6), Based({1, 2}, {"bot"}), Rollout!Next \/ UNCHANGED gvars
  PROVE  Round({1, 2}, {"bot"}, 6)
<1>a. 6 \in Nat /\ Rollout!Times = 0 .. 6
  BY SMT DEF Rollout!Times
<1>b. clock \in 0 .. 6 /\ learning \in Learnings(6)
  BY DEF Scheduled
<1>1. CASE UNCHANGED gvars
  BY <1>1, <1>b DEF gvars, Round
<1>2. CASE Rollout!Tick
  <2>1. UNCHANGED <<learning, cycle>> /\ clock' = clock + 1 /\ clock < 6
        /\ traded' \subseteq traded \cup {1, 2}
    BY <1>2 DEF Rollout!Tick
  <2>2. clock' \in 0 .. 6
    BY <1>a, <1>b, <2>1
  <2> QED
    BY <2>1, <2>2 DEF Round
<1>3. CASE Rollout!ChangeVersions
  BY <1>3, <1>b DEF Rollout!ChangeVersions, Round
<1>4. ASSUME NEW p \in {"bot"}, Rollout!Step(p)
      PROVE  Round({1, 2}, {"bot"}, 6)
  <2>a. AtWork(cycle[p], 6)
    BY DEF Scheduled
  <2>b. AtWork(Rollout!Idle, 6)
    BY DEF AtWork, Rollout!Idle
  <2>1. ASSUME NEW c, AtWork(c, 6), cycle' = [cycle EXCEPT ![p] = c],
               UNCHANGED <<learning, clock, traded>>
        PROVE  Round({1, 2}, {"bot"}, 6)
    BY <2>1 DEF Round
  <2>2. CASE Rollout!Begin(p)
    <3> DEFINE c == [pc |-> "load", now |-> clock, prior |-> learning]
    <3>1. AtWork(c, 6)
      BY <1>b DEF AtWork
    <3>2. cycle' = [cycle EXCEPT ![p] = c] /\ UNCHANGED <<learning, clock, traded>>
      BY <2>2 DEF Rollout!Begin
    <3> HIDE DEF c
    <3> QED
      BY <2>1, <3>1, <3>2
  <2>3. CASE Rollout!LoadSamples(p)
    <3> DEFINE prior == cycle[p].prior
               samples == Rollout!Window(prior.completed, cycle[p].now) \cap Rollout!Times
               next == [completed |-> clock,
                        learned |-> [t \in Rollout!Times |->
                          prior.learned[t] + (IF t \in samples THEN 1 ELSE 0)]]
               c == [pc |-> "govern", now |-> cycle[p].now, prior |-> prior, next |-> next]
    <3>1. /\ cycle' = [cycle EXCEPT ![p] = c] /\ UNCHANGED <<learning, clock, traded>>
          /\ cycle[p].pc = "load"
      BY <2>3 DEF Rollout!LoadSamples
    <3>2. prior \in Learnings(6)
      BY <2>a, <3>1 DEF AtWork
    <3> HIDE DEF prior, samples
    <3>3. ASSUME NEW t \in 0 .. 6
          PROVE  prior.learned[t] + (IF t \in samples THEN 1 ELSE 0) \in Nat
      <4>1. prior.learned[t] \in Nat
        BY <3>2 DEF Learnings
      <4> QED
        BY <4>1
    <3>4. next \in Learnings(6)
      BY <1>a, <1>b, <3>3 DEF Learnings
    <3> HIDE DEF next
    <3>5. AtWork(c, 6)
      BY <3>2, <3>4 DEF AtWork
    <3> HIDE DEF c
    <3> QED
      BY <2>1, <3>1, <3>5
  <2>4. CASE Rollout!Govern(p)
    <3>1. PICK n :
            cycle' = [cycle EXCEPT ![p] =
              [pc |-> "learn", now |-> @.now, prior |-> @.prior, next |-> @.next,
               registry |-> n]]
      BY <2>4 DEF Rollout!Govern
    <3> DEFINE c == [pc |-> "learn", now |-> cycle[p].now, prior |-> cycle[p].prior,
                     next |-> cycle[p].next, registry |-> n]
    <3>2. cycle' = [cycle EXCEPT ![p] = c]
      BY <3>1
    <3>3. UNCHANGED <<learning, clock, traded>> /\ cycle[p].pc = "govern"
      BY <2>4 DEF Rollout!Govern
    <3>4. AtWork(c, 6)
      BY <2>a, <3>3 DEF AtWork
    <3> HIDE DEF c
    <3> QED
      BY <2>1, <3>2, <3>3, <3>4
  <2>c. ASSUME NEW pc \in {"register", "report"}, cycle[p].pc \in {"learn", "register"}
        PROVE  AtWork([cycle[p] EXCEPT !.pc = pc], 6)
    <3>1. Shape(cycle[p])
      BY <2>c DEF Based, Pending
    <3> DEFINE c == [pc |-> pc, now |-> cycle[p].now, prior |-> cycle[p].prior,
                     next |-> cycle[p].next, registry |-> cycle[p].registry]
    <3>2. [cycle[p] EXCEPT !.pc = pc] = c
      BY <3>1 DEF Shape
    <3>3. AtWork(c, 6)
      BY <2>a, <2>c DEF AtWork
    <3> QED
      BY <3>2, <3>3
  <2>5. CASE Rollout!SaveLearning(p)
    <3> DEFINE c == [cycle[p] EXCEPT !.pc = "register"]
    <3>1. /\ cycle[p].pc = "learn" /\ learning' = cycle[p].next /\ UNCHANGED <<clock, traded>>
          /\ cycle' = [cycle EXCEPT ![p] = c]
      BY <2>5 DEF Rollout!SaveLearning, Based
    <3>2. AtWork(c, 6)
      BY <2>c, <3>1
    <3> HIDE DEF c
    <3> QED
      BY <3>1, <3>2 DEF Round
  <2>6. CASE Rollout!SaveRegistry(p)
    <3> DEFINE c == [cycle[p] EXCEPT !.pc = "report"]
    <3>1. /\ cycle[p].pc = "register" /\ UNCHANGED <<learning, clock, traded>>
          /\ cycle' = [cycle EXCEPT ![p] = c]
      BY <2>6 DEF Rollout!SaveRegistry, Based
    <3>2. AtWork(c, 6)
      BY <2>c, <3>1
    <3> HIDE DEF c
    <3> QED
      BY <2>1, <3>1, <3>2
  <2>7. CASE Rollout!Report(p) \/ Rollout!Crash(p)
    BY <2>1, <2>7, <2>b DEF Rollout!Report, Rollout!Crash
  <2>8. CASE Rollout!Fail(p)
    <3>1. /\ cycle[p].pc # "idle" /\ learning' = [cycle[p].prior EXCEPT !.completed = clock]
          /\ cycle' = [cycle EXCEPT ![p] = Rollout!Idle] /\ UNCHANGED <<clock, traded>>
      BY <2>8 DEF Rollout!Fail
    <3> QED
      BY <2>b, <3>1 DEF Round
  <2> QED
    BY <1>4, <2>2, <2>3, <2>4, <2>5, <2>6, <2>7, <2>8 DEF Rollout!Step
<1> QED
  BY <1>1, <1>2, <1>3, <1>4 DEF Rollout!Next

LEMMA RolloutFirst ==
  ASSUME Rollout!Init
  PROVE  Scheduled({1, 2}, {"bot"}, 6)
<1>1. 6 \in Nat /\ Rollout!Times = 0 .. 6 /\ clock \in 0 .. 6
  BY SMT DEF Rollout!Times, Rollout!Init
<1>2. learning = [completed |-> -1, learned |-> [t \in 0 .. 6 |-> 0]] /\ traded \subseteq {1, 2}
  BY <1>1, SMT DEF Rollout!Init, Rollout!Never
<1>3. learning \in Learnings(6)
  BY <1>1, <1>2 DEF Learnings
<1>4. cycle = [p \in {"bot"} |-> Rollout!Idle]
  BY DEF Rollout!Init
<1>5. AtWork(Rollout!Idle, 6)
  BY DEF AtWork, Rollout!Idle
<1> QED
  BY <1>1, <1>2, <1>3, <1>4, <1>5 DEF Scheduled

LEMMA RolloutTyped ==
  ASSUME Scheduled({1, 2}, {"bot"}, 6), Sane(registry, {1, 2})
  PROVE  Rollout!TypeOK
<1>1. 6 \in Nat /\ Rollout!Times = 0 .. 6 /\ Rollout!Never = -1
  BY SMT DEF Rollout!Times, Rollout!Never
<1>2. /\ learning.completed \in Rollout!Times \cup {Rollout!Never}
      /\ learning.learned \in [Rollout!Times -> Nat]
      /\ traded \subseteq {1, 2} /\ clock \in Rollout!Times
  BY <1>1 DEF Scheduled, Learnings
<1>3. \A p \in {"bot"} : cycle[p].pc \in {"idle", "load", "govern", "learn", "register", "report"}
  BY DEF Scheduled, AtWork
<1>a. Rollout!Stages = 0 .. 4 /\ Cycles!Stages = 0 .. 4
  BY StagesAre DEF Rollout!Stages, Rollout!ShadowOnly, Rollout!ScaledLive
<1>4. Rollout!VariantRecord = Records
  BY <1>a DEF Rollout!VariantRecord, Records, Statuses
<1>5. registry \in Registries({1, 2})
  BY DEF Sane
<1>6. /\ registry.incumbent \in {1, 2} \cup {0}
      /\ registry.active \in Rollouts({1, 2}) \cup {Cycles!NoRollout}
      /\ registry.high \subseteq {1, 2} /\ registry.retired \subseteq {1, 2}
      /\ registry.variants \in [{1, 2} -> Records]
  BY <1>5 DEF Registries
<1>7. Rollout!NoVariant = 0 /\ Rollout!NoRollout = Cycles!NoRollout
  BY SameNames
<1>8. registry.active \in Rollouts({1, 2}) =>
        registry.active \in [incumbent : {1, 2} \cup {0}, challenger : {1, 2}, stage : Rollout!Stages]
  BY <1>a DEF Rollouts
<1>9. Rollout!RegistryOK(registry)
  BY <1>4, <1>6, <1>7, <1>8 DEF Rollout!RegistryOK
<1> QED
  BY <1>2, <1>3, <1>9 DEF Rollout!TypeOK

\* Every order of a context rested or took, and the updates are counted.
Tallied ==
  /\ \A c \in Contexts : context[c].makers + context[c].takers = context[c].n
  /\ updates \in 0 .. MaxUpdates

LEMMA UpdatesAssumed == MaxUpdates \in Nat
BY LearningAssumption DEF Execution!ExecutionAssumption

LEMMA TalliedInit == Execution!Init => Tallied
<1> SUFFICES ASSUME Execution!Init PROVE Tallied
  OBVIOUS
<1>1. \A c \in Contexts : context[c] = Execution!FreshContext
  BY DEF Execution!Init
<1>2. 0 + 0 = 0 /\ 0 \in 0 .. MaxUpdates
  BY UpdatesAssumed
<1> QED
  BY <1>1, <1>2 DEF Tallied, Execution!Init, Execution!FreshContext

LEMMA TalliedStep ==
  ASSUME Tallied, InForce, NEW c \in Contexts, Execution!Update(c)
  PROVE  Tallied'
<1>1. PICK name \in DOMAIN Windows :
        context' = [context EXCEPT ![c] =
          Execution!Merged(context[c], Execution!ExecutionWindow(Windows[name]))]
  BY DEF Execution!Update
<1> DEFINE w == Execution!ExecutionWindow(Windows[name])
           old == context[c]
           next == Execution!Merged(old, w)
<1>2. w \in Execution!Figures /\ w.makers + w.takers = w.n
  BY LearningAssumption DEF Execution!ExecutionAssumption
<1>3. context' = [context EXCEPT ![c] = next]
  BY <1>1
<1>4. old \in Recorded /\ old.makers + old.takers = old.n
  BY DEF InForce, Followed, Tallied
<1> HIDE DEF w, old
<1>5. /\ next.makers = old.makers + w.makers /\ next.takers = old.takers + w.takers
      /\ next.n = old.n + w.n
  BY DEF Execution!Merged, Execution!MergedOver
<1>6. /\ w.n \in Nat /\ w.makers \in Nat /\ w.takers \in Nat
      /\ old.n \in Nat /\ old.makers \in Nat /\ old.takers \in Nat
  BY <1>2, <1>4 DEF Execution!Figures, Recorded
<1>7. next.makers + next.takers = next.n
  BY <1>2, <1>4, <1>5, <1>6
<1> HIDE DEF next
<1>8. \A d \in Contexts : context'[d] = IF d = c THEN next ELSE context[d]
  BY <1>3 DEF InForce
<1>9. \A d \in Contexts : context'[d].makers + context'[d].takers = context'[d].n
  BY <1>7, <1>8 DEF Tallied
<1>10. updates' \in 0 .. MaxUpdates
  BY UpdatesAssumed DEF Execution!Update, Tallied
<1> QED
  BY <1>9, <1>10 DEF Tallied

LEMMA ExecutionTyped == InForce /\ Tallied => Execution!TypeOK
BY DEF InForce, Followed, Recorded, Tallied, Execution!TypeOK

\* A document keeps the fields of its schemas.
LEMMA DocumentStart == Document!Init => Document!TypeOK
BY LearningAssumption DEF Document!Init, Document!TypeOK, Document!DocumentAssumption

LEMMA DocumentTyped ==
  ASSUME Document!TypeOK, Document!Next \/ UNCHANGED dvars
  PROVE  Document!TypeOK'
<1> DEFINE Known(field) ==
      field[1] \in DOMAIN Document!Schemas /\ field[2] \in DOMAIN Document!Schemas[field[1]]
<1>1. /\ \A field \in wrong : Known(field)
      /\ \A x \in fallen : Known(x[1])
      /\ decisions \subseteq Ids /\ index \subseteq Ids
      /\ spoiled \in 0 .. Damages /\ loads \in 0 .. MaxLoads
      /\ Damages \in Nat /\ MaxLoads \in Nat
  BY LearningAssumption DEF Document!TypeOK, Document!DocumentAssumption
<1>2. ASSUME \A field \in wrong' : Known(field), \A x \in fallen' : Known(x[1]),
             decisions' \subseteq Ids, index' \subseteq Ids,
             spoiled' \in 0 .. Damages, loads' \in 0 .. MaxLoads
      PROVE  Document!TypeOK'
  BY <1>2, Zenon DEF Document!TypeOK
<1>3. CASE UNCHANGED dvars
  <2> HIDE DEF Known
  <2> QED
    BY <1>1, <1>2, <1>3 DEF dvars
<1>4. CASE Document!DamageField
  <2>1. PICK s \in DOMAIN Document!Schemas : \E f \in DOMAIN Document!Schemas[s] :
          wrong' = wrong \cup {<<s, f>>}
    BY <1>4 DEF Document!DamageField
  <2>2. PICK f \in DOMAIN Document!Schemas[s] : wrong' = wrong \cup {<<s, f>>}
    BY <2>1
  <2>3. Known(<<s, f>>)
    OBVIOUS
  <2> HIDE DEF Known
  <2>4. \A field \in wrong' : Known(field)
    BY <1>1, <2>2, <2>3
  <2>5. UNCHANGED <<fallen, decisions, index, loads>> /\ spoiled' = spoiled + 1 /\ spoiled < Damages
    BY <1>4 DEF Document!DamageField
  <2>6. spoiled' \in 0 .. Damages
    BY <1>1, <2>5
  <2> QED
    BY <1>1, <1>2, <2>4, <2>5, <2>6
<1>5. CASE Document!DamageRelation
  <2> HIDE DEF Known
  <2>1. /\ UNCHANGED <<wrong, fallen, index, loads>> /\ decisions' \subseteq decisions
        /\ spoiled' = spoiled + 1 /\ spoiled < Damages
    BY <1>5 DEF Document!DamageRelation
  <2>2. spoiled' \in 0 .. Damages
    BY <1>1, <2>1
  <2> QED
    BY <1>1, <1>2, <2>1, <2>2
<1>6. CASE Document!Load
  <2> HIDE DEF Known
  <2>1. /\ wrong' = {} /\ decisions' = decisions /\ spoiled' = spoiled
        /\ fallen' = {x \in fallen : x[1] \notin wrong} \cup {Document!Fallback(field) : field \in wrong}
        /\ index' = index \cap decisions
        /\ loads' = loads + 1 /\ loads < MaxLoads
    BY <1>6 DEF Document!Load, Document!NormalizeIndex
  <2>2. \A field : Document!Fallback(field)[1] = field
    BY DEF Document!Fallback
  <2>3. \A x \in fallen' : Known(x[1])
    BY <1>1, <2>1, <2>2
  <2>4. loads' \in 0 .. MaxLoads
    BY <1>1, <2>1
  <2> QED
    BY <1>1, <1>2, <2>1, <2>3, <2>4
<1> QED
  BY <1>3, <1>4, <1>5, <1>6 DEF Document!Next

\* Every part's variables, whichever part a behaviour follows.
Typed ==
  /\ Store!TypeOK /\ (part = "store" => Durable)
  /\ InForce /\ Tallied /\ Document!TypeOK /\ Laddered
  /\ IF part = "rollout" THEN Scheduled({1, 2}, {"bot"}, 6)
     ELSE Scheduled(Variants, Processes, MaxTime)

LEMMA TypedInit == Init => Typed
<1> SUFFICES ASSUME Init PROVE Typed
  OBVIOUS
<1>1. Store!TypeOK /\ Durable
  BY DurableInit DEF Init, Durable
<1>2. InForce /\ Tallied /\ Document!TypeOK
  BY InForceInit, TalliedInit, DocumentStart DEF Init
<1>3. Laddered
  BY LadderedInit
<1>4. IF part = "rollout" THEN Scheduled({1, 2}, {"bot"}, 6)
      ELSE Scheduled(Variants, Processes, MaxTime)
  BY RolloutFirst, CyclesFirst DEF Init
<1> QED
  BY <1>1, <1>2, <1>3, <1>4 DEF Typed

LEMMA TypedStep ==
  ASSUME Typed, [Next]_<<part, svars, gvars, evars, dvars>>
  PROVE  Typed'
<1>1. part' = part
  BY DEF Next
<1>2. Store!TypeOK' /\ (part' = "store" => Durable')
  <2>1. CASE UNCHANGED svars
    <3>1. Store!TypeOK'
      BY <2>1 DEF svars, Typed, Store!TypeOK, Store!Texts, Store!Inodes
    <3>2. CASE part = "store"
      BY <1>1, <2>1, <3>1, <3>2, DurableStep DEF Typed
    <3> QED
      BY <1>1, <3>1, <3>2
  <2>2. CASE part = "store" /\ Store!Next
    BY <2>2, DurableStep DEF Typed, Durable
  <2>3. CASE part = "shared" /\ Shared!Next
    BY <1>1, <2>3, SharedTyped DEF Typed
  <2> QED
    BY <2>1, <2>2, <2>3 DEF Next
<1>3. InForce' /\ Tallied'
  <2>1. CASE UNCHANGED evars
    BY <2>1 DEF evars, Typed, InForce, Followed, Tallied
  <2>2. CASE Execution!Next
    BY <2>2, UpdateStep, TalliedStep DEF Execution!Next, Typed
  <2> QED
    BY <2>1, <2>2 DEF Next
<1>4. Document!TypeOK'
  <2>1. Document!Next \/ UNCHANGED dvars
    BY DEF Next
  <2> QED
    BY <2>1, DocumentTyped DEF Typed
<1>5. Laddered'
  BY LadderedStep DEF Typed
<1>6. IF part' = "rollout" THEN Scheduled({1, 2}, {"bot"}, 6)'
      ELSE Scheduled(Variants, Processes, MaxTime)'
  <2>1. CASE part = "rollout"
    <3>1. /\ Scheduled({1, 2}, {"bot"}, 6) /\ Based({1, 2}, {"bot"})
          /\ Rollout!Next \/ UNCHANGED gvars
      BY <2>1 DEF Next, Typed, Laddered
    <3>2. Round({1, 2}, {"bot"}, 6)
      BY <3>1, RolloutRound
    <3>3. Scheduled({1, 2}, {"bot"}, 6)'
      BY <3>1, <3>2, 6 \in Nat, RoundKeeps
    <3> QED
      BY <1>1, <2>1, <3>3
  <2>2. CASE part # "rollout"
    <3>1. /\ Scheduled(Variants, Processes, MaxTime) /\ Based(Variants, Processes)
          /\ Cycles!Next \/ UNCHANGED gvars
      BY <2>2 DEF Next, Typed, Laddered
    <3>2. Round(Variants, Processes, MaxTime)
      BY <3>1, CyclesRound
    <3>3. Scheduled(Variants, Processes, MaxTime)'
      BY <3>1, <3>2, CyclesAssumed, RoundKeeps
    <3> QED
      BY <1>1, <2>2, <3>3
  <2> QED
    BY <2>1, <2>2
<1> QED
  BY <1>2, <1>3, <1>4, <1>5, <1>6 DEF Typed

\* Every variable of every part keeps its type, with the lock and without it, for any
\* number of callers, processes, variants and contexts.
THEOREM TypeCorrect == Spec => []TypeOK
<1>1. Typed => TypeOK
  <2> SUFFICES ASSUME Typed PROVE TypeOK
    OBVIOUS
  <2>1. IF part = "rollout" THEN Rollout!TypeOK ELSE Cycles!TypeOK
    BY RolloutTyped, CyclesTyped DEF Typed, Laddered, Based
  <2>2. Execution!TypeOK
    BY ExecutionTyped DEF Typed
  <2> QED
    BY <2>1, <2>2 DEF Typed, TypeOK
<1>2. Init => Typed
  BY TypedInit
<1>3. Typed /\ [Next]_<<part, svars, gvars, evars, dvars>> => Typed'
  BY TypedStep
<1> QED
  BY <1>1, <1>2, <1>3, PTL DEF Spec
=============================================================================
