--------------------------- MODULE ArtifactStore ---------------------------
(***************************************************************************)
(* A JSON state file of the worker and the calls that use it.  Four        *)
(* classes keep their state this way (learning state, strategy deployment, *)
(* version lineage, venue health): a save copies the primary to a          *)
(* snapshot, writes a temporary file and renames it over the primary; a    *)
(* load that cannot parse the primary moves it away and returns the newest *)
(* snapshot it can parse.  Every step below is one call to the file        *)
(* system, between which other callers run and the process may die.        *)
(* A file's text is the set of decisions it records, or Torn.              *)
(***************************************************************************)
EXTENDS Naturals, Sequences, FiniteSets

CONSTANTS
  Callers,         \* calls in flight at one time
  Decisions,       \* what recordDecision may be asked to record
  Serial,          \* TRUE: a call starts only when no other one is running
  MaxCrashes,      \* bound on the deaths of the process
  MaxCorruptions,  \* bound on the primaries found unreadable
  MaxCalls         \* bound on the calls made

VARIABLES
  files,    \* inode -> text
  primary,  \* the inode under the state path, or None
  tmp,      \* the inode under the temporary path, or None
  snaps,    \* the snapshot files, oldest first
  call,     \* caller -> the call it is making
  acked,    \* decisions whose recordDecision returned since the last corruption
  returned, \* what loads returned since the last corruption
  bounds

vars == <<files, primary, tmp, snaps, call, acked, returned, bounds>>

Inodes == 1 .. Cardinality(Callers) + 2
None == 0
Torn == {"torn"}
Empty == {}

Idle == [pc |-> "idle", decision |-> "none", state |-> Empty, inode |-> None,
         snap |-> 0]

ArtifactAssumption ==
  /\ IsFiniteSet(Callers) /\ "torn" \notin Decisions /\ "none" \notin Decisions
  /\ Serial \in BOOLEAN /\ MaxCrashes \in Nat /\ MaxCorruptions \in Nat /\ MaxCalls \in Nat

Init ==
  /\ files = [i \in Inodes |-> Empty]
  /\ primary = None /\ tmp = None /\ snaps = <<>>
  /\ call = [c \in Callers |-> Idle]
  /\ acked = {} /\ returned = {}
  /\ bounds = [crashes |-> 0, corruptions |-> 0, calls |-> 0]

Go(c, pc) == call' = [call EXCEPT ![c].pc = pc]

(* An inode no path and no open file refers to. *)
FreeInode ==
  CHOOSE i \in Inodes : i \notin {primary, tmp} \cup {call[c].inode : c \in Callers}

MayStart(c) ==
  /\ call[c].pc = "idle" /\ bounds.calls < MaxCalls
  /\ Serial => \A o \in Callers : call[o].pc = "idle"

Start(c, d) ==
  /\ call' = [call EXCEPT ![c] = [Idle EXCEPT !.pc = "read", !.decision = d]]
  /\ bounds' = [bounds EXCEPT !.calls = @ + 1]
  /\ UNCHANGED <<files, primary, tmp, snaps, acked, returned>>

(* recordDecision: load, add the decision, save. *)
RecordDecision(c, d) ==
  /\ MayStart(c) /\ d \notin acked
  /\ \A o \in Callers : call[o].decision # d
  /\ Start(c, d)

(* getDecision, getLatestForSignal and every other load that saves nothing. *)
Load(c) == MayStart(c) /\ Start(c, "none")

(* load has its state: the caller returns it, or adds its decision and saves. *)
Loaded(c, state) ==
  /\ returned' = returned \cup state
  /\ LET d == call[c].decision
     IN  call' = [call EXCEPT ![c] =
           IF d = "none" THEN Idle ELSE [@ EXCEPT !.pc = "copy", !.state = state \cup {d}]]

(* readFile: a missing file is replaced by a default, which goes through the    *)
(* same steps of save, and an unreadable one is recovered.                      *)
ReadPrimary(c) ==
  /\ call[c].pc = "read"
  /\ IF primary = None
     THEN call' = [call EXCEPT ![c].pc = "copy", ![c].state = Empty] /\ UNCHANGED returned
     ELSE IF files[primary] = Torn THEN Go(c, "quarantine") /\ UNCHANGED returned
     ELSE Loaded(c, files[primary])
  /\ UNCHANGED <<files, primary, tmp, snaps, acked, bounds>>

(* quarantineCorruptPrimary: the primary moves to the corrupt directory. *)
QuarantineCorruptPrimary(c) ==
  /\ call[c].pc = "quarantine"
  /\ primary' = None
  /\ Go(c, "recover")
  /\ UNCHANGED <<files, tmp, snaps, acked, returned, bounds>>

Parseable == {i \in DOMAIN snaps : snaps[i] # Torn}

(* readLatestSnapshot: what it finds is returned, and the primary stays missing. *)
ReadLatestSnapshot(c) ==
  /\ call[c].pc = "recover"
  /\ IF Parseable = {}
     THEN call' = [call EXCEPT ![c].pc = "copy", ![c].state = Empty] /\ UNCHANGED returned
     ELSE Loaded(c, snaps[CHOOSE i \in Parseable : \A j \in Parseable : j <= i])
  /\ UNCHANGED <<files, primary, tmp, snaps, acked, bounds>>

(* createSnapshotIfPresent: a new file, and then its text. *)
BeginSnapshot(c) ==
  /\ call[c].pc = "copy"
  /\ IF primary = None
     THEN Go(c, "open") /\ UNCHANGED snaps
     ELSE /\ snaps' = Append(snaps, Torn)
          /\ call' = [call EXCEPT ![c].pc = "copying", ![c].snap = Len(snaps) + 1]
  /\ UNCHANGED <<files, primary, tmp, acked, returned, bounds>>

(* The text of the primary reaches the snapshot it opened. *)
EndSnapshot(c) ==
  /\ call[c].pc = "copying"
  /\ snaps' = [snaps EXCEPT ![call[c].snap] = IF primary = None THEN Torn ELSE files[primary]]
  /\ Go(c, "open")
  /\ UNCHANGED <<files, primary, tmp, acked, returned, bounds>>

(* Mutant: the state is written in place, without a temporary file. *)
OpenTmpInPlace(c) ==
  LET i == IF primary = None THEN FreeInode ELSE primary
  IN  /\ call[c].pc = "open"
      /\ primary' = i /\ tmp' = i
      /\ files' = [files EXCEPT ![i] = Torn]
      /\ call' = [call EXCEPT ![c].pc = "write", ![c].inode = i]
      /\ UNCHANGED <<snaps, acked, returned, bounds>>

(* writeFile opens the temporary path, the same for every caller, and truncates it. *)
OpenTmp(c) ==
  LET i == IF tmp = None THEN FreeInode ELSE tmp
  IN  /\ call[c].pc = "open"
      /\ tmp' = i
      /\ files' = [files EXCEPT ![i] = Torn]
      /\ call' = [call EXCEPT ![c].pc = "write", ![c].inode = i]
      /\ UNCHANGED <<primary, snaps, acked, returned, bounds>>

(* A shorter text leaves the tail of the longer one it overwrites. *)
Written(old, new) ==
  IF old # Torn /\ Cardinality(old) > Cardinality(new) THEN Torn ELSE new

(* writeFile writes to the file it opened, whatever path that file has by now. *)
WriteTmp(c) ==
  /\ call[c].pc = "write"
  /\ files' = [files EXCEPT ![call[c].inode] = Written(@, call[c].state)]
  /\ call' = [call EXCEPT ![c].pc = "rename", ![c].inode = None]
  /\ UNCHANGED <<primary, tmp, snaps, acked, returned, bounds>>

(* The save is done: load goes on with the default, or the record is acknowledged. *)
Saved(c) ==
  IF call[c].decision \in call[c].state
  THEN /\ acked' = acked \cup {call[c].decision}
       /\ call' = [call EXCEPT ![c] = Idle]
       /\ UNCHANGED returned
  ELSE Loaded(c, Empty) /\ UNCHANGED acked

(* rename over the primary; it fails when another save has renamed the file away. *)
RenameTmp(c) ==
  /\ call[c].pc = "rename"
  /\ IF tmp = None
     THEN Go(c, "unlink") /\ UNCHANGED <<primary, tmp, acked, returned>>
     ELSE /\ primary' = tmp /\ tmp' = None
          /\ Saved(c)
  /\ UNCHANGED <<files, snaps, bounds>>

(* safeUnlink of whatever is under the temporary path; the save throws. *)
UnlinkTmp(c) ==
  /\ call[c].pc = "unlink"
  /\ tmp' = None
  /\ call' = [call EXCEPT ![c] = Idle]
  /\ UNCHANGED <<files, primary, snaps, acked, returned, bounds>>

(* The process dies between two steps; open files are gone, paths stay. *)
Crash ==
  /\ bounds.crashes < MaxCrashes
  /\ \E c \in Callers : call[c].pc # "idle"
  /\ call' = [c \in Callers |-> Idle]
  /\ bounds' = [bounds EXCEPT !.crashes = @ + 1]
  /\ UNCHANGED <<files, primary, tmp, snaps, acked, returned>>

(* The primary is found unreadable (an edit, a full disk). *)
Corrupt ==
  /\ bounds.corruptions < MaxCorruptions
  /\ primary # None
  /\ \A c \in Callers : call[c].pc = "idle"
  /\ files' = [files EXCEPT ![primary] = Torn]
  /\ acked' = {} /\ returned' = {}
  /\ bounds' = [bounds EXCEPT !.corruptions = @ + 1]
  /\ UNCHANGED <<primary, tmp, snaps, call>>

Step(c) ==
  \/ \E d \in Decisions : RecordDecision(c, d)
  \/ Load(c) \/ ReadPrimary(c) \/ QuarantineCorruptPrimary(c) \/ ReadLatestSnapshot(c)
  \/ BeginSnapshot(c) \/ EndSnapshot(c)
  \/ OpenTmp(c) \/ WriteTmp(c) \/ RenameTmp(c) \/ UnlinkTmp(c)

Next == (\E c \in Callers : Step(c)) \/ Crash \/ Corrupt

Spec == Init /\ [][Next]_vars

-----------------------------------------------------------------------------
Texts == (SUBSET Decisions) \cup {Torn}

TypeOK ==
  /\ files \in [Inodes -> Texts]
  /\ primary \in Inodes \cup {None} /\ tmp \in Inodes \cup {None}
  /\ snaps \in Seq(Texts)
  /\ call \in [Callers ->
       [pc : {"idle", "read", "quarantine", "recover", "copy", "copying", "open",
              "write", "rename", "unlink"},
        decision : Decisions \cup {"none"}, state : SUBSET Decisions,
        inode : Inodes \cup {None}, snap : Nat]]
  /\ acked \subseteq Decisions /\ returned \subseteq Decisions

(* What the next load returns. *)
NextLoad ==
  IF primary = None THEN Empty
  ELSE IF files[primary] # Torn THEN files[primary]
  ELSE IF Parseable = {} THEN Empty
  ELSE snaps[CHOOSE i \in Parseable : \A j \in Parseable : j <= i]

(* An acknowledged decision is in what every later load returns, whichever     *)
(* step of a save the process dies in (the purpose of the temporary file and   *)
(* its rename), until the primary is corrupted from outside.                   *)
AcknowledgedKept == acked \subseteq NextLoad

(* What a load returned is not gone at the next one: a recovered state is kept  *)
(* (the store "persists and recovers from corruption").                         *)
RecoveredKept == returned \subseteq NextLoad
=============================================================================
