--------------------------- MODULE MigrateProofs ----------------------------
(***************************************************************************)
(* Theorems about Migrate for any number of processes, binaries of any     *)
(* age and any number of deaths.                                           *)
(***************************************************************************)
EXTENDS Migrate, FiniteSetTheorems, TLAPS

Labels == {"down", "loop", "record", "failed", "ready"}

IsPrefix(S) == \E n \in Nat : S = 1 .. n

-----------------------------------------------------------------------------
(* The invariant. *)

MigrateTypeOK ==
    /\ recorded \subseteq Versions
    /\ effects \in [Versions -> Nat]
    /\ pc \in [Processes -> Labels]
    /\ known \in [Processes -> SUBSET Versions]
    /\ next \in [Processes -> Nat]

(* The SQL of a migration and its record are committed together. *)
EffectsAreRecorded == \A v \in Versions : effects[v] = IF v \in recorded THEN 1 ELSE 0

RecordedIsPrefix == IsPrefix(recorded)

(* What a process read is behind what is recorded, and has no gaps. *)
KnownIsPast == \A p \in Processes : known[p] \subseteq recorded /\ IsPrefix(known[p])

(* A process is in the transaction of the first migration it misses. *)
NextIsFirstMissing ==
    \A p \in Processes :
        pc[p] = "record" => next[p] \in Embedded[p] /\ known[p] = 1 .. (next[p] - 1)

ReadyMissesNothing == \A p \in Processes : pc[p] = "ready" => Embedded[p] \subseteq known[p]

MigrateInv ==
    /\ MigrateTypeOK
    /\ EffectsAreRecorded
    /\ RecordedIsPrefix
    /\ KnownIsPast
    /\ NextIsFirstMissing
    /\ ReadyMissesNothing

-----------------------------------------------------------------------------
(* Versions. *)

LEMMA EmbeddedIsPrefix ==
    ASSUME NEW p \in Processes
    PROVE  /\ Embedded[p] \subseteq Versions
           /\ IsPrefix(Embedded[p])
<1>1. Embedded[p] \subseteq Versions
  BY DEF Versions
<1>2. Cardinality(Embedded[p]) \in Nat
  BY <1>1, VersionsAreFinite, FS_Subset, FS_CardinalityType
<1> QED
  BY <1>1, <1>2, EmbeddedArePrefixes DEF IsPrefix

LEMMA VersionsArePositive == Versions \subseteq Nat \ {0}
<1> SUFFICES ASSUME NEW p \in Processes, NEW v \in Embedded[p]
             PROVE  v \in Nat \ {0}
  BY DEF Versions
<1> QED
  BY EmbeddedIsPrefix DEF IsPrefix

(* The oldest of the missing migrations follows the ones that are known. *)
LEMMA NextFollowsKnown ==
    ASSUME NEW p \in Processes, IsPrefix(known[p]), Missing(p) # {}
    PROVE  /\ NextMissing(p) \in Embedded[p]
           /\ known[p] = 1 .. (NextMissing(p) - 1)
<1>1. PICK n \in Nat : Embedded[p] = 1 .. n
  BY EmbeddedIsPrefix DEF IsPrefix
<1>2. PICK k \in Nat : known[p] = 1 .. k
  BY DEF IsPrefix
<1>3. k < n
  BY <1>1, <1>2 DEF Missing
<1>4. k + 1 \in Missing(p) /\ \A u \in Missing(p) : k + 1 <= u
  BY <1>1, <1>2, <1>3 DEF Missing
<1>5. NextMissing(p) \in Missing(p) /\ \A u \in Missing(p) : NextMissing(p) <= u
  BY <1>4 DEF NextMissing
<1>6. NextMissing(p) = k + 1
  BY <1>1, <1>4, <1>5 DEF Missing
<1> QED
  BY <1>2, <1>5, <1>6 DEF Missing

-----------------------------------------------------------------------------
(* The invariant is inductive. *)

LEMMA MigrateInvInit == Init => MigrateInv
<1> SUFFICES ASSUME Init PROVE MigrateInv
  OBVIOUS
<1>1. IsPrefix({})
  <2>1. {} = 1 .. 0
    OBVIOUS
  <2> QED
    BY <2>1 DEF IsPrefix
<1> QED
  BY <1>1 DEF Init, MigrateInv, MigrateTypeOK, EffectsAreRecorded, RecordedIsPrefix, KnownIsPast,
       NextIsFirstMissing, ReadyMissesNothing, Labels

(* A step that changes no version set keeps the invariant if the place it  *)
(* goes to asks for nothing.                                               *)
LEMMA MovingKeepsInv ==
    ASSUME MigrateInv, NEW p \in Processes, NEW label \in {"down", "loop", "failed"},
           Goto(p, label), UNCHANGED <<recorded, effects, known, next>>
    PROVE  MigrateInv'
BY DEF MigrateInv, MigrateTypeOK, EffectsAreRecorded, RecordedIsPrefix, KnownIsPast,
     NextIsFirstMissing, ReadyMissesNothing, Labels, Goto, IsPrefix

LEMMA MigrateInvStep ==
    ASSUME MigrateInv, [Next]_vars
    PROVE  MigrateInv'
<1> USE DEF MigrateInv
<1>1. ASSUME NEW p \in Processes, ReadApplied(p)
      PROVE  MigrateInv'
  BY <1>1 DEF ReadApplied, Goto, MigrateTypeOK, EffectsAreRecorded, RecordedIsPrefix,
       KnownIsPast, NextIsFirstMissing, ReadyMissesNothing, Labels, IsPrefix
<1>2. ASSUME NEW p \in Processes, RunSQL(p)
      PROVE  MigrateInv'
  <2>1. /\ NextMissing(p) \in Embedded[p]
        /\ known[p] = 1 .. (NextMissing(p) - 1)
    BY <1>2, NextFollowsKnown DEF RunSQL, KnownIsPast
  <2>2. NextMissing(p) \in Nat
    BY <2>1, EmbeddedIsPrefix, VersionsArePositive
  <2>3. MigrateTypeOK' /\ NextIsFirstMissing' /\ ReadyMissesNothing'
    BY <1>2, <2>1, <2>2 DEF RunSQL, Goto, MigrateTypeOK, NextIsFirstMissing, ReadyMissesNothing, Labels
  <2> QED
    BY <1>2, <2>3 DEF RunSQL, EffectsAreRecorded, RecordedIsPrefix, KnownIsPast, IsPrefix
<1>3. ASSUME NEW p \in Processes, Commit(p)
      PROVE  MigrateInv'
  <2>1. next[p] \in Embedded[p] /\ known[p] = 1 .. (next[p] - 1) /\ next[p] \notin recorded
    BY <1>3 DEF Commit, NextIsFirstMissing
  <2>2. next[p] \in Versions /\ next[p] \in Nat \ {0}
    BY <2>1, EmbeddedIsPrefix, VersionsArePositive
  <2>3. PICK n \in Nat : recorded = 1 .. n
    BY DEF RecordedIsPrefix, IsPrefix
  <2>4. next[p] = n + 1
    <3>1. n < next[p]
      BY <2>1, <2>2, <2>3
    <3>2. \A u \in 1 .. (next[p] - 1) : u \in 1 .. n
      BY <2>1, <2>3 DEF KnownIsPast
    <3> QED
      BY <3>1, <3>2, <2>2
  <2>5. recorded' = 1 .. (n + 1) /\ known'[p] = 1 .. (n + 1)
    BY <1>3, <2>1, <2>3, <2>4 DEF Commit, MigrateTypeOK
  <2>6. \A q \in Processes \ {p} : known'[q] = known[q] /\ pc'[q] = pc[q] /\ next'[q] = next[q]
    BY <1>3 DEF Commit, Goto, MigrateTypeOK
  <2>7. MigrateTypeOK'
    BY <1>3, <2>2 DEF Commit, Goto, MigrateTypeOK, Labels
  <2>8. EffectsAreRecorded'
    BY <1>3, <2>1, <2>2 DEF Commit, MigrateTypeOK, EffectsAreRecorded
  <2>9. RecordedIsPrefix' /\ KnownIsPast'
    <3>1. RecordedIsPrefix'
      BY <2>5 DEF RecordedIsPrefix, IsPrefix
    <3>2. known'[p] \subseteq recorded' /\ IsPrefix(known'[p])
      BY <2>5 DEF IsPrefix
    <3>3. ASSUME NEW q \in Processes \ {p}
          PROVE  known'[q] \subseteq recorded' /\ IsPrefix(known'[q])
      BY <1>3, <2>6, <3>3 DEF KnownIsPast, Commit
    <3> QED
      BY <3>1, <3>2, <3>3 DEF KnownIsPast
  <2>10. NextIsFirstMissing' /\ ReadyMissesNothing'
    <3>1. pc'[p] = "loop" /\ next' = next
      BY <1>3 DEF Commit, Goto, MigrateTypeOK
    <3> QED
      BY <3>1, <2>6 DEF NextIsFirstMissing, ReadyMissesNothing
  <2> QED
    BY <2>7, <2>8, <2>9, <2>10
<1>4. ASSUME NEW p \in Processes, Rollback(p) \/ LockTimeout(p) \/ Retry(p) \/ Die(p)
      PROVE  MigrateInv'
  BY <1>4, MovingKeepsInv DEF Rollback, LockTimeout, Retry, Die
<1>5. ASSUME NEW p \in Processes, OpenDone(p)
      PROVE  MigrateInv'
  BY <1>5 DEF OpenDone, Missing, Goto, MigrateTypeOK, EffectsAreRecorded, RecordedIsPrefix,
       KnownIsPast, NextIsFirstMissing, ReadyMissesNothing, Labels, IsPrefix
<1>6. CASE UNCHANGED vars
  BY <1>6 DEF vars, MigrateTypeOK, EffectsAreRecorded, RecordedIsPrefix, KnownIsPast,
       NextIsFirstMissing, ReadyMissesNothing, IsPrefix
<1> QED
  BY <1>1, <1>2, <1>3, <1>4, <1>5, <1>6 DEF Next, Step, AllReady

LEMMA MigrateInvariant == Spec => []MigrateInv
BY MigrateInvInit, MigrateInvStep, PTL DEF Spec

-----------------------------------------------------------------------------
(* No migration takes effect twice, whoever raced or died in the middle.   *)
THEOREM MigrationsAreAppliedOnce == Spec => []AppliedOnce
<1>1. MigrateInv => AppliedOnce
  BY DEF MigrateInv, EffectsAreRecorded, AppliedOnce
<1> QED
  BY <1>1, MigrateInvariant, PTL

(* The schema is the result of the first n migrations, whatever the age of *)
(* the binaries that migrated it.                                          *)
THEOREM SchemaHasNoGaps == Spec => []NoGaps
<1>1. ASSUME MigrateInv PROVE NoGaps
  <2>1. PICK n \in Nat : recorded = 1 .. n
    BY <1>1 DEF MigrateInv, RecordedIsPrefix, IsPrefix
  <2>2. {v \in Versions : effects[v] > 0} = 1 .. n
    <3>1. \A v \in Versions : effects[v] > 0 <=> v \in recorded
      BY <1>1 DEF MigrateInv, EffectsAreRecorded
    <3>2. recorded \subseteq Versions
      BY <1>1 DEF MigrateInv, MigrateTypeOK
    <3> QED
      BY <3>1, <3>2, <2>1
  <2>3. Cardinality(1 .. n) = n
    BY FS_Interval
  <2>4. Cardinality(1 .. n) <= Cardinality(Versions) /\ Cardinality(Versions) \in Nat
    BY <1>1, <2>1, VersionsAreFinite, FS_Subset, FS_CardinalityType DEF MigrateInv, MigrateTypeOK
  <2>5. n \in 0 .. Cardinality(Versions)
    BY <2>3, <2>4
  <2> QED
    BY <2>2, <2>5 DEF NoGaps
<1> QED
  BY <1>1, MigrateInvariant, PTL

(* A store that opened has every migration of its binary applied. *)
THEOREM ReadyStoresAreMigrated == Spec => []ReadyIsMigrated
<1>1. ASSUME MigrateInv PROVE ReadyIsMigrated
  <2> SUFFICES ASSUME NEW p \in Processes, pc[p] = "ready", NEW v \in Embedded[p]
               PROVE  effects[v] > 0
    BY DEF ReadyIsMigrated
  <2>1. v \in recorded /\ v \in Versions
    BY <1>1, EmbeddedIsPrefix DEF MigrateInv, ReadyMissesNothing, KnownIsPast
  <2> QED
    BY <1>1, <2>1 DEF MigrateInv, EffectsAreRecorded
<1> QED
  BY <1>1, MigrateInvariant, PTL
=============================================================================
