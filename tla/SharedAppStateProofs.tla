------------------------ MODULE SharedAppStateProofs ------------------------
(***************************************************************************)
(* The windows' merges implement atomic publications of their own edits,   *)
(* for any set of windows, entries and values.                             *)
(***************************************************************************)
EXTENDS SharedAppState, TLAPS

(* The guard is held by the window that persists, and while it is held     *)
(* what was merged, written and read back is still what is on disk.        *)
GuardHeld == \A w \in Windows : pc[w] \in Persisting => guard = w

MergeIsCurrent ==
    \A w \in Windows :
        pc[w] = "merged" => merged[w] = Merge(base[w], cur[w], disk)

WrittenIsOnDisk ==
    \A w \in Windows :
        pc[w] = "written" =>
            \A k \in Keys : cur[w][k] # base[w][k] => disk[k] = cur[w][k]

IInv ==
    /\ TypeOK
    /\ GuardHeld
    /\ MergeIsCurrent
    /\ WrittenIsOnDisk
    /\ SettledSeesDisk

(* A merge of entries has entries.                                         *)
LEMMA MergeType ==
    ASSUME NEW b \in Entries, NEW c \in Entries, NEW d \in Entries
    PROVE  Merge(b, c, d) \in Entries
  BY DEF Merge, Entries

(* The types hold of every reachable state.                                *)
LEMMA TypeStep == TypeOK /\ [Next]_vars => TypeOK'
  <1> SUFFICES ASSUME TypeOK, [Next]_vars PROVE TypeOK'
    OBVIOUS
  <1> USE DEF TypeOK, Locations, Persisting
  <1>1. ASSUME NEW w \in Windows, Load(w) PROVE TypeOK'
    BY <1>1 DEF Load
  <1>2. ASSUME NEW w \in Windows, BeginPersist(w) PROVE TypeOK'
    BY <1>2 DEF BeginPersist
  <1>3. ASSUME NEW w \in Windows, ReadAndMerge(w) PROVE TypeOK'
    <2>1. Merge(base[w], cur[w], disk) \in Entries
      BY MergeType
    <2> QED
      BY <1>3, <2>1 DEF ReadAndMerge
  <1>4. ASSUME NEW w \in Windows, WriteMerged(w) PROVE TypeOK'
    <2>1. disk' \in Entries
      BY <1>4 DEF WriteMerged
    <2>2. replaced' \in [Keys -> SUBSET (Values \cup {None})]
      BY <1>4, <2>1 DEF WriteMerged, Entries
    <2> QED
      BY <1>4, <2>1, <2>2 DEF WriteMerged
  <1>5. ASSUME NEW w \in Windows, ReadBack(w) PROVE TypeOK'
    BY <1>5 DEF ReadBack
  <1>6. NoEntries \in Entries
    BY DEF NoEntries, Entries
  <1>7. ASSUME NEW w \in Windows, FinishPersist(w) PROVE TypeOK'
    BY <1>6, <1>7 DEF FinishPersist, Leave
  <1>8. ASSUME NEW w \in Windows, FailPersist(w) PROVE TypeOK'
    BY <1>6, <1>8 DEF FailPersist, Leave
  <1>9. ASSUME NEW w \in Windows, Exit(w) PROVE TypeOK'
    BY <1>6, <1>9 DEF Exit
  <1>10. ASSUME NEW w \in Windows, NEW k \in Keys, Delete(w, k) PROVE TypeOK'
    <2>1. cur' \in [Windows -> Entries]
      BY <1>10 DEF Delete, Entries
    <2> QED
      BY <1>10, <2>1 DEF Delete
  <1>11. ASSUME NEW w \in Windows, NEW k \in Keys, NEW v \in Values,
                Set(w, k, v)
         PROVE  TypeOK'
    <2>1. cur' \in [Windows -> Entries]
      BY <1>11 DEF Set, Entries
    <2> QED
      BY <1>11, <2>1 DEF Set
  <1>12. CASE UNCHANGED vars
    BY <1>12 DEF vars
  <1> QED
    BY <1>1, <1>2, <1>3, <1>4, <1>5, <1>7, <1>8, <1>9, <1>10, <1>11, <1>12
    DEF Next

(* Only the window that holds the guard is past BeginPersist, so that no   *)
(* other window changes what it has merged, written or read back.          *)
LEMMA InvStep == IInv /\ [Next]_vars => IInv'
  <1> SUFFICES ASSUME IInv, [Next]_vars PROVE IInv'
    OBVIOUS
  <1>0. TypeOK'
    BY TypeStep DEF IInv
  <1> USE <1>0 DEF IInv, TypeOK, GuardHeld, MergeIsCurrent,
          WrittenIsOnDisk, SettledSeesDisk, Locations, Persisting
  <1>1. ASSUME NEW w \in Windows, Load(w) PROVE IInv'
    BY <1>1 DEF Load
  <1>2. ASSUME NEW w \in Windows, BeginPersist(w) PROVE IInv'
    BY <1>2, SharedAssumption DEF BeginPersist
  <1>3. ASSUME NEW w \in Windows, ReadAndMerge(w) PROVE IInv'
    BY <1>3 DEF ReadAndMerge
  <1>4. ASSUME NEW w \in Windows, WriteMerged(w) PROVE IInv'
    <2>1. disk' = Merge(base[w], cur[w], disk)
      BY <1>4 DEF WriteMerged
    <2>2. \A k \in Keys : cur[w][k] # base[w][k] => disk'[k] = cur[w][k]
      BY <2>1 DEF Merge
    <2>3. \A x \in Windows \ {w} : pc[x] \notin Persisting /\ pc'[x] = pc[x]
      BY <1>4 DEF WriteMerged
    <2>4. pc'[w] = "written" /\ guard' = guard /\ guard = w
      BY <1>4 DEF WriteMerged
    <2>5. base' = base /\ cur' = cur /\ merged' = merged
      BY <1>4 DEF WriteMerged
    <2>6. GuardHeld' /\ MergeIsCurrent' /\ SettledSeesDisk'
      BY <2>3, <2>4, <2>5
    <2>7. WrittenIsOnDisk'
      BY <2>2, <2>3, <2>4, <2>5
    <2> QED
      BY <2>6, <2>7
  <1>5. ASSUME NEW w \in Windows, ReadBack(w) PROVE IInv'
    BY <1>5 DEF ReadBack
  <1>6. ASSUME NEW w \in Windows, FinishPersist(w) PROVE IInv'
    BY <1>6 DEF FinishPersist, Leave
  <1>7. ASSUME NEW w \in Windows, FailPersist(w) PROVE IInv'
    BY <1>7 DEF FailPersist, Leave
  <1>8. ASSUME NEW w \in Windows, Exit(w) PROVE IInv'
    BY <1>8 DEF Exit
  <1>9. ASSUME NEW w \in Windows, NEW k \in Keys, Delete(w, k) PROVE IInv'
    BY <1>9 DEF Delete
  <1>10. ASSUME NEW w \in Windows, NEW k \in Keys, NEW v \in Values,
                Set(w, k, v)
         PROVE  IInv'
    BY <1>10 DEF Set
  <1>11. CASE UNCHANGED vars
    BY <1>11 DEF vars
  <1> QED
    BY <1>1, <1>2, <1>3, <1>4, <1>5, <1>6, <1>7, <1>8, <1>9, <1>10, <1>11
    DEF Next

LEMMA InvInit == Init => IInv
  <1>1. NoEntries \in Entries
    BY DEF NoEntries, Entries
  <1> QED
    BY <1>1 DEF Init, IInv, TypeOK, GuardHeld, MergeIsCurrent,
        WrittenIsOnDisk, SettledSeesDisk, Locations, Persisting

(* Type correctness.                                                       *)
THEOREM TypeCorrect == Spec => []TypeOK
  BY InvInit, InvStep, PTL DEF Spec, IInv

(* A window whose persist has just settled sees what is on disk and has    *)
(* nothing pending, whatever the other windows do.                         *)
THEOREM SettledIsCurrent == Spec => []SettledSeesDisk
  BY InvInit, InvStep, PTL DEF Spec, IInv

-----------------------------------------------------------------------------

(* An edit of the window is an edit of the abstract entries.               *)
LEMMA EditMaps ==
    ASSUME NEW w \in Windows, NEW k \in Keys, NEW v \in Values \cup {None},
           pc[w] = "running",
           cur' = [cur EXCEPT ![w][k] = v],
           UNCHANGED <<base, disk, pc>>
    PROVE  Shared!Edit(w, k)
  BY DEF Shared!Edit, Open

(* Every step of the windows is a step of the abstract entries or leaves   *)
(* them alone: an edit is an edit, a write is a publication, reading back  *)
(* settles, and only a window that is gone has forgotten.                  *)
LEMMA StepMaps == IInv /\ IInv' /\ [Next]_vars => [Shared!Next]_(Shared!vars)
  <1> SUFFICES ASSUME IInv, IInv', [Next]_vars
               PROVE  [Shared!Next]_(Shared!vars)
    OBVIOUS
  <1>a. ASSUME NEW w \in Windows, NEW here \in Locations \ {"off"},
               pc[w] # "off", pc' = [pc EXCEPT ![w] = here]
        PROVE  UNCHANGED Open
    BY <1>a DEF Open, IInv, TypeOK
  <1>1. ASSUME NEW w \in Windows, Load(w) PROVE Shared!Start(w)
    <2>1. Open' = Open \cup {w} /\ w \notin Open
      BY <1>1 DEF Load, Open, IInv, TypeOK
    <2> QED
      BY <1>1, <2>1 DEF Load, Shared!Start, Shared!See
  <1>2. ASSUME NEW w \in Windows, WriteMerged(w) PROVE Shared!Publish(w)
    <2>1. disk' = Merge(base[w], cur[w], disk)
      BY <1>2 DEF WriteMerged, IInv, MergeIsCurrent
    <2>2. disk' = [k \in Keys |-> IF cur[w][k] = base[w][k] THEN disk[k] ELSE cur[w][k]]
      BY <2>1 DEF Merge
    <2>3. UNCHANGED Open
      BY <1>2, <1>a DEF WriteMerged, Locations, Persisting
    <2>4. w \in Open
      BY <1>2 DEF WriteMerged, Open
    <2> QED
      BY <1>2, <2>2, <2>3, <2>4 DEF WriteMerged, Shared!Publish
  <1>3. ASSUME NEW w \in Windows, ReadBack(w) PROVE Shared!Settle(w)
    <2>1. \A k \in Keys : cur[w][k] \in {base[w][k], disk[k]}
      BY <1>3 DEF ReadBack, IInv, WrittenIsOnDisk
    <2>2. UNCHANGED Open
      BY <1>3, <1>a DEF ReadBack, Locations, Persisting
    <2>3. w \in Open
      BY <1>3 DEF ReadBack, Open
    <2> QED
      BY <1>3, <2>1, <2>2, <2>3 DEF ReadBack, Shared!Settle, Shared!See
  <1>4. ASSUME NEW w \in Windows, Exit(w) PROVE Shared!Die(w)
    <2>1. Open' = Open \ {w} /\ w \in Open
      BY <1>4 DEF Exit, Open, IInv, TypeOK
    <2> QED
      BY <1>4, <2>1 DEF Exit, Shared!Die, Shared!See, Shared!NoEntries, NoEntries
  <1>5. ASSUME NEW w \in Windows, NEW k \in Keys, Delete(w, k)
        PROVE  Shared!Edit(w, k)
    BY <1>5, EditMaps DEF Delete
  <1>6. ASSUME NEW w \in Windows, NEW k \in Keys, NEW v \in Values,
               Set(w, k, v)
        PROVE  Shared!Edit(w, k)
    BY <1>6, EditMaps DEF Set
  <1>7. ASSUME NEW w \in Windows,
               BeginPersist(w) \/ ReadAndMerge(w) \/ FinishPersist(w)
                 \/ FailPersist(w)
        PROVE  UNCHANGED Shared!vars
    <2>1. UNCHANGED <<disk, base, cur>>
      BY <1>7 DEF BeginPersist, ReadAndMerge, FinishPersist, FailPersist
    <2>2. UNCHANGED Open
      BY <1>7, <1>a DEF BeginPersist, ReadAndMerge, FinishPersist, FailPersist,
                        Locations, Persisting
    <2> QED
      BY <2>1, <2>2 DEF Shared!vars
  <1>8. CASE UNCHANGED vars
    BY <1>8 DEF vars, Shared!vars, Open
  <1> QED
    BY <1>1, <1>2, <1>3, <1>4, <1>5, <1>6, <1>7, <1>8 DEF Next, Shared!Next

LEMMA InitMaps == Init => Shared!Init
  BY DEF Init, Shared!Init, NoEntries, Shared!NoEntries, Open

(* The windows' persists publish their own edits, each persist at once and *)
(* nothing else: SharedAppState implements SharedEntries.                  *)
THEOREM Implements == Spec => PublishesOwnEdits
  <1>1. Init => Shared!Init
    BY InitMaps
  <1>2. IInv /\ IInv' /\ [Next]_vars => [Shared!Next]_(Shared!vars)
    BY StepMaps
  <1> QED
    BY <1>1, <1>2, InvInit, InvStep, PTL
    DEF Spec, PublishesOwnEdits, Shared!Spec
-----------------------------------------------------------------------------

(* Every value anywhere was given by an edit.                              *)
ValuesUsed ==
    \A k \in Keys :
        /\ disk[k] \in used \cup {None}
        /\ replaced[k] \subseteq used \cup {None}
        /\ \A w \in Windows :
            /\ cur[w][k] \in used \cup {None}
            /\ base[w][k] \in used \cup {None}
            /\ merged[w][k] \in used \cup {None}

(* What a window has pending and has not written yet is known to no other  *)
(* window and was never on disk, if the window's baseline is sound.        *)
PendingIsPrivate ==
    \A w \in Windows, k \in Keys :
        /\ w \notin unsettled
        /\ pc[w] \in {"running", "merging", "merged"}
        /\ cur[w][k] # base[w][k]
        /\ cur[w][k] # None
        => /\ cur[w][k] # disk[k]
           /\ cur[w][k] \notin replaced[k]
           /\ \A x \in Windows \ {w} :
                /\ cur[w][k] # cur[x][k]
                /\ cur[w][k] # base[x][k]
                /\ cur[w][k] # merged[x][k]

JInv == IInv /\ ValuesUsed /\ PendingIsPrivate

LEMMA UsedStep == JInv /\ [Next]_vars => ValuesUsed'
  <1> SUFFICES ASSUME JInv, [Next]_vars PROVE ValuesUsed'
    OBVIOUS
  <1> USE DEF JInv, ValuesUsed, IInv, TypeOK, Entries, NoEntries
  <1>1. ASSUME NEW w \in Windows, Load(w) PROVE ValuesUsed'
    BY <1>1 DEF Load
  <1>2. ASSUME NEW w \in Windows, BeginPersist(w) PROVE ValuesUsed'
    BY <1>2 DEF BeginPersist
  <1>3. ASSUME NEW w \in Windows, ReadAndMerge(w) PROVE ValuesUsed'
    BY <1>3 DEF ReadAndMerge, Merge
  <1>4. ASSUME NEW w \in Windows, WriteMerged(w) PROVE ValuesUsed'
    BY <1>4 DEF WriteMerged
  <1>5. ASSUME NEW w \in Windows, ReadBack(w) PROVE ValuesUsed'
    BY <1>5 DEF ReadBack
  <1>6. ASSUME NEW w \in Windows, FinishPersist(w) PROVE ValuesUsed'
    BY <1>6 DEF FinishPersist, Leave
  <1>7. ASSUME NEW w \in Windows, FailPersist(w) PROVE ValuesUsed'
    BY <1>7 DEF FailPersist, Leave
  <1>8. ASSUME NEW w \in Windows, Exit(w) PROVE ValuesUsed'
    BY <1>8 DEF Exit
  <1>9. ASSUME NEW w \in Windows, NEW k \in Keys, Delete(w, k)
         PROVE  ValuesUsed'
    BY <1>9 DEF Delete
  <1>10. ASSUME NEW w \in Windows, NEW k \in Keys, NEW v \in Values,
                Set(w, k, v)
         PROVE  ValuesUsed'
    BY <1>10 DEF Set
  <1>11. CASE UNCHANGED vars
    BY <1>11 DEF vars
  <1> QED
    BY <1>1, <1>2, <1>3, <1>4, <1>5, <1>6, <1>7, <1>8, <1>9, <1>10, <1>11
    DEF Next

(* A new value is private because it is fresh; another window learns of it *)
(* only from the disk, and there it is no longer pending.                  *)
LEMMA PrivateStep == JInv /\ [Next]_vars => PendingIsPrivate'
  <1> SUFFICES ASSUME JInv, [Next]_vars PROVE PendingIsPrivate'
    OBVIOUS
  <1> USE DEF JInv, ValuesUsed, PendingIsPrivate, IInv, TypeOK, Entries,
          NoEntries, SettledSeesDisk
  <1>1. ASSUME NEW w \in Windows, Load(w) PROVE PendingIsPrivate'
    BY <1>1 DEF Load
  <1>2. ASSUME NEW w \in Windows, BeginPersist(w) PROVE PendingIsPrivate'
    BY <1>2 DEF BeginPersist
  <1>3. ASSUME NEW w \in Windows, ReadAndMerge(w) PROVE PendingIsPrivate'
    BY <1>3 DEF ReadAndMerge, Merge
  <1>4. ASSUME NEW w \in Windows, WriteMerged(w) PROVE PendingIsPrivate'
    BY <1>4 DEF WriteMerged
  <1>5. ASSUME NEW w \in Windows, ReadBack(w) PROVE PendingIsPrivate'
    BY <1>5 DEF ReadBack
  <1>6. ASSUME NEW w \in Windows, FinishPersist(w) PROVE PendingIsPrivate'
    BY <1>6 DEF FinishPersist, Leave
  <1>7. ASSUME NEW w \in Windows, FailPersist(w) PROVE PendingIsPrivate'
    BY <1>7 DEF FailPersist, Leave, Persisting
  <1>8. ASSUME NEW w \in Windows, Exit(w) PROVE PendingIsPrivate'
    BY <1>8 DEF Exit
  <1>9. ASSUME NEW w \in Windows, NEW k \in Keys, Delete(w, k)
         PROVE  PendingIsPrivate'
    BY <1>9 DEF Delete
  <1>10. ASSUME NEW w \in Windows, NEW k \in Keys, NEW v \in Values,
                Set(w, k, v)
         PROVE  PendingIsPrivate'
    BY <1>10 DEF Set
  <1>11. CASE UNCHANGED vars
    BY <1>11 DEF vars
  <1> QED
    BY <1>1, <1>2, <1>3, <1>4, <1>5, <1>6, <1>7, <1>8, <1>9, <1>10, <1>11
    DEF Next

LEMMA JInvInit == Init => JInv
  BY InvInit DEF Init, JInv, ValuesUsed, PendingIsPrivate, NoEntries

LEMMA JInvStep == JInv /\ [Next]_vars => JInv'
  BY InvStep, UsedStep, PrivateStep DEF JInv

(* Only WriteMerged writes, and what it changes was pending.               *)
LEMMA ReplacedStep ==
    JInv /\ [Next]_vars
      => [\A k \in Keys : disk'[k] # disk[k] /\ disk'[k] \in replaced[k] \ {None}
            => guard \in unsettled]_vars
  <1> SUFFICES ASSUME JInv, [Next]_vars,
                      NEW k \in Keys, disk'[k] # disk[k],
                      disk'[k] \in replaced[k] \ {None}
               PROVE  guard \in unsettled
    OBVIOUS
  <1>1. PICK w \in Windows : WriteMerged(w)
    BY DEF Next, vars, Load, BeginPersist, ReadAndMerge, ReadBack,
       FinishPersist, FailPersist, Exit, Delete, Set
  <1>2. disk'[k] = cur[w][k] /\ cur[w][k] # base[w][k]
    BY <1>1 DEF WriteMerged, JInv, IInv, MergeIsCurrent, Merge
  <1>3. guard = w
    BY <1>1 DEF WriteMerged, JInv, IInv, GuardHeld, Persisting
  <1> QED
    BY <1>1, <1>2, <1>3 DEF WriteMerged, JInv, PendingIsPrivate

(* A value another edit replaced on disk comes back only through a window  *)
(* that could not read its own last write back.                            *)
THEOREM NothingComesBack == Spec => ReplacedStaysReplaced
  BY JInvInit, JInvStep, ReplacedStep, PTL DEF Spec, ReplacedStaysReplaced
=============================================================================
