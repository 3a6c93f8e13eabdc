---------------------------- MODULE SettingsProofs ----------------------------
(***************************************************************************)
(* Theorems about Settings, for any settings, any MAX_VERSION and any      *)
(* number of changes and resets.                                           *)
(***************************************************************************)
EXTENDS Settings, TLAPS

USE SettingsAssumption, VersionAssumption, BoundsAssumption

-----------------------------------------------------------------------------
(***************************************************************************)
(* The inductive invariant.                                                *)
(***************************************************************************)
\* What the valid sectors hold, and what is being written, was requested.
HoldsRequested == /\ \A p \in Pages : flash[p].valid => flash[p].doors \in requested
                  /\ op # "idle" => doors \in requested

\* The sector being written is not the one that would be restored.
Spared == op # "idle" => page # CurrentPage

Kept == saved # None => CurrentPage # -1

Undisturbed == boots = 0 /\ tears = 0 /\ changes <= MaxVersion

\* Without resets the rank of a sector's version is the number of the change
\* it was saved after, so that the newest sector has the highest rank.
Counted == Undisturbed =>
  /\ IF changes = 0 THEN version = 0 ELSE Rank(version) = changes
  /\ pending > 0 \/ op # "idle" => changes > 0
  /\ \A p \in Pages : flash[p].valid =>
       /\ Rank(flash[p].version) \in 1 .. changes
       /\ Rank(flash[p].version) = changes => flash[p].doors = doors
  /\ Restored = saved

IInv == TypeOK /\ HoldsRequested /\ Spared /\ Kept /\ Counted /\ Persisted

-----------------------------------------------------------------------------
(***************************************************************************)
(* Versions and sectors.                                                   *)
(***************************************************************************)
LEMMA NextVersionIs ==
  ASSUME version \in Versions
  PROVE  NextVersion = IF version + 1 = MaxVersion THEN 0 ELSE version + 1
<1>1. CASE version + 1 = MaxVersion
  BY <1>1 DEF NextVersion, Versions
<1>2. CASE version + 1 < MaxVersion
  BY <1>2 DEF NextVersion, Versions
<1> QED
  BY <1>1, <1>2 DEF Versions

\* A sector that holds settings is valid.
LEMMA SectorType ==
  ASSUME TypeOK, NEW p \in Pages
  PROVE  /\ flash[p].valid \in BOOLEAN /\ flash[p].version \in Versions
         /\ flash[p].doors \in Doors \cup {None}
         /\ flash[p].valid <=> flash[p].doors # None
  BY DEF TypeOK, Sector

\* flash_get_current_page finds a valid sector if there is one.
LEMMA CurrentIs ==
  ASSUME TypeOK
  PROVE  /\ CurrentPage \in Pages \cup {-1}
         /\ CurrentPage = -1 <=> ~flash[0].valid /\ ~flash[1].valid
         /\ CurrentPage # -1 => flash[CurrentPage].valid
  BY DEF CurrentPage, Newest, Other, Pages

\* The sector that flash_write chooses is a different one.
LEMMA TargetIs ==
  ASSUME TypeOK
  PROVE  TargetPage \in Pages /\ TargetPage # CurrentPage
<1>1. CurrentPage \in {-1, 0, 1}
  BY CurrentIs DEF Pages
<1>2. CASE CurrentPage = -1
  BY <1>2 DEF TargetPage, Pages
<1>3. CASE CurrentPage = 0
  BY <1>3 DEF TargetPage, Pages
<1>4. CASE CurrentPage = 1
  BY <1>4 DEF TargetPage, Pages
<1> QED
  BY <1>1, <1>2, <1>3, <1>4

LEMMA ErasedType == Erased \in Sector /\ ~Erased.valid
  BY DEF Erased, Sector, Versions

-----------------------------------------------------------------------------
(***************************************************************************)
(* Each step preserves the invariant.                                      *)
(***************************************************************************)
LEMMA InitIInv == Init => IInv
<1> SUFFICES ASSUME Init PROVE IInv
  OBVIOUS
<1>1. TypeOK
  <2>1. flash \in [Pages -> Sector]
    BY ErasedType DEF Init
  <2>2. 0 \in Versions /\ 0 \in 0 .. Room
    BY DEF Versions
  <2> QED
    BY <2>1, <2>2 DEF Init, TypeOK, Pages
<1>2. \A p \in Pages : ~flash[p].valid
  BY ErasedType DEF Init
<1>3. CurrentPage = -1
  BY <1>1, <1>2, CurrentIs DEF Pages
<1> QED
  BY <1>1, <1>2, <1>3
  DEF Init, IInv, HoldsRequested, Spared, Kept, Counted, Undisturbed, Restored, Persisted

\* CurrentPage and what it holds only depend on the sectors.
LEMMA SameSectors ==
  ASSUME UNCHANGED flash
  PROVE  CurrentPage' = CurrentPage /\ Restored' = Restored
  BY DEF CurrentPage, Newest, Restored

\* Writing another sector than the current one keeps some sector valid.
LEMMA OtherSector ==
  ASSUME TypeOK, NEW f \in Sector, page # CurrentPage,
         flash' = [flash EXCEPT ![page] = f], CurrentPage # -1
  PROVE  /\ flash'[CurrentPage] = flash[CurrentPage]
         /\ CurrentPage' # -1
<1>1. CurrentPage \in Pages /\ flash[CurrentPage].valid
  BY CurrentIs
<1>2. flash'[CurrentPage] = flash[CurrentPage]
  BY <1>1 DEF TypeOK
<1>3. flash'[0].valid \/ flash'[1].valid
  BY <1>1, <1>2 DEF Pages
<1> QED
  BY <1>2, <1>3 DEF CurrentPage, Newest, Other

LEMMA PushType ==
  ASSUME pending \in 0 .. Room, dropped \in BOOLEAN, PushSave
  PROVE  pending' \in 0 .. Room /\ dropped' \in BOOLEAN
<1>1. CASE pending < Room /\ pending' = pending + 1 /\ UNCHANGED dropped
  BY <1>1
<1>2. CASE dropped' = TRUE /\ UNCHANGED pending
  BY <1>2
<1> QED
  BY <1>1, <1>2 DEF PushSave, Push

LEMMA SetIInv ==
  ASSUME IInv, NEW t \in Tags, NEW v \in Accepts[t], settings_set(t, v)
  PROVE  IInv'
<1> USE DEF IInv, settings_set
<1>1. doors' \in Doors
  BY DEF TypeOK, Doors
<1>2. version' \in Versions
  BY NextVersionIs DEF TypeOK, Versions
<1>3. TypeOK'
  <2>1. pending' \in 0 .. Room /\ dropped' \in BOOLEAN
    BY PushType DEF TypeOK
  <2> QED
    BY <1>1, <1>2, <2>1 DEF TypeOK
<1>4. CurrentPage' = CurrentPage /\ Restored' = Restored
  BY SameSectors
<1>5. Counted'
  <2> SUFFICES ASSUME Undisturbed' PROVE Counted'
    BY DEF Counted
  <2>1. Undisturbed /\ changes' = changes + 1 /\ changes \in Nat /\ changes < MaxVersion
    BY DEF Undisturbed, TypeOK
  <2>2. Rank(version') = changes'
    <3>1. version \in 0 .. MaxVersion - 1
      BY DEF TypeOK, Versions
    <3>2. IF changes = 0 THEN version = 0 ELSE version = changes
      BY <2>1, <3>1 DEF Counted, Rank
    <3>3. version' = IF version + 1 = MaxVersion THEN 0 ELSE version + 1
      BY NextVersionIs DEF TypeOK
    <3> QED
      BY <2>1, <3>1, <3>2, <3>3 DEF Rank
  <2>3. \A p \in Pages : flash'[p].valid => Rank(flash'[p].version) \in 1 .. changes
    BY <2>1 DEF Counted
  <2>4. \A p \in Pages : flash'[p].valid =>
          Rank(flash'[p].version) \in 1 .. changes' /\ Rank(flash'[p].version) # changes'
    BY <2>1, <2>3
  <2> HIDE DEF settings_set
  <2>5. Restored' = saved' /\ changes' # 0 /\ changes' > 0
    BY <1>4, <2>1 DEF Counted, settings_set
  <2> QED
    BY <2>2, <2>4, <2>5 DEF Counted, Rank
<1>6. HoldsRequested' /\ Spared' /\ Kept'
  BY <1>4 DEF HoldsRequested, Spared, Kept
<1>7. Persisted'
  BY DEF Persisted, PushSave, Push, TypeOK
<1> QED
  BY <1>3, <1>5, <1>6, <1>7

LEMMA SaveIInv ==
  ASSUME IInv, settings_save
  PROVE  IInv'
<1> USE DEF IInv, settings_save
<1>1. TypeOK'
  BY TargetIs DEF TypeOK
<1>2. CurrentPage' = CurrentPage /\ Restored' = Restored
  BY SameSectors
<1>3. Spared'
  BY <1>2, TargetIs DEF Spared
<1>4. HoldsRequested' /\ Kept' /\ Persisted'
  BY <1>2 DEF HoldsRequested, Kept, Persisted
<1>5. Counted'
  BY <1>2 DEF Counted, Undisturbed, TypeOK
<1> QED
  BY <1>1, <1>3, <1>4, <1>5

LEMMA EraseIInv ==
  ASSUME IInv, flash_range_erase
  PROVE  IInv'
<1> USE DEF IInv, flash_range_erase
<1>1. page \in Pages /\ page # CurrentPage
  BY DEF TypeOK, Spared
<1>2. TypeOK'
  BY <1>1, ErasedType DEF TypeOK, ram
<1>3. /\ flash' \in [Pages -> Sector] /\ ~flash'[page].valid
      /\ \A p \in Pages : p # page => flash'[p] = flash[p]
  BY <1>1, ErasedType DEF TypeOK
<1>4. CurrentPage' = CurrentPage
  BY <1>1, <1>3, SectorType DEF CurrentPage, Newest, Other, Pages
<1>5. Restored' = Restored
  BY <1>1, <1>3, <1>4, CurrentIs DEF Restored
<1>6. HoldsRequested' /\ Spared' /\ Kept' /\ Persisted'
  BY <1>1, <1>3, <1>4 DEF HoldsRequested, Spared, Kept, Persisted, ram
<1>7. Counted'
  BY <1>1, <1>3, <1>5 DEF Counted, Undisturbed, ram
<1> QED
  BY <1>2, <1>6, <1>7

LEMMA ProgramIInv ==
  ASSUME IInv, flash_range_program
  PROVE  IInv'
<1> USE DEF IInv, flash_range_program
<1> DEFINE new == [valid |-> TRUE, version |-> version, doors |-> doors]
<1>1. page \in Pages /\ page # CurrentPage
  BY DEF TypeOK, Spared
<1>2. new \in Sector
  BY DEF TypeOK, Sector
<1>3. TypeOK'
  BY <1>1, <1>2 DEF TypeOK
<1>4. /\ flash'[page] = new
      /\ \A p \in Pages : p # page => flash'[p] = flash[p]
  BY <1>1 DEF TypeOK
<1>5. CurrentPage' # -1
  BY <1>1, <1>4 DEF CurrentPage, Newest, Other, Pages
<1>6. HoldsRequested' /\ Spared' /\ Kept' /\ Persisted'
  BY <1>1, <1>4, <1>5 DEF HoldsRequested, Spared, Kept, Persisted
<1>7. Counted'
  <2> SUFFICES ASSUME Undisturbed' PROVE Counted'
    BY DEF Counted
  <2>1. Undisturbed /\ changes > 0 /\ Rank(version) = changes /\ changes \in Nat
    BY DEF Undisturbed, Counted, TypeOK
  <2>2. \A p \in Pages : flash'[p].valid =>
          /\ Rank(flash'[p].version) \in 1 .. changes
          /\ Rank(flash'[p].version) = changes => flash'[p].doors = doors
    BY <1>1, <1>4, <2>1 DEF Counted
  <2>3. Rank(flash'[page].version) = changes /\ flash'[page].valid
    BY <1>1, <1>4, <2>1
  <2>4. Rank(flash'[CurrentPage'].version) = changes /\ flash'[CurrentPage'].valid
        /\ CurrentPage' \in Pages
    BY <1>1, <1>3, <2>1, <2>2, <2>3
    DEF CurrentPage, Newest, Other, Pages
  <2>5. Restored' = doors
    BY <1>5, <2>2, <2>4 DEF Restored
  <2> HIDE DEF flash_range_program, new
  <2>6. /\ UNCHANGED <<changes, version, pending, doors>>
        /\ saved' = doors
    BY DEF flash_range_program
  <2> QED
    BY <2>1, <2>2, <2>5, <2>6 DEF Counted, Rank
<1> QED
  BY <1>3, <1>6, <1>7

LEMMA RestartType == ASSUME TypeOK, Restart PROVE
    /\ version' \in Versions /\ doors' \in Doors /\ pending' \in 0 .. Room
    /\ dropped' \in BOOLEAN /\ changed' \in BOOLEAN /\ page' \in Pages
    /\ saved' \in Doors \cup {None} /\ requested' \subseteq Doors /\ changes' \in Nat
<1>1. 0 \in Versions /\ 0 \in 0 .. Room
  BY DEF Versions
<1> QED
  BY <1>1 DEF TypeOK, Restart

LEMMA ResetIInv ==
  ASSUME IInv, Reset
  PROVE  IInv'
<1> USE DEF IInv, Reset
<1>1. TypeOK'
  BY RestartType DEF TypeOK
<1>2. CurrentPage' = CurrentPage
  BY SameSectors
<1>3. HoldsRequested' /\ Spared' /\ Kept' /\ Persisted'
  BY <1>2 DEF HoldsRequested, Spared, Kept, Persisted, Restart
<1>4. ~Undisturbed'
  BY DEF Undisturbed, TypeOK
<1> QED
  BY <1>1, <1>3, <1>4 DEF Counted

LEMMA TearIInv ==
  ASSUME IInv, Tear
  PROVE  IInv'
<1> USE DEF IInv, Tear
<1>1. page \in Pages /\ page # CurrentPage
  BY DEF TypeOK, Spared
<1>2. PICK f \in Torn(IF op = "erase" THEN flash[page].doors ELSE doors) :
        flash' = [flash EXCEPT ![page] = f]
  OBVIOUS
<1>3. f \in Sector /\ (f.valid => f.doors \in requested)
  <2> DEFINE d == IF op = "erase" THEN flash[page].doors ELSE doors
  <2>1. d \in Doors \cup {None} /\ (d # None => d \in requested)
    BY <1>1, SectorType DEF TypeOK, HoldsRequested
  <2>2. /\ f \in [valid : BOOLEAN, version : Versions, doors : {d, None}]
        /\ f.valid <=> f.doors # None
    BY <1>2 DEF Torn
  <2> HIDE DEF d
  <2> QED
    BY <2>1, <2>2 DEF Sector
<1>4. /\ flash' \in [Pages -> Sector] /\ flash'[page] = f
      /\ \A p \in Pages : p # page => flash'[p] = flash[p]
  BY <1>1, <1>2, <1>3 DEF TypeOK
<1>5. TypeOK'
  BY <1>4, RestartType DEF TypeOK
<1>6. Kept'
  BY <1>1, <1>2, <1>3, OtherSector DEF Kept, Restart
<1>7. HoldsRequested' /\ Spared' /\ Persisted'
  BY <1>1, <1>3, <1>4 DEF HoldsRequested, Spared, Persisted, Restart
<1>8. ~Undisturbed'
  BY DEF Undisturbed, TypeOK
<1> QED
  BY <1>5, <1>6, <1>7, <1>8 DEF Counted

LEMMA StepIInv == IInv /\ [Next]_vars => IInv'
<1> SUFFICES ASSUME IInv, [Next]_vars PROVE IInv'
  OBVIOUS
<1>1. CASE UNCHANGED vars
  <2>1. CurrentPage' = CurrentPage /\ Restored' = Restored
    BY <1>1, SameSectors DEF vars
  <2> QED
    BY <1>1, <2>1 DEF vars, ram, IInv, TypeOK, HoldsRequested, Spared, Kept, Counted,
                      Undisturbed, Persisted
<1>2. ASSUME NEW t \in Tags, NEW v \in Accepts[t], settings_set(t, v) PROVE IInv'
  BY <1>2, SetIInv
<1> QED
  BY <1>1, <1>2, SaveIInv, EraseIInv, ProgramIInv, ResetIInv, TearIInv DEF Next

THEOREM SettingsInvariance == Spec => []IInv
  BY InitIInv, StepIInv, PTL DEF Spec

-----------------------------------------------------------------------------
(***************************************************************************)
(* The results.                                                            *)
(***************************************************************************)
\* The settings and the sectors stay well formed, and the version below
\* MAX_VERSION.
THEOREM SettingsTypeCorrect == Spec => []TypeOK
<1>1. IInv => TypeOK
  BY DEF IInv
<1> QED
  BY <1>1, SettingsInvariance, PTL

\* After the first save there are always saved settings to restore, however
\* often a reset interrupts flash_write.
THEOREM SurvivesResets == Spec => []CrashSafe
<1>1. IInv => CrashSafe
  BY CurrentIs DEF IInv, CrashSafe, Kept, HoldsRequested, Restored
<1> QED
  BY <1>1, SettingsInvariance, PTL

\* flash_write leaves the sector with the current settings alone.
THEOREM WritesElsewhere == Spec => WriteElsewhere
<1>1. ASSUME IInv, [Next]_vars, op # "idle", NEW p \in Pages, flash'[p] # flash[p]
      PROVE  p # CurrentPage
  <2>1. page # CurrentPage
    BY <1>1 DEF IInv, Spared
  <2>2. p = page
    BY <1>1 DEF IInv, TypeOK, Next, vars, settings_set, settings_save, flash_range_erase,
                flash_range_program, Reset, Tear
  <2> QED
    BY <2>1, <2>2
<1>2. IInv /\ [Next]_vars =>
        [op # "idle" => \A p \in Pages : flash'[p] # flash[p] => p # CurrentPage]_vars
  BY <1>1
<1> QED
  BY <1>2, SettingsInvariance, PTL DEF Spec, WriteElsewhere

\* For the first MAX_VERSION changes after the flash was new and without a
\* reset, the settings last saved are those that would be restored.
THEOREM RestoresLatest == Spec => []LatestRestored
<1>1. IInv => LatestRestored
  BY DEF IInv, Counted, Undisturbed, LatestRestored
<1> QED
  BY <1>1, SettingsInvariance, PTL

\* No change is forgotten unless the main queue refused its MSG_SAVE.
THEOREM PersistsChanges == Spec => []Persisted
<1>1. IInv => Persisted
  BY DEF IInv
<1> QED
  BY <1>1, SettingsInvariance, PTL
=============================================================================
