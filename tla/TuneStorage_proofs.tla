-------------------------- MODULE TuneStorage_proofs --------------------------
(***************************************************************************)
(* Proofs about TuneStorage for every number and size of pages, every      *)
(* write budget and any number of commands and power losses.               *)
(***************************************************************************)
EXTENDS TuneStorage, FiniteSetTheorems, TLAPS

\* Nothing is owed before the main loop runs, and a conversion is under way only
\* of a version that has one.
BootOwesNothing ==
  /\ pc # "loop" => owed = {}
  /\ pc \in {"save", "version"} => version \in Converted

IInv == TypeOK /\ BurnsAreKept /\ BootOwesNothing

-----------------------------------------------------------------------------
(* What a save leaves behind.                                              *)

\* A save that did not use up its writes has stored the whole page.
LEMMA SavedWhole ==
  ASSUME NEW mem \in Tune, storage \in Tune,
         NEW p \in Pages, NEW budget \in Nat, ~Exhausts(mem, p, budget)
  PROVE  Written(mem, p, budget) = mem[p]
<1> DEFINE S == Unsaved(mem, p)
<1>1. IsFiniteSet(Cells)
  BY FS_Interval, StorageAssumption DEF Cells
<1>2. S \in SUBSET Cells
  BY DEF Unsaved
<1>3. IsFiniteSet(S)
  BY <1>1, <1>2, FS_Subset
<1>4. Cardinality(S) \in Nat /\ Cardinality(S) < budget
  BY <1>3, FS_CardinalityType DEF Exhausts
<1>5. ASSUME NEW c \in Cells, c \in S
      PROVE  Cardinality({d \in S : d <= c}) <= budget
  <2> DEFINE T == {d \in S : d <= c}
  <2>1. T \in SUBSET S
    OBVIOUS
  <2> HIDE DEF S
  <2>2. IsFiniteSet(T) /\ Cardinality(T) <= Cardinality(S)
    BY <2>1, <1>3, FS_Subset
  <2>3. Cardinality(T) \in Nat
    BY <2>2, FS_CardinalityType
  <2> HIDE DEF T
  <2>4. Cardinality(T) <= budget
    BY <2>2, <2>3, <1>4
  <2> QED BY <2>4 DEF T
<1>6. ASSUME NEW c \in Cells
      PROVE  Written(mem, p, budget)[c] = mem[p][c]
  <2>1. CASE c \in S
    BY <2>1, <1>5 DEF Written
  <2>2. CASE c \notin S
    BY <2>2 DEF Written, Unsaved
  <2> QED BY <2>1, <2>2
<1>7. mem[p] \in [Cells -> Bytes]
  BY DEF Tune
<1>8. Written(mem, p, budget) = [c \in Cells |-> Written(mem, p, budget)[c]]
  BY DEF Written
<1> QED BY <1>6, <1>7, <1>8

\* A save leaves bytes in every cell.
LEMMA WrittenType ==
  ASSUME NEW mem \in Tune, storage \in Tune, NEW p \in Pages, NEW budget
  PROVE  Written(mem, p, budget) \in [Cells -> Bytes]
BY DEF Written, Tune

\* After savePage either a burn is pending or the page is stored as it is in RAM.
LEMMA SavePageStores ==
  ASSUME NEW mem \in Tune, storage \in Tune, burnPending \in BOOLEAN, savedAlone \in BOOLEAN,
         NEW p \in Pages, NEW budget \in Nat, savePage(mem, p, budget)
  PROVE  /\ storage' \in Tune /\ burnPending' \in BOOLEAN /\ savedAlone' \in BOOLEAN
         /\ ~burnPending' => storage'[p] = mem[p]
         /\ ~savedAlone' => ~savedAlone /\ ~burnPending
<1>1. storage' = [storage EXCEPT ![p] = Written(mem, p, budget)]
  BY DEF savePage
<1>2. storage' \in Tune
  BY <1>1, WrittenType DEF Tune
<1>3. burnPending' \in BOOLEAN /\ savedAlone' \in BOOLEAN
  BY DEF savePage, Exhausts
<1>4. ~burnPending' => storage'[p] = mem[p]
  <2> SUFFICES ASSUME ~burnPending' PROVE storage'[p] = mem[p]
    OBVIOUS
  <2>1. ~Exhausts(mem, p, budget)
    BY DEF savePage
  <2> QED BY <2>1, <1>1, SavedWhole DEF Tune
<1>5. ~savedAlone' => ~savedAlone /\ ~burnPending
  BY DEF savePage
<1> QED BY <1>2, <1>3, <1>4, <1>5

\* After saveAllPages either a burn is pending or storage is what RAM is.
LEMMA SaveAllPagesStores ==
  ASSUME ram \in Tune, storage \in Tune, NEW budget \in Nat, saveAllPages(budget)
  PROVE  /\ storage' \in Tune /\ burnPending' \in BOOLEAN
         /\ ~burnPending' => storage' = ram
<1>1. storage' \in Tune
  BY WrittenType DEF saveAllPages, Tune
<1>2. burnPending' \in BOOLEAN
  BY DEF saveAllPages
<1>3. ~burnPending' => storage' = ram
  <2> SUFFICES ASSUME ~burnPending' PROVE storage' = ram
    OBVIOUS
  <2>1. \A p \in Pages : ~Exhausts(ram, p, budget)
    BY DEF saveAllPages
  <2>2. \A p \in Pages : storage'[p] = Written(ram, p, budget)
    BY <2>1 DEF saveAllPages
  <2>3. \A p \in Pages : storage'[p] = ram[p]
    BY <2>1, <2>2, SavedWhole
  <2> QED BY <1>1, <2>3 DEF Tune
<1> QED BY <1>1, <1>2, <1>3

\* Setting a byte keeps the tune a tune.
LEMMA SetValue ==
  ASSUME NEW t \in Tune, NEW p \in Pages, NEW c \in Cells, NEW v \in Values
  PROVE  [t EXCEPT ![p][c] = SetTo(v)] \in Tune
BY DEF Tune, Bytes, SetTo, CurrentVersion

-----------------------------------------------------------------------------
(* The steps.                                                              *)

LEMMA InitHolds == Init => IInv
<1> SUFFICES ASSUME Init PROVE IInv
  OBVIOUS
<1>0. origin \in Tunes /\ origin.version \in {0} \union 7..255
  BY TunesAssumption DEF Init
<1>1. ASSUME NEW s PROVE FoundFormat(s) \in Int /\ [value |-> Blank, format |-> FoundFormat(s)] \in Bytes
  <2>1. FoundFormat(s) \in Int
    BY <1>0 DEF FoundFormat, Wrong
  <2> QED BY <2>1, StorageAssumption DEF Bytes
<1>2. storage \in Tune /\ ram = storage /\ calibration \in Int
  BY <1>1 DEF Init, Tune
<1>3. burnPending \in BOOLEAN
  BY DEF Init
<1>4. deferred \in BOOLEAN
  BY DEF Init
<1>5. savedAlone \in BOOLEAN
  BY DEF Init
<1>6. interrupted \in BOOLEAN
  BY DEF Init
<1>7. TypeOK
  BY <1>0, <1>2, <1>3, <1>4, <1>5, <1>6, StorageAssumption DEF Init, TypeOK
<1> QED BY <1>7 DEF Init, IInv, BurnsAreKept, BootOwesNothing

\* The budgets are numbers.
LEMMA BudgetsAreNumbers == \A b \in Budgets : b \in Nat
BY StorageAssumption

LEMMA UpdateHolds ==
  ASSUME IInv, NEW p \in Pages, NEW c \in Cells, NEW v \in Values, updatePageValues(p, c, v)
  PROVE  IInv'
<1>1. ram' \in Tune
  BY SetValue DEF updatePageValues, IInv, TypeOK
<1>2. deferred' \in BOOLEAN
  BY DEF updatePageValues
<1>3. TypeOK'
  BY <1>1, <1>2, StorageAssumption DEF updatePageValues, IInv, TypeOK
<1>4. BurnsAreKept'
  BY DEF updatePageValues, IInv, BurnsAreKept
<1>5. BootOwesNothing'
  BY DEF updatePageValues, IInv, BootOwesNothing
<1> QED BY <1>3, <1>4, <1>5 DEF IInv

\* What one page owes after a burn of it.
LEMMA BurnHolds ==
  ASSUME IInv, NEW p \in Pages, NEW budget \in Budgets, burnSinglePage(p, budget),
         pc = "loop", deferred' \in BOOLEAN, commands' \in 0..MaxCommands
  PROVE  IInv'
<1> USE DEF IInv
<1>1. budget \in Nat
  BY BudgetsAreNumbers
<1>2. owed' \subseteq Pages \X Cells
  BY DEF burnSinglePage, StillOwed, TypeOK
<1>3. /\ storage' \in Tune /\ burnPending' \in BOOLEAN /\ savedAlone' \in BOOLEAN
      /\ BurnsAreKept'
  <2>1. CASE deferred'
    <3>1. burnPending' /\ storage' = storage /\ savedAlone' = savedAlone
      BY <2>1 DEF burnSinglePage
    <3>2. burnPending' \in BOOLEAN
      BY <2>1 DEF burnSinglePage
    <3> QED BY <3>1, <3>2 DEF TypeOK, BurnsAreKept
  <2>2. CASE ~deferred'
    <3>1. savePage(ram, p, budget)
      BY <2>2 DEF burnSinglePage
    <3>2. /\ storage' \in Tune /\ burnPending' \in BOOLEAN /\ savedAlone' \in BOOLEAN
          /\ ~burnPending' => storage'[p] = ram[p]
          /\ ~savedAlone' => ~savedAlone /\ ~burnPending
      BY <3>1, <1>1, SavePageStores DEF TypeOK
    <3>3. ASSUME ~savedAlone', ~burnPending' PROVE owed' = {}
      <4>1. owed = {}
        BY <3>2, <3>3 DEF BurnsAreKept
      <4>2. ram' = ram /\ owed' = StillOwed({p} \X Cells)
        BY <4>1 DEF burnSinglePage
      <4>3. storage'[p] = ram'[p]
        BY <3>2, <3>3, <4>2
      <4> QED BY <4>2, <4>3 DEF StillOwed
    <3> QED BY <3>2, <3>3 DEF BurnsAreKept
  <2> QED BY <2>1, <2>2
<1>4. TypeOK'
  BY <1>2, <1>3 DEF burnSinglePage, TypeOK
<1>5. BootOwesNothing'
  BY DEF burnSinglePage, BootOwesNothing
<1> QED BY <1>3, <1>4, <1>5

LEMMA VssHolds ==
  ASSUME IInv, NEW c \in Cells, NEW v \in Values, NEW budget \in Budgets,
         computeVssRatio(c, v, budget)
  PROVE  IInv'
<1> USE DEF IInv
<1>1. budget \in Nat /\ VeSetPage \in Pages
  BY BudgetsAreNumbers, StorageAssumption DEF VeSetPage, Pages
<1>2. ram' \in Tune
  BY <1>1, SetValue DEF computeVssRatio, TypeOK
<1>3. savePage(ram', VeSetPage, budget)
  BY DEF computeVssRatio
<1>4. /\ storage' \in Tune /\ burnPending' \in BOOLEAN /\ savedAlone' \in BOOLEAN
      /\ ~burnPending' => storage'[VeSetPage] = ram'[VeSetPage]
      /\ ~savedAlone' => ~savedAlone /\ ~burnPending
  BY <1>1, <1>2, <1>3, SavePageStores DEF TypeOK
<1>5. owed' \subseteq Pages \X Cells
  BY <1>1 DEF computeVssRatio, StillOwed, TypeOK
<1>6. TypeOK'
  <2>1. commands' \in 0..MaxCommands
    BY StorageAssumption DEF computeVssRatio, TypeOK
  <2>2. UNCHANGED <<calibration, version, pc, deferred, interrupted, before, repeated, origin, losses>>
    BY DEF computeVssRatio
  <2> QED BY <1>2, <1>4, <1>5, <2>1, <2>2 DEF TypeOK
<1>7. BurnsAreKept'
  <2>1. ASSUME ~savedAlone', ~burnPending' PROVE owed' = {}
    <3>1. owed = {}
      BY <1>4, <2>1 DEF BurnsAreKept
    <3>2. owed' = StillOwed({VeSetPage} \X Cells)
      BY <3>1 DEF computeVssRatio
    <3> QED BY <3>2, <1>4, <2>1 DEF StillOwed
  <2> QED BY <2>1 DEF BurnsAreKept
<1>8. BootOwesNothing'
  BY DEF computeVssRatio, BootOwesNothing
<1> QED BY <1>6, <1>7, <1>8

LEMMA SavePendingHolds ==
  ASSUME IInv, NEW budget \in Budgets, SavePending(budget)
  PROVE  IInv'
<1> USE DEF IInv
<1>1. /\ storage' \in Tune /\ burnPending' \in BOOLEAN
      /\ ~burnPending' => storage' = ram
  BY BudgetsAreNumbers, SaveAllPagesStores DEF SavePending, TypeOK
<1>2. owed' = StillOwed(owed) /\ ram' = ram
  BY DEF SavePending
<1>3. TypeOK'
  BY <1>1, <1>2 DEF SavePending, StillOwed, TypeOK
<1>4. BurnsAreKept'
  BY <1>1, <1>2 DEF BurnsAreKept, StillOwed
<1>5. BootOwesNothing'
  BY DEF SavePending, BootOwesNothing
<1> QED BY <1>3, <1>4, <1>5

\* A conversion makes formats of formats.
LEMMA FormatType ==
  ASSUME NEW v \in Converted, NEW s, NEW f \in Int, NEW right
  PROVE  ConvertedFormat(v, s, f, right) \in Int
<1> DEFINE by == Conversion(v)
<1> HIDE DEF by
<1>1. v + 1 \in Int /\ Wrong \in Int
  BY DEF Converted, Wrong
<1> QED BY <1>1 DEF ConvertedFormat, by

LEMMA DoUpdatesTypes ==
  ASSUME IInv, doUpdates
  PROVE  /\ ram' \in Tune /\ calibration' \in Int /\ before' \in BOOLEAN
         /\ version' \in {0} \union 7..255
         /\ pc' \in {"save", "version", "adc"}
         /\ pc' \in {"save", "version"} => version' \in Converted
<1> USE DEF IInv
<1>1. CASE Convert
  <2>1. ASSUME NEW p \in Pages, NEW c \in Cells
        PROVE  [ram[p][c] EXCEPT !.format =
                  ConvertedFormat(version, Setting(p, c), @, SourcesRight(Setting(p, c)))] \in Bytes
    <3>1. ram[p][c] \in Bytes
      BY DEF TypeOK, Tune
    <3>2. ConvertedFormat(version, Setting(p, c), ram[p][c].format, SourcesRight(Setting(p, c))) \in Int
      BY <1>1, <3>1, FormatType DEF Convert, Bytes
    <3> QED BY <3>1, <3>2 DEF Bytes
  <2>2. ram' \in Tune
    BY <1>1, <2>1 DEF Convert, Tune
  <2>3. calibration' \in Int
    BY <1>1, FormatType DEF Convert, TypeOK
  <2>4. before' \in BOOLEAN
    BY <1>1 DEF Convert
  <2> QED BY <1>1, <2>2, <2>3, <2>4 DEF Convert, TypeOK
<1>2. CASE SetUpNewBoard
  <2>1. ASSUME NEW p \in Pages, NEW c \in Cells
        PROVE  [ram[p][c] EXCEPT !.format = CurrentVersion] \in Bytes /\ ram[p][c] \in Bytes
    <3>1. ram[p][c] \in Bytes
      BY DEF TypeOK, Tune
    <3> QED BY <3>1 DEF Bytes, CurrentVersion
  <2>2. ram' \in Tune
    BY <1>2, <2>1 DEF SetUpNewBoard, Tune
  <2> QED BY <1>2, <2>2 DEF SetUpNewBoard, TypeOK, CurrentVersion
<1>3. CASE Downgrade
  BY <1>3 DEF Downgrade, TypeOK, CurrentVersion
<1>4. CASE version = CurrentVersion /\ pc' = "adc" /\ UNCHANGED <<ram, calibration, before, version>>
  BY <1>4 DEF TypeOK
<1> QED BY <1>1, <1>2, <1>3, <1>4 DEF doUpdates

LEMMA BootHolds ==
  ASSUME IInv, Boot
  PROVE  IInv'
<1> USE DEF IInv
<1>1. CASE doUpdates
  <2>1. /\ ram' \in Tune /\ calibration' \in Int /\ before' \in BOOLEAN
        /\ version' \in {0} \union 7..255
        /\ pc' \in {"save", "version", "adc"}
        /\ pc' \in {"save", "version"} => version' \in Converted
    BY <1>1, DoUpdatesTypes
  <2>2. UNCHANGED <<storage, burnPending, deferred, owed, savedAlone, interrupted, repeated, origin,
                    commands, losses>> /\ owed = {}
    BY <1>1 DEF doUpdates, BootOwesNothing
  <2> QED BY <2>1, <2>2 DEF TypeOK, BurnsAreKept, BootOwesNothing
<1>2. ASSUME NEW b \in Budgets, SaveConverted(b) PROVE IInv'
  <2>1. storage' \in Tune /\ burnPending' \in BOOLEAN
    BY <1>2, BudgetsAreNumbers, SaveAllPagesStores DEF SaveConverted, TypeOK
  <2>2. owed' = {}
    BY <1>2 DEF SaveConverted, history, BootOwesNothing
  <2>3. TypeOK'
    BY <1>2, <2>1 DEF SaveConverted, history, TypeOK
  <2>4. BurnsAreKept'
    BY <2>2 DEF BurnsAreKept
  <2>5. BootOwesNothing'
    BY <1>2, <2>2 DEF SaveConverted, history, BootOwesNothing
  <2> QED BY <2>3, <2>4, <2>5
<1>3. CASE saveEEPROMVersion
  BY <1>3, StorageAssumption
     DEF saveEEPROMVersion, history, TypeOK, BurnsAreKept, BootOwesNothing, Converted
<1>4. ASSUME NEW c \in Cells, NEW b \in Budgets, initialiseADC(c, b) PROVE IInv'
  <2>1. /\ ram' \in Tune /\ storage' \in Tune
        /\ burnPending' \in BOOLEAN /\ savedAlone' \in BOOLEAN
    <3>1. CASE UNCHANGED <<ram, storage, burnPending, savedAlone>>
      BY <3>1 DEF TypeOK
    <3>2. ASSUME NEW v \in Values, ram' = [ram EXCEPT ![IgnSetPage][c] = SetTo(v)],
                 savePage(ram', IgnSetPage, b)
          PROVE  /\ ram' \in Tune /\ storage' \in Tune
                 /\ burnPending' \in BOOLEAN /\ savedAlone' \in BOOLEAN
      <4>1. IgnSetPage \in Pages /\ b \in Nat
        BY BudgetsAreNumbers, StorageAssumption DEF Pages
      <4>2. ram' \in Tune
        BY <3>2, <4>1, SetValue DEF TypeOK
      <4> QED BY <3>2, <4>1, <4>2, SavePageStores DEF TypeOK
    <3> QED BY <3>1, <3>2, <1>4 DEF initialiseADC
  <2>2. owed = {} /\ owed' = {} /\ pc' \in {"adc", "loop"}
    BY <1>4 DEF initialiseADC, BootOwesNothing
  <2>3. TypeOK'
    BY <1>4, <2>1, <2>2 DEF initialiseADC, TypeOK
  <2> QED BY <2>2, <2>3 DEF BurnsAreKept, BootOwesNothing
<1> QED BY <1>1, <1>2, <1>3, <1>4 DEF Boot

LEMMA PowerLossHolds ==
  ASSUME IInv, PowerLoss
  PROVE  IInv'
<1> USE DEF IInv
<1>1. /\ ram' = storage /\ pc' = "convert" /\ owed' = {} /\ losses' = losses + 1
      /\ UNCHANGED <<storage, calibration, version, savedAlone, before, origin, commands>>
      /\ losses < MaxLosses
  BY DEF PowerLoss
<1>2. burnPending' \in BOOLEAN
  BY DEF PowerLoss
<1>3. deferred' \in BOOLEAN
  BY DEF PowerLoss
<1>4. interrupted' \in BOOLEAN /\ repeated' \subseteq Converted
  BY DEF PowerLoss, TypeOK, BootOwesNothing
<1>5. TypeOK'
  BY <1>1, <1>2, <1>3, <1>4, StorageAssumption DEF TypeOK
<1>6. BurnsAreKept' /\ BootOwesNothing'
  BY <1>1 DEF BurnsAreKept, BootOwesNothing
<1> QED BY <1>5, <1>6

LEMMA NextHolds == IInv /\ [Next]_vars => IInv'
<1> SUFFICES ASSUME IInv, [Next]_vars PROVE IInv'
  OBVIOUS
<1>1. ASSUME NEW p \in Pages, NEW c \in Cells, NEW v \in Values, updatePageValues(p, c, v)
      PROVE  IInv'
  BY <1>1, UpdateHolds
<1>2. ASSUME NEW p \in Pages, NEW b \in Budgets, Burn(p, b) PROVE IInv'
  <2>1. pc = "loop" /\ deferred' \in BOOLEAN /\ commands' \in 0..MaxCommands
    BY <1>2 DEF Burn, IInv, TypeOK
  <2> QED BY <1>2, <2>1, BurnHolds DEF Burn
<1>3. ASSUME NEW p \in Pages, NEW b \in Budgets, BurnCompat(p, b) PROVE IInv'
  <2>1. pc = "loop" /\ commands' \in 0..MaxCommands
    BY <1>3, StorageAssumption DEF BurnCompat, IInv, TypeOK
  <2>2. deferred' \in BOOLEAN
    BY <1>3 DEF BurnCompat, IInv, TypeOK
  <2> QED BY <1>3, <2>1, <2>2, BurnHolds DEF BurnCompat
<1>4. ASSUME NEW c \in Cells, NEW v \in Values, NEW b \in Budgets, computeVssRatio(c, v, b)
      PROVE  IInv'
  BY <1>4, VssHolds
<1>5. CASE DeferralEnds
  <2>1. deferred' \in BOOLEAN
    BY <1>5 DEF DeferralEnds
  <2> QED BY <1>5, <2>1 DEF DeferralEnds, history, IInv, TypeOK, BurnsAreKept, BootOwesNothing
<1>6. ASSUME NEW b \in Budgets, SavePending(b) PROVE IInv'
  BY <1>6, SavePendingHolds
<1>7. CASE Boot
  BY <1>7, BootHolds
<1>8. CASE PowerLoss
  BY <1>8, PowerLossHolds
<1>9. CASE UNCHANGED vars
  BY <1>9 DEF vars, history, IInv, TypeOK, BurnsAreKept, BootOwesNothing
<1> QED BY <1>1, <1>2, <1>3, <1>4, <1>5, <1>6, <1>7, <1>8, <1>9 DEF Next

\* The strengthening is an invariant of the program.
THEOREM Inductive == Spec => []IInv
BY InitHolds, NextHolds, PTL DEF Spec

\* Tunes, versions and flags keep their types.
THEOREM StorageTypes == Spec => []TypeOK
<1>1. IInv => TypeOK
  BY DEF IInv
<1> QED BY <1>1, Inductive, PTL

\* What a burn was acknowledged for is in storage or still pending, whatever the
\* throttling and deferral, unless a page was saved alone (storage.h:41-44).
THEOREM BurnsKept == Spec => []BurnsAreKept
<1>1. IInv => BurnsAreKept
  BY DEF IInv
<1> QED BY <1>1, Inductive, PTL

-----------------------------------------------------------------------------
(* What the table of conversions has to be like.                           *)

\* What settings are computed from.
AllSources ==
  {"legacyMAP", "aeColdTaperMax", "aeColdTaperMin", "taeThresh", "injAng", "crkngAddCLTAdv", "tachoMode",
   "fanUnused", "nCylinders", "injLayout", "unused1_126"}

LEMMA ConversionOf ==
  /\ Conversion(7) = Version7 /\ Conversion(8) = Version8 /\ Conversion(9) = Version9
  /\ Conversion(10) = Version10 /\ Conversion(11) = Version11 /\ Conversion(12) = Version12
  /\ Conversion(13) = Version13 /\ Conversion(14) = Version14 /\ Conversion(15) = Version15
  /\ Conversion(16) = Version16 /\ Conversion(17) = Version17 /\ Conversion(18) = Version18
  /\ Conversion(19) = Version19 /\ Conversion(20) = Version20 /\ Conversion(21) = Version21
  /\ Conversion(22) = Version22 /\ Conversion(23) = Version23 /\ Conversion(24) = Nothing
  /\ Conversion(25) = upgradeV25toV26 /\ Conversion(26) = upgradeV26toV27
BY DEF Conversion

\* A conversion that is well made: what it computes others from it does not
\* change, and no source is spoiled or computed from itself.
WellMade(by) ==
  /\ \A pair \in by.from :
       /\ pair[2] \in AllSources
       /\ pair[2] \notin by.sets
       /\ \A other \in by.from : other[1] # pair[2]
  /\ AllSources \intersect (by.own \union by.spoils) = {}

LEMMA EachWellMade == \A v \in Converted : WellMade(Conversion(v))
<1>1. WellMade(Version7) /\ WellMade(Version8) /\ WellMade(Version9) /\ WellMade(Version10)
  BY DEF WellMade, AllSources, Nothing, Version7, Version8, Version9, Version10
<1>2. WellMade(Version11) /\ WellMade(Version12) /\ WellMade(Version13) /\ WellMade(Version14)
  BY DEF WellMade, AllSources, Nothing, Version11, Version12, Version13, Version14
<1>3. WellMade(Version15) /\ WellMade(Version16) /\ WellMade(Version17) /\ WellMade(Version18)
  BY DEF WellMade, AllSources, Nothing, Version15, Version16, Version17, Version18
<1>4. WellMade(Version19) /\ WellMade(Version20) /\ WellMade(Version21) /\ WellMade(Version22)
  BY DEF WellMade, AllSources, Nothing, Version19, Version20, Version21, Version22
<1>5. WellMade(Version23) /\ WellMade(Nothing) /\ WellMade(upgradeV25toV26) /\ WellMade(upgradeV26toV27)
  BY DEF WellMade, AllSources, Nothing, Version23, Shifted, upgradeV25toV26, upgradeV26toV27
<1> QED BY <1>1, <1>2, <1>3, <1>4, <1>5, ConversionOf DEF Converted

\* Of the conversions that save no page, none changes a setting of one; and the
\* calibration tables are changed by two, of which one saves no page.
LEMMA UnsavedChanges ==
  /\ \A s : s # "calibration" => ~Changes(24, s) /\ ~Changes(25, s)
  /\ \A v \in Converted : v \notin {14, 25} => ~Changes(v, "calibration")
  /\ "calibration" \in Conversion(14).spoils
<1> DEFINE Leaves(by) == /\ "calibration" \notin by.sets \union by.own \union by.spoils
                         /\ \A pair \in by.from : pair[1] # "calibration"
<1>1. /\ Leaves(Version7) /\ Leaves(Version8) /\ Leaves(Version9) /\ Leaves(Version10)
      /\ Leaves(Version11) /\ Leaves(Version12) /\ Leaves(Version13)
  BY DEF Nothing, Version7, Version8, Version9, Version10, Version11, Version12, Version13
<1>2. /\ Leaves(Version15) /\ Leaves(Version16) /\ Leaves(Version17) /\ Leaves(Version18)
      /\ Leaves(Version19) /\ Leaves(Version20)
  BY DEF Nothing, Version15, Version16, Version17, Version18, Version19, Version20
<1>3. /\ Leaves(Version21) /\ Leaves(Version22) /\ Leaves(Version23) /\ Leaves(Nothing)
      /\ Leaves(upgradeV26toV27)
  BY DEF Nothing, Version21, Version22, Version23, Shifted, upgradeV26toV27
<1>4. \A v \in Converted : v \notin {14, 25} => Leaves(Conversion(v))
  <2> HIDE DEF Leaves
  <2> QED BY <1>1, <1>2, <1>3, ConversionOf DEF Converted
<1>5. \A v \in Converted : v \notin {14, 25} => ~Changes(v, "calibration")
  BY <1>4 DEF Changes, Sources
<1>6. \A s : s # "calibration" => ~Changes(24, s) /\ ~Changes(25, s)
  BY ConversionOf DEF Changes, Sources, Nothing, upgradeV25toV26
<1>7. "calibration" \in Conversion(14).spoils
  BY ConversionOf DEF Nothing, Version14
<1> QED BY <1>5, <1>6, <1>7

-----------------------------------------------------------------------------
(* Every setting is right in the end.                                      *)

\* The conversion of version v is over for a value of format f.
Done(v, s, f) == Right(v + 1, s, f) /\ (~Changes(v, s) => Right(v, s, f))

\* A value that the conversion of version v makes right: it is right for v, or it
\* has been through the conversion already, when that was saved and not noted.
Ready(v, s, f) == Right(v, s, f) \/ (v \in repeated /\ Done(v, s, f))

\* What RAM and storage owe a setting that is converted right, at each step of
\* the boot and after it.
StageRight(s, inRam, inStorage) ==
  /\ pc \in {"adc", "loop"} =>
       Right(CurrentVersion, s, inRam) /\ (~burnPending => Right(CurrentVersion, s, inStorage))
  /\ pc = "convert" => Ready(version, s, inRam) /\ (~burnPending => Ready(version, s, inStorage))
  /\ pc \in {"save", "version"} => Done(version, s, inRam)
  /\ pc = "save" /\ before => Ready(version, s, inStorage)
  /\ pc = "version" =>
       /\ before => Ready(version, s, inStorage) \/ Done(version, s, inStorage)
       /\ ~burnPending => Done(version, s, inStorage)

CalibrationRight ==
  /\ pc \in {"adc", "loop"} => Right(CurrentVersion, "calibration", calibration)
  /\ pc = "convert" => Ready(version, "calibration", calibration)
  /\ pc \in {"save", "version"} => Done(version, "calibration", calibration)

FormatsRight ==
  /\ pc \in {"adc", "loop"} => version = CurrentVersion
  /\ origin.version \in 7..CurrentVersion => version \in origin.version..CurrentVersion
  /\ pc = "save" => SavesPages(version) /\ before = ~burnPending
  /\ ~savedAlone /\ ~interrupted =>
       \A p \in Pages, c \in Cells :
         ConvertedRight(Setting(p, c)) => StageRight(Setting(p, c), ram[p][c].format, storage[p][c].format)
  /\ ConvertedRight("calibration") => CalibrationRight

\* A setting given today is right today.
LEMMA TodayRight == \A s : Right(CurrentVersion, s, CurrentVersion)
BY DEF Right, CurrentVersion

\* Settings stay what they were found to be; fewer of them are converted right
\* when a conversion is repeated.
LEMMA FewerRight ==
  ASSUME UNCHANGED origin, repeated \subseteq repeated', NEW s, ConvertedRight(s)'
  PROVE  ConvertedRight(s)
BY DEF ConvertedRight

\* A value right for v that v does not change is right for the next version.
LEMMA StaysRight ==
  ASSUME NEW v \in Int, NEW s, NEW f \in Int, Right(v, s, f), ~Changes(v, s)
  PROVE  Done(v, s, f)
<1>1. f \in 0..(v + 1)
  BY DEF Right
<1>2. ASSUME NEW u \in f..v PROVE ~Changes(u, s)
  <2>1. CASE u = v
    BY <2>1
  <2>2. CASE u # v
    BY <2>2 DEF Right
  <2> QED BY <2>1, <2>2
<1> QED BY <1>1, <1>2 DEF Done, Right

\* A setting that something is computed from is itself converted right, and not
\* by the same conversion.
LEMMA SourceReady ==
  ASSUME IInv, NEW v \in Converted, NEW s, NEW source \in Sources(v, s), ConvertedRight(s)
  PROVE  ConvertedRight(source) /\ ~Changes(v, source)
<1>1. PICK pair \in Conversion(v).from : pair[2] = source
  BY DEF Sources
<1>2. source \in AllSources /\ ~Changes(v, source)
  <2>1. WellMade(Conversion(v))
    BY EachWellMade
  <2> QED BY <1>1, <2>1 DEF WellMade, Changes, Sources
<1>3. \A u \in Converted : source \notin Conversion(u).own \union Conversion(u).spoils
  BY <1>2, EachWellMade DEF WellMade
<1>4. source \notin Misplaced
  BY <1>2 DEF AllSources, Misplaced
<1>5. origin.version \in 7..CurrentVersion
  BY DEF ConvertedRight
<1>6. \A u \in origin.version..(CurrentVersion - 1) : u \in Converted
  BY <1>5 DEF Converted, CurrentVersion
<1>7. repeated \subseteq Converted
  BY DEF IInv, TypeOK
<1> QED BY <1>2, <1>3, <1>4, <1>5, <1>6, <1>7 DEF ConvertedRight, Understood

\* The conversion of a setting it understands is right.
LEMMA ConvertsRight ==
  ASSUME NEW v \in Converted, NEW s, NEW f \in Int, NEW right,
         ConvertedRight(s), origin.version <= v, Ready(v, s, f),
         Sources(v, s) # {} => right
  PROVE  Done(v, s, ConvertedFormat(v, s, f, right))
<1> DEFINE by == Conversion(v)
<1>1. s \notin by.spoils /\ v \in Nat
  BY DEF ConvertedRight, Understood, Converted, CurrentVersion
<1>2. Changes(v, s) => Done(v, s, v + 1)
  BY <1>1 DEF Done, Right
<1>3. CASE s \in by.sets
  <2>1. ConvertedFormat(v, s, f, right) = v + 1
    BY <1>1, <1>3 DEF ConvertedFormat
  <2> QED BY <2>1, <1>2, <1>3 DEF Changes
<1>4. CASE s \notin by.sets /\ Sources(v, s) # {}
  <2>1. ConvertedFormat(v, s, f, right) = v + 1
    BY <1>1, <1>4 DEF ConvertedFormat
  <2> QED BY <2>1, <1>2, <1>4 DEF Changes
<1>5. CASE s \notin by.sets /\ Sources(v, s) = {} /\ s \in by.own
  <2>1. Right(v, s, f)
    BY <1>5 DEF Ready, ConvertedRight
  <2>2. ConvertedFormat(v, s, f, right) = v + 1
    BY <1>1, <1>5, <2>1 DEF ConvertedFormat
  <2> QED BY <2>2, <1>2, <1>5 DEF Changes
<1>6. CASE s \notin by.sets /\ Sources(v, s) = {} /\ s \notin by.own
  <2>1. ~Changes(v, s)
    BY <1>1, <1>6 DEF Changes
  <2>2. Right(v, s, f)
    BY <2>1 DEF Ready, Done
  <2>3. ConvertedFormat(v, s, f, right) = f
    BY <1>1, <1>6 DEF ConvertedFormat
  <2> QED BY <1>1, <2>1, <2>2, <2>3, StaysRight
<1> QED BY <1>3, <1>4, <1>5, <1>6

\* Every byte of storage is after a save what it was before or what it is in RAM.
LEMMA SavedFromRam ==
  ASSUME IInv, NEW budget, saveAllPages(budget), NEW p \in Pages, NEW c \in Cells
  PROVE  storage'[p][c] = storage[p][c] \/ storage'[p][c] = ram[p][c]
BY DEF saveAllPages, Written

\* What all steps need of the types.
LEMMA FormatFacts ==
  ASSUME IInv, NEW p \in Pages, NEW c \in Cells
  PROVE  /\ ram[p][c].format \in Int /\ storage[p][c].format \in Int
         /\ Setting(p, c) # "calibration"
         /\ origin' = origin => Setting(p, c)' = Setting(p, c)
<1>1. ram[p][c] \in Bytes /\ storage[p][c] \in Bytes
  BY DEF IInv, TypeOK, Tune
<1>2. origin.holds \in [Pages -> [Cells -> STRING \ {"calibration"}]]
  BY TunesAssumption DEF IInv, TypeOK
<1>3. Setting(p, c) # "calibration"
  BY <1>2 DEF Setting
<1> QED BY <1>1, <1>3 DEF Bytes, Setting

\* In the main loop and the checks before it: whatever is set, it is set today,
\* and whatever is stored comes from RAM.
LEMMA LoopKeepsFormats ==
  ASSUME IInv, FormatsRight, pc \in {"adc", "loop"}, pc' \in {"adc", "loop"},
         UNCHANGED <<calibration, version, interrupted, repeated, origin>>,
         ~savedAlone' => ~savedAlone,
         \A p \in Pages, c \in Cells :
           /\ ram'[p][c].format \in {ram[p][c].format, CurrentVersion}
           /\ \/ storage'[p][c].format = ram'[p][c].format
              \/ storage'[p][c].format = storage[p][c].format /\ (burnPending => burnPending' \/ savedAlone')
  PROVE  FormatsRight'
<1>1. \A s : ConvertedRight(s)' = ConvertedRight(s)
  BY DEF ConvertedRight
<1>2. ASSUME ~savedAlone', ~interrupted', NEW p \in Pages, NEW c \in Cells, ConvertedRight(Setting(p, c))'
      PROVE  StageRight(Setting(p, c), ram[p][c].format, storage[p][c].format)'
  <2> DEFINE s == Setting(p, c)
  <2>0. ConvertedRight(s)
    BY <1>2 DEF ConvertedRight, Setting
  <2>1. StageRight(s, ram[p][c].format, storage[p][c].format)
    BY <1>2, <2>0 DEF FormatsRight
  <2>2. Right(CurrentVersion, s, ram[p][c].format)
    BY <2>1 DEF StageRight
  <2>3. Right(CurrentVersion, s, ram'[p][c].format)
    BY <2>2, TodayRight
  <2>4. ~burnPending' => Right(CurrentVersion, s, storage'[p][c].format)
    <3>1. CASE storage'[p][c].format = ram'[p][c].format
      BY <2>3, <3>1
    <3>2. CASE storage'[p][c].format = storage[p][c].format /\ (burnPending => burnPending' \/ savedAlone')
      BY <1>2, <2>1, <3>2 DEF StageRight
    <3> QED BY <3>1, <3>2
  <2>5. s' = s
    BY FormatFacts
  <2> HIDE DEF s
  <2>6. pc' \notin {"convert", "save", "version"}
    OBVIOUS
  <2>7. StageRight(s, ram[p][c].format, storage[p][c].format)'
    BY <2>3, <2>4, <2>5, <2>6 DEF StageRight, Right, Changes
  <2> QED BY <2>7 DEF s
<1>3. ConvertedRight("calibration")' => CalibrationRight'
  <2> SUFFICES ASSUME ConvertedRight("calibration")' PROVE CalibrationRight'
    OBVIOUS
  <2>1. CalibrationRight
    BY <1>1 DEF FormatsRight
  <2> QED BY <2>1 DEF CalibrationRight
<1> QED BY <1>2, <1>3 DEF FormatsRight

\* What a page's save does to formats.
LEMMA SavePageFormats ==
  ASSUME IInv, ram' \in Tune, NEW p \in Pages, NEW budget, savePage(ram', p, budget),
         NEW q \in Pages, NEW c \in Cells
  PROVE  /\ storage'[q][c] = ram'[q][c] \/ storage'[q][c] = storage[q][c]
         /\ burnPending => savedAlone'
         /\ ~savedAlone' => ~savedAlone
<1>1. storage' = [storage EXCEPT ![p] = Written(ram', p, budget)]
  BY DEF savePage
<1>2. Written(ram', p, budget)[c] = ram'[p][c] \/ Written(ram', p, budget)[c] = storage[p][c]
  BY DEF Written
<1>3. storage \in Tune
  BY DEF IInv, TypeOK
<1>4. storage'[q][c] = ram'[q][c] \/ storage'[q][c] = storage[q][c]
  BY <1>1, <1>2, <1>3 DEF Tune
<1> QED BY <1>4 DEF savePage

LEMMA LoopFormats ==
  ASSUME IInv, FormatsRight,
         \/ \E p \in Pages, c \in Cells, v \in Values : updatePageValues(p, c, v)
         \/ \E p \in Pages, b \in Budgets : Burn(p, b) \/ BurnCompat(p, b)
         \/ \E c \in Cells, v \in Values, b \in Budgets : computeVssRatio(c, v, b)
         \/ \E b \in Budgets : SavePending(b)
         \/ \E c \in Cells, b \in Budgets : initialiseADC(c, b)
  PROVE  FormatsRight'
<1> DEFINE FromRam ==
      \A p \in Pages, c \in Cells :
        /\ ram'[p][c].format \in {ram[p][c].format, CurrentVersion}
        /\ \/ storage'[p][c].format = ram'[p][c].format
           \/ storage'[p][c].format = storage[p][c].format /\ (burnPending => burnPending' \/ savedAlone')
<1> DEFINE Kept == /\ pc \in {"adc", "loop"} /\ pc' \in {"adc", "loop"}
                   /\ UNCHANGED <<calibration, version, interrupted, repeated, origin>>
                   /\ ~savedAlone' => ~savedAlone
<1>1. ram \in Tune /\ storage \in Tune
  BY DEF IInv, TypeOK
<1>2. ASSUME NEW p \in Pages, NEW c \in Cells, NEW v \in Values, ram' = [ram EXCEPT ![p][c] = SetTo(v)]
      PROVE  \A q \in Pages, d \in Cells : ram'[q][d].format \in {ram[q][d].format, CurrentVersion}
  BY <1>1, <1>2 DEF Tune, SetTo
<1>3. ASSUME NEW p \in Pages, NEW c \in Cells, NEW v \in Values, updatePageValues(p, c, v)
      PROVE  FromRam /\ Kept
  <2>1. \A q \in Pages, d \in Cells : ram'[q][d].format \in {ram[q][d].format, CurrentVersion}
    BY <1>2, <1>3 DEF updatePageValues
  <2> QED BY <1>3, <2>1 DEF updatePageValues
<1>4. ASSUME NEW p \in Pages, NEW b \in Budgets, burnSinglePage(p, b), pc = "loop" PROVE FromRam /\ Kept
  <2>1. CASE deferred'
    BY <1>4, <2>1 DEF burnSinglePage
  <2>2. CASE ~deferred'
    <3>1. ram' = ram /\ savePage(ram', p, b)
      BY <1>4, <2>2 DEF burnSinglePage
    <3>2. ram' \in Tune
      BY <1>1, <3>1
    <3>3. FromRam
      BY <3>1, <3>2, SavePageFormats
    <3>4. ~savedAlone' => ~savedAlone
      BY <3>1 DEF savePage
    <3> QED BY <1>4, <3>3, <3>4 DEF burnSinglePage
  <2> QED BY <2>1, <2>2
<1>5. ASSUME NEW c \in Cells, NEW v \in Values, NEW b \in Budgets, computeVssRatio(c, v, b)
      PROVE  FromRam /\ Kept
  <2>1. VeSetPage \in Pages
    BY StorageAssumption DEF VeSetPage, Pages
  <2>2. ram' = [ram EXCEPT ![VeSetPage][c] = SetTo(v)] /\ savePage(ram', VeSetPage, b)
    BY <1>5 DEF computeVssRatio
  <2>3. ram' \in Tune
    BY <1>1, <2>1, <2>2, SetValue
  <2>4. \A q \in Pages, d \in Cells : ram'[q][d].format \in {ram[q][d].format, CurrentVersion}
    BY <1>2, <2>1, <2>2
  <2>5. FromRam
    BY <2>1, <2>2, <2>3, <2>4, SavePageFormats
  <2>6. ~savedAlone' => ~savedAlone
    BY <2>2 DEF savePage
  <2> QED BY <1>5, <2>5, <2>6 DEF computeVssRatio
<1>6. ASSUME NEW b \in Budgets, SavePending(b) PROVE FromRam /\ Kept
  <2>1. ram' = ram /\ saveAllPages(b)
    BY <1>6 DEF SavePending
  <2>2. ~burnPending' => storage' = ram
    BY <1>1, <2>1, BudgetsAreNumbers, SaveAllPagesStores
  <2>3. \A p \in Pages, c \in Cells : storage'[p][c] = storage[p][c] \/ storage'[p][c] = ram[p][c]
    BY <2>1, SavedFromRam
  <2>4. FromRam
    BY <2>1, <2>2, <2>3
  <2> QED BY <1>6, <2>4 DEF SavePending
<1>7. ASSUME NEW c \in Cells, NEW b \in Budgets, initialiseADC(c, b) PROVE FromRam /\ Kept
  <2>1. IgnSetPage \in Pages
    BY StorageAssumption DEF Pages
  <2>2. CASE UNCHANGED <<ram, storage, burnPending, savedAlone>>
    BY <1>7, <2>2 DEF initialiseADC
  <2>3. ASSUME NEW v \in Values, ram' = [ram EXCEPT ![IgnSetPage][c] = SetTo(v)],
               savePage(ram', IgnSetPage, b)
        PROVE  FromRam /\ Kept
    <3>1. ram' \in Tune
      BY <1>1, <2>1, <2>3, SetValue
    <3>2. \A q \in Pages, d \in Cells : ram'[q][d].format \in {ram[q][d].format, CurrentVersion}
      BY <1>2, <2>1, <2>3
    <3>3. FromRam
      BY <2>1, <2>3, <3>1, <3>2, SavePageFormats
    <3>4. ~savedAlone' => ~savedAlone
      BY <2>3 DEF savePage
    <3> QED BY <1>7, <3>3, <3>4 DEF initialiseADC
  <2> QED BY <1>7, <2>2, <2>3 DEF initialiseADC
<1>8. FromRam /\ Kept
  <2>1. ASSUME NEW p \in Pages, NEW b \in Budgets, Burn(p, b) \/ BurnCompat(p, b) PROVE FromRam /\ Kept
    BY <2>1, <1>4 DEF Burn, BurnCompat
  <2> QED BY <2>1, <1>3, <1>5, <1>6, <1>7
<1> QED BY <1>8, LoopKeepsFormats

\* A conversion is right for every setting, its sources being so.
LEMMA ConvertFormats ==
  ASSUME IInv, FormatsRight, doUpdates, Convert
  PROVE  FormatsRight'
<1>1. /\ pc = "convert" /\ version \in Converted /\ version' = version /\ before' = ~burnPending
      /\ pc' = IF SavesPages(version) THEN "save" ELSE "version"
      /\ UNCHANGED <<storage, burnPending, savedAlone, interrupted, repeated, origin>>
  BY DEF doUpdates, Convert
<1>2. \A s : ConvertedRight(s)' = ConvertedRight(s)
  BY <1>1 DEF ConvertedRight
<1>3. ASSUME NEW s, ConvertedRight(s) PROVE origin.version <= version
  BY <1>3, <1>1 DEF ConvertedRight, FormatsRight, CurrentVersion, Converted
<1>4. ASSUME ~savedAlone', ~interrupted', NEW p \in Pages, NEW c \in Cells, ConvertedRight(Setting(p, c))'
      PROVE  StageRight(Setting(p, c), ram[p][c].format, storage[p][c].format)'
  <2> DEFINE s == Setting(p, c)
  <2> DEFINE f == ram[p][c].format
  <2>1. ConvertedRight(s) /\ s' = s /\ s # "calibration" /\ f \in Int
    BY <1>1, <1>4, FormatFacts DEF ConvertedRight
  <2>2. \A q \in Pages, d \in Cells :
          ConvertedRight(Setting(q, d)) =>
            /\ Ready(version, Setting(q, d), ram[q][d].format)
            /\ ~burnPending => Ready(version, Setting(q, d), storage[q][d].format)
    BY <1>1, <1>4 DEF FormatsRight, StageRight
  <2>3. SourcesRight(s)
    <3>1. ASSUME NEW q \in Pages, NEW d \in Cells, Setting(q, d) \in Sources(version, s)
          PROVE  Right(version, Setting(q, d), ram[q][d].format)
      <4>1. ConvertedRight(Setting(q, d)) /\ ~Changes(version, Setting(q, d))
        BY <1>1, <2>1, <3>1, SourceReady
      <4> QED BY <2>2, <4>1 DEF Ready, Done
    <3> QED BY <3>1 DEF SourcesRight
  <2>4. Ready(version, s, f) /\ (~burnPending => Ready(version, s, storage[p][c].format))
    BY <2>1, <2>2
  <2>5. ram'[p][c].format = ConvertedFormat(version, s, f, SourcesRight(s))
    <3>1. ram[p][c] \in Bytes
      BY DEF IInv, TypeOK, Tune
    <3> QED BY <3>1 DEF Convert, Bytes
  <2>6. Done(version, s, ram'[p][c].format)
    BY <1>1, <1>3, <2>1, <2>3, <2>4, <2>5, ConvertsRight
  <2>7. ~SavesPages(version) /\ ~burnPending => Done(version, s, storage[p][c].format)
    <3> SUFFICES ASSUME ~SavesPages(version), ~burnPending PROVE Done(version, s, storage[p][c].format)
      OBVIOUS
    <3>1. ~Changes(version, s)
      BY <2>1, UnsavedChanges DEF SavesPages
    <3>2. Right(version, s, storage[p][c].format)
      BY <2>4, <3>1 DEF Ready, Done
    <3> QED BY <1>1, <3>1, <3>2, FormatFacts, StaysRight DEF Converted
  <2> HIDE DEF s
  <2>8. StageRight(s, ram[p][c].format, storage[p][c].format)'
    BY <1>1, <2>1, <2>4, <2>6, <2>7 DEF StageRight, Ready
  <2> QED BY <2>8 DEF s
<1>5. ConvertedRight("calibration")' => CalibrationRight'
  <2> SUFFICES ASSUME ConvertedRight("calibration")' PROVE CalibrationRight'
    OBVIOUS
  <2>1. Ready(version, "calibration", calibration) /\ calibration \in Int
    BY <1>1, <1>2 DEF FormatsRight, CalibrationRight, IInv, TypeOK
  <2>2. calibration' = ConvertedFormat(version, "calibration", calibration, TRUE)
    BY DEF Convert
  <2>3. Done(version, "calibration", calibration')
    BY <1>1, <1>2, <1>3, <2>1, <2>2, ConvertsRight
  <2> QED BY <1>1, <2>3 DEF CalibrationRight
<1> QED BY <1>1, <1>4, <1>5 DEF FormatsRight

\* When there is nothing to convert, no setting had to be or all are right.
LEMMA UpdateFormats ==
  ASSUME IInv, FormatsRight, doUpdates
  PROVE  FormatsRight'
<1>1. pc = "convert" /\ UNCHANGED <<storage, burnPending, savedAlone, interrupted, repeated, origin>>
  BY DEF doUpdates
<1>2. \A s : ConvertedRight(s)' = ConvertedRight(s)
  BY <1>1 DEF ConvertedRight
<1>3. CASE SetUpNewBoard \/ Downgrade
  <2>1. version \notin 7..CurrentVersion /\ pc' = "adc" /\ version' = CurrentVersion
    BY <1>3 DEF SetUpNewBoard, Downgrade, BrandNew, CurrentVersion
  <2>2. origin.version \notin 7..CurrentVersion
    <3>1. ASSUME origin.version \in 7..CurrentVersion PROVE FALSE
      BY <2>1, <3>1 DEF FormatsRight, CurrentVersion
    <3> QED BY <3>1
  <2>3. \A s : ~ConvertedRight(s)'
    BY <1>2, <2>2 DEF ConvertedRight
  <2> QED BY <1>1, <2>1, <2>2, <2>3 DEF FormatsRight, Setting
<1>4. CASE version = CurrentVersion /\ pc' = "adc" /\ UNCHANGED <<ram, calibration, before, version>>
  <2>1. \A s, f : Ready(version, s, f) => Right(CurrentVersion, s, f)
    BY <1>4 DEF Ready, IInv, TypeOK, Converted, CurrentVersion
  <2>2. ASSUME ~savedAlone', ~interrupted', NEW p \in Pages, NEW c \in Cells, ConvertedRight(Setting(p, c))'
        PROVE  StageRight(Setting(p, c), ram[p][c].format, storage[p][c].format)'
    <3> DEFINE s == Setting(p, c)
    <3>1. ConvertedRight(s) /\ s' = s
      BY <1>1, <2>2 DEF ConvertedRight, Setting
    <3>2. StageRight(s, ram[p][c].format, storage[p][c].format)
      BY <1>1, <2>2, <3>1 DEF FormatsRight
    <3> HIDE DEF s
    <3>3. StageRight(s, ram[p][c].format, storage[p][c].format)'
      BY <1>1, <1>4, <2>1, <3>1, <3>2 DEF StageRight
    <3> QED BY <3>3 DEF s
  <2>3. ConvertedRight("calibration")' => CalibrationRight'
    BY <1>1, <1>2, <1>4, <2>1 DEF FormatsRight, CalibrationRight
  <2>4. origin.version \in 7..CurrentVersion => version \in origin.version..CurrentVersion
    BY DEF FormatsRight
  <2> QED BY <1>1, <1>4, <2>2, <2>3, <2>4 DEF FormatsRight
<1> QED BY <1>3, <1>4, ConvertFormats DEF doUpdates

LEMMA SaveConvertedFormats ==
  ASSUME IInv, FormatsRight, NEW b \in Budgets, SaveConverted(b)
  PROVE  FormatsRight'
<1>1. /\ pc = "save" /\ pc' = "version" /\ saveAllPages(b)
      /\ UNCHANGED <<ram, calibration, version, savedAlone, interrupted, before, repeated, origin>>
  BY DEF SaveConverted, history
<1>2. \A s : ConvertedRight(s)' = ConvertedRight(s)
  BY <1>1 DEF ConvertedRight
<1>3. ~burnPending' => storage' = ram
  BY <1>1, BudgetsAreNumbers, SaveAllPagesStores DEF IInv, TypeOK
<1>4. ASSUME ~savedAlone', ~interrupted', NEW p \in Pages, NEW c \in Cells, ConvertedRight(Setting(p, c))'
      PROVE  StageRight(Setting(p, c), ram[p][c].format, storage[p][c].format)'
  <2> DEFINE s == Setting(p, c)
  <2>1. ConvertedRight(s) /\ s' = s
    BY <1>1, <1>4 DEF ConvertedRight, Setting
  <2>2. StageRight(s, ram[p][c].format, storage[p][c].format)
    BY <1>1, <1>4, <2>1 DEF FormatsRight
  <2>3. Done(version, s, ram[p][c].format) /\ (before => Ready(version, s, storage[p][c].format))
    BY <1>1, <2>2 DEF StageRight
  <2>4. storage'[p][c] = storage[p][c] \/ storage'[p][c] = ram[p][c]
    BY <1>1, SavedFromRam
  <2>5. /\ before => Ready(version, s, storage'[p][c].format) \/ Done(version, s, storage'[p][c].format)
        /\ ~burnPending' => Done(version, s, storage'[p][c].format)
    BY <1>3, <2>3, <2>4
  <2> HIDE DEF s
  <2>6. StageRight(s, ram[p][c].format, storage[p][c].format)'
    BY <1>1, <2>1, <2>3, <2>5 DEF StageRight, Ready
  <2> QED BY <2>6 DEF s
<1>5. ConvertedRight("calibration")' => CalibrationRight'
  BY <1>1, <1>2 DEF FormatsRight, CalibrationRight
<1> QED BY <1>1, <1>4, <1>5 DEF FormatsRight

LEMMA VersionFormats ==
  ASSUME IInv, FormatsRight, saveEEPROMVersion
  PROVE  FormatsRight'
<1>1. /\ pc = "version" /\ pc' = "convert" /\ version' = version + 1
      /\ UNCHANGED <<ram, storage, calibration, burnPending, savedAlone, interrupted, repeated, origin>>
  BY DEF saveEEPROMVersion, history
<1>2. \A s : ConvertedRight(s)' = ConvertedRight(s)
  BY <1>1 DEF ConvertedRight
<1>3. \A s, f : Done(version, s, f) => Right(version + 1, s, f)
  BY DEF Done
<1>4. ASSUME ~savedAlone', ~interrupted', NEW p \in Pages, NEW c \in Cells, ConvertedRight(Setting(p, c))'
      PROVE  StageRight(Setting(p, c), ram[p][c].format, storage[p][c].format)'
  <2> DEFINE s == Setting(p, c)
  <2>1. ConvertedRight(s) /\ s' = s
    BY <1>1, <1>4 DEF ConvertedRight, Setting
  <2>2. StageRight(s, ram[p][c].format, storage[p][c].format)
    BY <1>1, <1>4, <2>1 DEF FormatsRight
  <2> HIDE DEF s
  <2>3. StageRight(s, ram[p][c].format, storage[p][c].format)'
    BY <1>1, <1>3, <2>1, <2>2 DEF StageRight, Ready, Right, Changes
  <2> QED BY <2>3 DEF s
<1>5. ConvertedRight("calibration")' => CalibrationRight'
  BY <1>1, <1>2, <1>3 DEF FormatsRight, CalibrationRight, Ready, Right, Changes
<1>6. origin.version \in 7..CurrentVersion => version' \in origin.version..CurrentVersion
  <2>1. version \in Converted
    BY <1>1 DEF IInv, BootOwesNothing
  <2> QED BY <1>1, <2>1 DEF FormatsRight, Converted, CurrentVersion
<1> QED BY <1>1, <1>4, <1>5, <1>6 DEF FormatsRight

\* A loss of power leaves what is stored: not converted yet where a conversion had
\* begun with everything saved, or converted and to be done again.
LEMMA PowerLossFormats ==
  ASSUME IInv, FormatsRight, PowerLoss
  PROVE  FormatsRight'
<1>1. /\ ram' = storage /\ pc' = "convert"
      /\ UNCHANGED <<storage, calibration, version, savedAlone, before, origin>>
  BY DEF PowerLoss
<1>2. repeated \subseteq repeated' /\ (pc = "version" => version \in repeated')
  BY DEF PowerLoss
<1>3. \A s : ConvertedRight(s)' => ConvertedRight(s)
  BY <1>1, <1>2, FewerRight
<1> DEFINE ReadyNow(s, f) == Right(version, s, f) \/ (version \in repeated' /\ Done(version, s, f))
<1>4. \A s, f : /\ Ready(version, s, f) => ReadyNow(s, f)
                /\ pc = "version" /\ Done(version, s, f) => ReadyNow(s, f)
  BY <1>2 DEF Ready
<1>5. pc \in {"convert", "save", "version", "adc", "loop"}
  BY DEF IInv, TypeOK
<1>6. ASSUME ~savedAlone', ~interrupted', NEW p \in Pages, NEW c \in Cells, ConvertedRight(Setting(p, c))'
      PROVE  StageRight(Setting(p, c), ram[p][c].format, storage[p][c].format)'
  <2> DEFINE s == Setting(p, c)
  <2> DEFINE f == storage[p][c].format
  <2>1. ConvertedRight(s) /\ s' = s
    BY <1>1, <1>3, <1>6 DEF Setting
  <2>2. ~interrupted /\ IF pc = "version" THEN before ELSE ~burnPending
    BY <1>6 DEF PowerLoss
  <2>3. StageRight(s, ram[p][c].format, f)
    BY <1>1, <1>6, <2>1, <2>2 DEF FormatsRight
  <2>4. ReadyNow(s, f)
    <3>1. CASE pc = "version"
      BY <1>4, <2>2, <2>3, <3>1 DEF StageRight
    <3>2. CASE pc = "save"
      <4>1. before
        BY <2>2, <3>2 DEF FormatsRight
      <4> QED BY <1>4, <2>3, <3>2, <4>1 DEF StageRight
    <3>3. CASE pc = "convert"
      BY <1>4, <2>2, <2>3, <3>3 DEF StageRight
    <3>4. CASE pc \in {"adc", "loop"}
      <4>1. Right(version, s, f)
        BY <2>2, <2>3, <3>4 DEF StageRight, FormatsRight
      <4> QED BY <1>4, <4>1 DEF Ready
    <3> QED BY <1>5, <3>1, <3>2, <3>3, <3>4
  <2> HIDE DEF s
  <2>5. StageRight(s, ram[p][c].format, storage[p][c].format)'
    BY <1>1, <2>1, <2>4 DEF StageRight, Ready
  <2> QED BY <2>5 DEF s
<1>7. ConvertedRight("calibration")' => CalibrationRight'
  <2> SUFFICES ASSUME ConvertedRight("calibration")' PROVE CalibrationRight'
    OBVIOUS
  <2>1. ConvertedRight("calibration") /\ CalibrationRight
    BY <1>3 DEF FormatsRight
  <2>2. ReadyNow("calibration", calibration)
    <3>1. CASE pc = "version"
      BY <1>1, <1>4, <2>1, <3>1 DEF CalibrationRight
    <3>2. CASE pc = "save"
      <4>1. version \in Converted /\ SavesPages(version)
        BY <3>2 DEF IInv, BootOwesNothing, FormatsRight
      <4>2. version # 14
        <5>1. origin.version \in 7..CurrentVersion /\ origin.version <= version
          BY <2>1, <4>1 DEF ConvertedRight, FormatsRight, Converted, CurrentVersion
        <5>2. version \in origin.version..(CurrentVersion - 1)
          BY <4>1, <5>1 DEF Converted, CurrentVersion
        <5>3. "calibration" \notin Conversion(version).spoils
          BY <2>1, <5>2 DEF ConvertedRight, Understood
        <5> QED BY <5>3, UnsavedChanges
      <4>3. ~Changes(version, "calibration")
        BY <4>1, <4>2, UnsavedChanges DEF SavesPages
      <4>4. Done(version, "calibration", calibration)
        BY <2>1, <3>2 DEF CalibrationRight
      <4> QED BY <1>1, <1>4, <4>3, <4>4 DEF Done, Ready
    <3>3. CASE pc = "convert"
      BY <1>1, <1>4, <2>1, <3>3 DEF CalibrationRight
    <3>4. CASE pc \in {"adc", "loop"}
      BY <1>1, <1>4, <2>1, <3>4 DEF CalibrationRight, FormatsRight, Ready
    <3> QED BY <1>5, <3>1, <3>2, <3>3, <3>4
  <2> QED BY <1>1, <2>2 DEF CalibrationRight, Ready
<1>8. origin.version \in 7..CurrentVersion => version \in origin.version..CurrentVersion
  BY DEF FormatsRight
<1> QED BY <1>1, <1>6, <1>7, <1>8 DEF FormatsRight

LEMMA StepKeepsFormats == IInv /\ FormatsRight /\ [Next]_vars => FormatsRight'
<1> SUFFICES ASSUME IInv, FormatsRight, [Next]_vars PROVE FormatsRight'
  OBVIOUS
<1>1. CASE \E p \in Pages, c \in Cells, v \in Values : updatePageValues(p, c, v)
  BY <1>1, LoopFormats
<1>2. CASE \E p \in Pages, b \in Budgets : Burn(p, b) \/ BurnCompat(p, b)
  BY <1>2, LoopFormats
<1>3. CASE \E c \in Cells, v \in Values, b \in Budgets : computeVssRatio(c, v, b)
  BY <1>3, LoopFormats
<1>4. CASE \E b \in Budgets : SavePending(b)
  BY <1>4, LoopFormats
<1>5. CASE Boot
  <2>1. CASE \E c \in Cells, b \in Budgets : initialiseADC(c, b)
    BY <2>1, LoopFormats
  <2> QED BY <1>5, <2>1, UpdateFormats, SaveConvertedFormats, VersionFormats DEF Boot
<1>6. CASE PowerLoss
  BY <1>6, PowerLossFormats
<1>7. CASE DeferralEnds \/ UNCHANGED vars
  <2>1. UNCHANGED <<ram, storage, calibration, version, pc, burnPending, history>>
    BY <1>7 DEF DeferralEnds, vars
  <2> QED BY <2>1 DEF history, FormatsRight, StageRight, CalibrationRight, ConvertedRight, Setting, Ready
<1> QED BY <1>1, <1>2, <1>3, <1>4, <1>5, <1>6, <1>7 DEF Next

\* Whatever versions a tune of version 7 or later has to go through (updates.cpp),
\* for any write budget and any number of power losses of which none came while
\* an earlier save was incomplete: every setting that its conversions understand,
\* and that no repeated conversion computes from itself, is right in the main loop.
THEOREM UpdatesConvertOnce == Spec => []ConvertedOnce
<1>1. Init => FormatsRight
  <2> SUFFICES ASSUME Init PROVE FormatsRight
    OBVIOUS
  <2>1. origin \in Tunes /\ origin.version \in Int
    BY TunesAssumption DEF Init
  <2>2. ASSUME NEW s, ConvertedRight(s) PROVE Right(version, s, FoundFormat(s))
    BY <2>1, <2>2 DEF Init, ConvertedRight, Understood, FoundFormat, BrandNew, Right, CurrentVersion
  <2>3. \A p \in Pages, c \in Cells :
          ram[p][c].format = FoundFormat(Setting(p, c)) /\ storage[p][c].format = FoundFormat(Setting(p, c))
    BY DEF Init
  <2>4. ASSUME NEW p \in Pages, NEW c \in Cells, ConvertedRight(Setting(p, c))
        PROVE  StageRight(Setting(p, c), ram[p][c].format, storage[p][c].format)
    BY <2>2, <2>3, <2>4 DEF Init, StageRight, Ready
  <2>5. ConvertedRight("calibration") => CalibrationRight
    BY <2>2 DEF Init, CalibrationRight, Ready
  <2>6. pc = "convert" /\ version = origin.version
    BY DEF Init
  <2> QED BY <2>1, <2>4, <2>5, <2>6 DEF FormatsRight, CurrentVersion
<1>2. IInv /\ FormatsRight /\ [Next]_vars => FormatsRight'
  BY StepKeepsFormats
<1>3. FormatsRight => ConvertedOnce
  BY DEF FormatsRight, StageRight, CalibrationRight, ConvertedOnce
<1> QED BY <1>1, <1>2, <1>3, Inductive, PTL DEF Spec
=============================================================================
