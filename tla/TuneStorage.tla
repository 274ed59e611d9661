----------------------------- MODULE TuneStorage -----------------------------
(***************************************************************************)
(* The tune in RAM and in permanent storage: storage.cpp, the commands of  *)
(* comms.cpp that change and burn pages, the 30 Hz check of the main loop  *)
(* and the format conversions of updates.cpp at power up.                  *)
(*                                                                         *)
(* Writing a byte takes milliseconds, so each save of a page may only      *)
(* write so many; what is left is flagged in burnPending and the main loop *)
(* goes over all pages again.  A write defers all burning for a while.     *)
(* Power may go at any moment between two steps.                           *)
(***************************************************************************)
EXTENDS TuneUpdates, FiniteSets

CONSTANTS
  NumPages,        \* MIN_PAGE_NUM..MAX_PAGE_NUM - 1, from 1
  PageSize,        \* bytes of a page
  IgnSetPage,      \* the page of the ADC filters; veSetPage is the first
  Values,          \* what the user may set a byte to
  Blank,           \* the value of a setting nobody has set
  Budgets,         \* getMaxWriteBlockSize, by RPM and comms mode
  Tunes,           \* the tunes the firmware may find: where each has which setting
  MaxCommands,     \* bound: writes and compatibility burns of the tuning program
  MaxLosses        \* bound: power losses

ASSUME StorageAssumption ==
  /\ NumPages \in Nat \ {0} /\ PageSize \in Nat \ {0}
  /\ IgnSetPage \in 1..NumPages
  /\ Blank \in Values
  /\ Budgets \subseteq Nat \ {0} /\ Budgets # {}
  /\ MaxCommands \in Nat /\ MaxLosses \in Nat

Pages == 1..NumPages
Cells == 1..PageSize
VeSetPage == 1
BrandNew == {0, 255}

\* version: of the data, 0 or 255 on a brand new board.  Calibration tables are on no page.
ASSUME TunesAssumption ==
  \A tune \in Tunes :
    /\ tune.holds \in [Pages -> [Cells -> STRING \ {"calibration"}]]
    /\ tune.version \in {0} \union 7..255

\* A byte: what was meant by it, and the version it is right for.
Bytes == [value : Values, format : Int]

VARIABLES
  ram,          \* the tune in use
  storage,      \* the EEPROM
  calibration,  \* the version the stored calibration tables are right for
  version,      \* EEPROM_DATA_VERSION in the EEPROM
  pc,           \* where initialiseAll is, or "loop"
  burnPending,  \* currentStatus.burnPending
  deferred,     \* ~storageWriteTimeoutExpired()
  owed,         \* bytes a burn command was acknowledged for and storage still lacks
  savedAlone,   \* a single page was saved while a burn was pending
  interrupted,  \* power was lost while something was still to be saved
  before,       \* nothing was, when the last conversion began
  repeated,     \* versions whose conversion was saved, but power lost before that was noted
  origin,       \* the tune the firmware found
  commands, losses

history == <<owed, savedAlone, interrupted, before, repeated, origin, commands, losses>>
vars == <<ram, storage, calibration, version, pc, burnPending, deferred, history>>

Tune == [Pages -> [Cells -> Bytes]]
Setting(p, c) == origin.holds[p][c]

TypeOK ==
  /\ ram \in Tune
  /\ storage \in Tune
  /\ calibration \in Int
  /\ version \in {0} \union 7..255
  /\ pc \in {"convert", "save", "version", "adc", "loop"}
  /\ burnPending \in BOOLEAN
  /\ deferred \in BOOLEAN
  /\ owed \subseteq Pages \X Cells
  /\ savedAlone \in BOOLEAN /\ interrupted \in BOOLEAN /\ before \in BOOLEAN
  /\ repeated \subseteq Converted
  /\ origin \in Tunes
  /\ commands \in 0..MaxCommands /\ losses \in 0..MaxLosses

-----------------------------------------------------------------------------
(* savePage and saveAllPages.                                              *)

MutantWritesAll(mem, p) == Cells

\* The bytes of a page that differ from storage: only these are written.
Unsaved(mem, p) == {c \in Cells : storage[p][c] # mem[p][c]}

\* All writes are used up: also when the last of them was just enough.
Exhausts(mem, p, budget) == Cardinality(Unsaved(mem, p)) >= budget

MutantTruncates(mem, p, budget) == [c \in {d \in Cells : d <= budget} |-> mem[p][c]]

\* Page p after a save: its first budget unsaved bytes are written.
Written(mem, p, budget) ==
  [c \in Cells |->
     IF /\ c \in Unsaved(mem, p)
        /\ Cardinality({d \in Unsaved(mem, p) : d <= c}) <= budget
     THEN mem[p][c] ELSE storage[p][c]]

\* What is still owed of what was, or of what a burn just promised.
StillOwed(promised) ==
  {byte \in promised : storage'[byte[1]][byte[2]] # ram'[byte[1]][byte[2]]}

savePage(mem, p, budget) ==
  /\ storage' = [storage EXCEPT ![p] = Written(mem, p, budget)]
  /\ burnPending' = Exhausts(mem, p, budget)
  /\ savedAlone' = (savedAlone \/ burnPending)

MutantGoesOn(budget) ==
  /\ storage' = [p \in Pages |-> Written(ram, p, budget)]
  /\ burnPending' = Exhausts(ram, NumPages, budget)

\* Every page in turn, up to the first that runs out of writes.
saveAllPages(budget) ==
  /\ storage' = [p \in Pages |->
       IF \E q \in Pages : q < p /\ Exhausts(ram, q, budget)
       THEN storage[p] ELSE Written(ram, p, budget)]
  /\ burnPending' = \E p \in Pages : Exhausts(ram, p, budget)

-----------------------------------------------------------------------------
(* Commands of the tuning program and of its buttons.                      *)

\* A setting given today.
SetTo(v) == [value |-> v, format |-> CurrentVersion]

\* 'M': one byte stands for the range a command writes.
updatePageValues(p, c, v) ==
  /\ pc = "loop"
  /\ commands < MaxCommands
  /\ commands' = commands + 1
  /\ ram' = [ram EXCEPT ![p][c] = SetTo(v)]
  /\ deferred' = TRUE
  /\ owed' = owed \ {<<p, c>>}
  /\ UNCHANGED <<storage, calibration, version, pc, burnPending, savedAlone, interrupted, before,
                 repeated, origin, losses>>

\* 'b', and 'B' which may put off the end of the deferral.
burnSinglePage(p, budget) ==
  /\ IF deferred'
     THEN /\ burnPending' = TRUE
          /\ UNCHANGED <<storage, savedAlone>>
     ELSE savePage(ram, p, budget)
  /\ UNCHANGED <<ram, calibration, version, pc, interrupted, before, repeated, origin, losses>>
  /\ owed' = StillOwed(owed \union ({p} \X Cells))

Burn(p, budget) ==
  /\ pc = "loop"
  /\ UNCHANGED <<deferred, commands>>
  /\ burnSinglePage(p, budget)

BurnCompat(p, budget) ==
  /\ pc = "loop"
  /\ commands < MaxCommands
  /\ commands' = commands + 1
  /\ deferred' \in {deferred, TRUE}
  /\ burnSinglePage(p, budget)

\* The VSS calibration buttons: a byte of the first page is set and saved at once.
computeVssRatio(c, v, budget) ==
  /\ pc = "loop"
  /\ commands < MaxCommands
  /\ commands' = commands + 1
  /\ ram' = [ram EXCEPT ![VeSetPage][c] = SetTo(v)]
  /\ savePage(ram', VeSetPage, budget)
  /\ owed' = StillOwed(owed \union ({VeSetPage} \X Cells))
  /\ UNCHANGED <<calibration, version, pc, deferred, interrupted, before, repeated, origin, losses>>

-----------------------------------------------------------------------------
(* Time passes.                                                            *)

DeferralEnds ==
  /\ deferred
  /\ deferred' = FALSE
  /\ UNCHANGED <<ram, storage, calibration, version, pc, burnPending, history>>

\* The 30 Hz check of the main loop; the serial port is idle.
SavePending(budget) ==
  /\ pc = "loop"
  /\ burnPending
  /\ ~deferred
  /\ saveAllPages(budget)
  /\ UNCHANGED <<ram, calibration, version, pc, deferred, savedAlone, interrupted, before, repeated,
                 origin, commands, losses>>
  /\ owed' = StillOwed(owed)

-----------------------------------------------------------------------------
(* Power up: loadAllPages, doUpdates, and the checks of initialiseADC.     *)

\* The sources of a setting are right in RAM.
SourcesRight(s) ==
  \A p \in Pages, c \in Cells :
    Setting(p, c) \in Sources(version, s) => Right(version, Setting(p, c), ram[p][c].format)

\* The conversion of one version, in RAM but for the calibration tables.
Convert ==
  /\ version \in Converted
  /\ ram' = [p \in Pages |-> [c \in Cells |->
       [ram[p][c] EXCEPT !.format =
          ConvertedFormat(version, Setting(p, c), @, SourcesRight(Setting(p, c)))]]]
  /\ calibration' = ConvertedFormat(version, "calibration", calibration, TRUE)
  /\ before' = ~burnPending
  /\ pc' = IF SavesPages(version) THEN "save" ELSE "version"
  /\ UNCHANGED version

\* A brand new board gets a few values and the version; they are not saved.
SetUpNewBoard ==
  /\ version \in BrandNew
  /\ ram' = [p \in Pages |-> [c \in Cells |->
       IF Setting(p, c) \in NewBoard THEN [ram[p][c] EXCEPT !.format = CurrentVersion] ELSE ram[p][c]]]
  /\ version' = CurrentVersion
  /\ pc' = "adc"
  /\ UNCHANGED <<calibration, before>>

\* Newer data keeps what it is and is called current.
Downgrade ==
  /\ version > CurrentVersion /\ version \notin BrandNew
  /\ version' = CurrentVersion
  /\ pc' = "adc"
  /\ UNCHANGED <<ram, calibration, before>>

\* One conversion after the other until the version is current.
doUpdates ==
  /\ pc = "convert"
  /\ \/ Convert
     \/ SetUpNewBoard
     \/ Downgrade
     \/ version = CurrentVersion /\ pc' = "adc" /\ UNCHANGED <<ram, calibration, before, version>>
  /\ UNCHANGED <<storage, burnPending, deferred, owed, savedAlone, interrupted, repeated, origin,
                 commands, losses>>

SaveConverted(budget) ==
  /\ pc = "save"
  /\ saveAllPages(budget)
  /\ pc' = "version"
  /\ UNCHANGED <<ram, calibration, version, deferred, history>>

MutantNoVersion ==
  /\ pc = "version"
  /\ pc' = "adc"
  /\ UNCHANGED <<ram, storage, calibration, version, burnPending, deferred, history>>

saveEEPROMVersion ==
  /\ pc = "version"
  /\ version' = version + 1
  /\ pc' = "convert"
  /\ UNCHANGED <<ram, storage, calibration, burnPending, deferred, history>>

\* A filter that was never set.
FilterUnset(c) == Setting(IgnSetPage, c) = "ADCFILTER" /\ ram[IgnSetPage][c].value = Blank

\* Each such filter is given its default and its page is saved on its own.
initialiseADC(c, budget) ==
  /\ pc = "adc"
  /\ \/ /\ FilterUnset(c)
        /\ \E v \in Values \ {Blank} : ram' = [ram EXCEPT ![IgnSetPage][c] = SetTo(v)]
        /\ savePage(ram', IgnSetPage, budget)
        /\ UNCHANGED pc
     \/ /\ \A d \in Cells : ~FilterUnset(d)
        /\ pc' = "loop"
        /\ UNCHANGED <<ram, storage, burnPending, savedAlone>>
  /\ UNCHANGED <<calibration, version, deferred, owed, interrupted, before, repeated, origin,
                 commands, losses>>

\* While the version is still to be written the conversion is saved, or half of it.
PowerLoss ==
  /\ losses < MaxLosses
  /\ losses' = losses + 1
  /\ interrupted' = (interrupted \/ IF pc = "version" THEN ~before ELSE burnPending)
  /\ repeated' = repeated \union (IF pc = "version" THEN {version} ELSE {})
  /\ ram' = storage
  /\ pc' = "convert"
  /\ burnPending' = FALSE
  /\ deferred' = FALSE
  /\ owed' = {}
  /\ UNCHANGED <<storage, calibration, version, savedAlone, before, origin, commands>>

\* The format of what is found where a setting should be.
FoundFormat(s) ==
  IF origin.version \in BrandNew \/ (origin.version <= 16 /\ s \in Misplaced) THEN Wrong ELSE origin.version

Init ==
  /\ origin \in Tunes
  /\ storage = [p \in Pages |-> [c \in Cells |-> [value |-> Blank, format |-> FoundFormat(Setting(p, c))]]]
  /\ ram = storage
  /\ calibration = FoundFormat("calibration")
  /\ version = origin.version
  /\ pc = "convert"
  /\ burnPending = FALSE
  /\ deferred = FALSE
  /\ owed = {}
  /\ savedAlone = FALSE /\ interrupted = FALSE /\ before = TRUE /\ repeated = {}
  /\ commands = 0 /\ losses = 0

Boot ==
  \/ doUpdates
  \/ \E b \in Budgets : SaveConverted(b)
  \/ saveEEPROMVersion
  \/ \E c \in Cells, b \in Budgets : initialiseADC(c, b)

Next ==
  \/ \E p \in Pages, c \in Cells, v \in Values : updatePageValues(p, c, v)
  \/ \E p \in Pages, b \in Budgets : Burn(p, b)
  \/ \E p \in Pages, b \in Budgets : BurnCompat(p, b)
  \/ \E c \in Cells, v \in Values, b \in Budgets : computeVssRatio(c, v, b)
  \/ DeferralEnds
  \/ \E b \in Budgets : SavePending(b)
  \/ Boot
  \/ PowerLoss

Spec == Init /\ [][Next]_vars

\* The main loop comes to its 30 Hz check again and again, and clocks run.
FairSpec ==
  /\ Spec
  /\ WF_vars(\E b \in Budgets : SavePending(b))
  /\ WF_vars(DeferralEnds)
  /\ WF_vars(Boot)

-----------------------------------------------------------------------------
(* Properties.                                                             *)

\* When no burn is pending any more, every byte a burn was acknowledged for is in
\* storage, as storage.h says; unless a page was saved on its own in between.
BurnsAreKept == ~savedAlone => (owed # {} => burnPending)

\* The same without the exception.
PendingUntilSaved == owed # {} => burnPending

\* A setting that its conversions understand and that none that power loss made
\* run twice computes from itself.
ConvertedRight(s) ==
  /\ origin.version \in 7..CurrentVersion
  /\ Understood(origin.version, s)
  /\ \A v \in repeated : s \notin Conversion(v).own

\* Whatever versions a tune has to go through, and however often power is lost on
\* the way, if only not while an earlier save was incomplete: every setting is
\* right for this firmware once the main loop runs.  A conversion that was saved,
\* but not noted, is done again, which settings out of defaults and out of others
\* survive, as no conversion changes what it computes others from.
ConvertedOnce ==
  pc = "loop" /\ ~savedAlone /\ ~interrupted =>
    /\ \A p \in Pages, c \in Cells :
         ConvertedRight(Setting(p, c)) => Right(CurrentVersion, Setting(p, c), ram[p][c].format)
    /\ ConvertedRight("calibration") => Right(CurrentVersion, "calibration", calibration)

\* Saving comes to an end, although every pass begins at the first page again.
SavesEnd == []<>(pc = "loop" /\ ~burnPending)
=============================================================================
