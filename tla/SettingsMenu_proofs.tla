------------------------ MODULE SettingsMenu_proofs ------------------------
(***************************************************************************)
(* Proofs about SettingsMenu: types, the highlighted line of a list, and   *)
(* that a stored flag changes by a choice in its list only.                *)
(***************************************************************************)
EXTENDS SettingsMenu, TLAPS

\* What LoadSettings may not clear: a storage that was never initialised was
\* never written, because a list opens only in a started application.
StorageInv ==
    /\ screen # "off" => ready
    /\ ~ready => storage = AllNo

MenuInv == TypeOK /\ StorageInv /\ CursorShowsStored

LEMMA AllNoType == AllNo \in Values
BY DEF AllNo, Values

LEMMA InitMenu == Init => MenuInv
BY AllNoType DEF Init, MenuInv, TypeOK, StorageInv, CursorShowsStored

\* A list is that of a setting, and its line one of the two values.
LEMMA OpenListStep == ASSUME NEW s \in Settings, TypeOK, OpenList(s)
    PROVE  screen' = "list" /\ list' \in Settings /\ list' # 0 /\ list' = s
           /\ cursor' = storage[list'] /\ cursor' \in {0, 1}
BY DEF OpenList, TypeOK, Values, Settings

\* Loading the settings writes nothing into a storage that was initialised.
LEMMA LoadStep == ASSUME MenuInv, LoadSettings
    PROVE  storage' = storage /\ storage' \in Values /\ copy' \in Values /\ ready'
BY AllNoType DEF LoadSettings, MenuInv, StorageInv, TypeOK

LEMMA ChangeStep == ASSUME NEW v \in {0, 1}, TypeOK, Change(v)
    PROVE  /\ storage' \in Values
           /\ \A s \in Settings : s # list => storage'[s] = storage[s]
BY DEF Change, TypeOK, Values

LEMMA ChooseStep == ASSUME NEW idx \in 0..4, MenuInv, Choose(idx)
    PROVE  MenuInv' /\ storage' = storage
<1>1. item' \in Settings \cup {0}
  BY DEF Choose, Items, Settings
<1>2. screen # "off" /\ UNCHANGED <<storage, ready, copy>>
  BY DEF Choose
<1>3. CASE \E s \in Settings : OpenList(s)
  <2>1. PICK s \in Settings : OpenList(s)
    BY <1>3
  <2> QED
    BY <1>1, <1>2, <2>1, OpenListStep
    DEF MenuInv, TypeOK, StorageInv, CursorShowsStored
<1>4. CASE Show("idle")
  BY <1>1, <1>2, <1>4 DEF Show, MenuInv, TypeOK, StorageInv, CursorShowsStored
<1> QED BY <1>3, <1>4 DEF Choose, Settings

LEMMA MenuStep == ASSUME MenuInv, [Next]_vars
    PROVE  /\ MenuInv'
           /\ \A s \in Settings : storage'[s] # storage[s] => (screen = "list" /\ list = s)
<1> USE DEF MenuInv, TypeOK, StorageInv, CursorShowsStored
<1>1. CASE Launch \/ IoReset
  <2>1. LoadSettings /\ Show("idle") /\ UNCHANGED item
    BY <1>1 DEF Launch, IoReset
  <2>2. storage' = storage /\ storage' \in Values /\ copy' \in Values /\ ready'
    BY <2>1, LoadStep
  <2> QED BY <2>1, <2>2 DEF Show
<1>2. CASE PowerOff
  BY <1>2, AllNoType DEF PowerOff, Show
<1>3. CASE PromptUser \/ EndPrompt \/ OpenMenu
  BY <1>3 DEF PromptUser, EndPrompt, OpenMenu, Show
<1>4. ASSUME NEW idx \in 0..4, Choose(idx) PROVE MenuInv' /\ storage' = storage
  BY <1>4, ChooseStep
<1>5. ASSUME NEW v \in {0, 1}, Change(v)
      PROVE  /\ MenuInv'
             /\ \A s \in Settings : storage'[s] # storage[s] => (screen = "list" /\ list = s)
  BY <1>5, ChangeStep DEF Change, Show
<1>6. CASE Back
  BY <1>6 DEF Back, Show
<1>7. CASE UNCHANGED vars
  BY <1>7 DEF vars
<1> QED BY <1>1, <1>2, <1>3, <1>4, <1>5, <1>6, <1>7 DEF Next

\* Every reachable state is well typed, and the highlighted line of a list is
\* the value that is stored.
THEOREM MenuSafety == Spec => [](TypeOK /\ CursorShowsStored)
<1>1. MenuInv => TypeOK /\ CursorShowsStored
  BY DEF MenuInv
<1> QED BY <1>1, InitMenu, MenuStep, PTL DEF Spec

\* The menu keeps its types: no index it is called with leaves a list or a
\* setting that does not exist on the screen.
THEOREM TypeCorrect == Spec => []TypeOK
<1>1. MenuInv => TypeOK
  BY DEF MenuInv
<1> QED BY <1>1, InitMenu, MenuStep, PTL DEF Spec

\* No restart, reset, power cut or prompt changes a stored flag, and no list
\* that of another.
THEOREM OnlyByChoice == Spec => ChangesByChoice
<1>1. MenuInv /\ [Next]_vars
        => [ \A s \in Settings : storage'[s] # storage[s] => (screen = "list" /\ list = s) ]_vars
  BY MenuStep
<1> QED BY <1>1, InitMenu, MenuStep, PTL DEF Spec, ChangesByChoice
=============================================================================
