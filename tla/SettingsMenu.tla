---------------------------- MODULE SettingsMenu ----------------------------
(***************************************************************************)
(* The settings of the device application: four flags in non-volatile      *)
(* memory (N_storage), their copies in RAM, and the menus through which    *)
(* the user changes them (src/src/menu.c, nv_app_state_init of main.c),    *)
(* with the power cuts, resets and prompts that interrupt the menus.       *)
(* Operators named X_Y are faulty variants of X, which no action uses.     *)
(***************************************************************************)
EXTENDS Naturals

Settings == 1..4

\* The items of settings_submenu_getter_values, in their order on the screen,
\* the first four named by the setting whose list they are for; 0 is "Back".
Items == <<1, 2, 3, 4, 0>>

VARIABLES
    storage,    \* N_storage: setting_1 .. setting_4
    ready,      \* N_storage.initialized = 0x01
    copy,       \* setting_1 .. setting_4 in RAM
    screen,     \* "off", "idle", "menu", "list" or "prompt"
    list,       \* the setting whose list is displayed, 0 without one
    cursor,     \* the line that is highlighted in it: 0 "No", 1 "Yes"
    item        \* the item of the menu the user chose last

vars == <<storage, ready, copy, screen, list, cursor, item>>

Values == [Settings -> {0, 1}]

TypeOK ==
    /\ storage \in Values /\ copy \in Values /\ ready \in BOOLEAN
    /\ screen \in {"off", "idle", "menu", "list", "prompt"}
    /\ list \in Settings \cup {0} /\ cursor \in {0, 1}
    /\ item \in Settings \cup {0}
    /\ screen = "list" <=> list # 0

AllNo == [s \in Settings |-> 0]

\* The application is installed: its storage is cleared.
Init ==
    /\ storage = AllNo /\ ready = FALSE /\ copy = AllNo
    /\ screen = "off" /\ list = 0 /\ cursor = 0 /\ item = 0

\* fault: the list stays open under the next screen
Show_KeepList(s) == screen' = s /\ UNCHANGED <<list, cursor>>

Show(s) == screen' = s /\ list' = 0 /\ cursor' = 0

\* fault: the storage is initialised at every start
LoadSettings_Always ==
    storage' = AllNo /\ ready' = TRUE /\ copy' = storage'

\* nv_app_state_init. Power can fail before its one write of the storage.
LoadSettings ==
    /\ storage' = IF ready THEN storage ELSE AllNo
    /\ ready' = TRUE
    /\ copy' = storage'

Launch == screen = "off" /\ LoadSettings /\ Show("idle") /\ UNCHANGED item

IoReset == screen # "off" /\ LoadSettings /\ Show("idle") /\ UNCHANGED item

PowerOff ==
    /\ screen # "off"
    /\ Show("off")
    /\ copy' = AllNo /\ item' = 0
    /\ UNCHANGED <<storage, ready>>

\* A command puts its prompt in place of whatever is on the screen, and the
\* end of the prompt goes to the idle screen.
PromptUser ==
    /\ screen # "off"
    /\ Show("prompt")
    /\ UNCHANGED <<storage, ready, copy, item>>

EndPrompt == screen = "prompt" /\ Show("idle") /\ UNCHANGED <<storage, ready, copy, item>>

OpenMenu == screen = "idle" /\ Show("menu") /\ UNCHANGED <<storage, ready, copy, item>>

\* fault: the RAM copy is highlighted
OpenList_Copy(s) == screen' = "list" /\ list' = s /\ cursor' = copy[s]

\* ux_menulist_init_select: the list of a setting, its stored value highlighted.
OpenList(s) == screen' = "list" /\ list' = s /\ cursor' = storage[s]

\* settings_submenu_selector. Case 2 has no break: it shows the list of
\* setting 3 and goes on to case 3, which shows that of setting 4.
Choose(idx) ==
    /\ screen = "menu"
    /\ item' = Items[idx + 1]
    /\ \/ idx \in {0, 1} /\ OpenList(idx + 1)
       \/ idx \in {2, 3} /\ OpenList(4)
       \/ idx = 4 /\ Show("idle")
    /\ UNCHANGED <<storage, ready, copy>>

\* setting_N_data_selector with "No" or "Yes", and setting_N_data_change.
Change(v) ==
    /\ screen = "list"
    /\ storage' = [storage EXCEPT ![list] = v]
    /\ Show("idle")
    /\ UNCHANGED <<ready, copy, item>>

\* setting_N_data_selector with "Back".
Back == screen = "list" /\ Show("menu") /\ UNCHANGED <<storage, ready, copy, item>>

Next ==
    \/ Launch \/ IoReset \/ PowerOff \/ PromptUser \/ EndPrompt \/ OpenMenu
    \/ \E idx \in 0..4 : Choose(idx)
    \/ \E v \in {0, 1} : Change(v)
    \/ Back

Spec == Init /\ [][Next]_vars

-----------------------------------------------------------------------------
\* A stored setting changes only by a choice in the list on the screen, and
\* then it alone: no restart, reset, power cut or prompt sets it back, and no
\* list writes the flag of another.
ChangesByChoice ==
    [][ \A s \in Settings : storage'[s] # storage[s] => (screen = "list" /\ list = s) ]_vars

\* The highlighted line of a list is the stored value, whatever the RAM copy is.
CursorShowsStored == screen = "list" => cursor = storage[list]

\* "Switch Account", "New Account", "Delete Account" and "Reset all" each open
\* their own list: an item opens the list the menu names it for.
ItemOpensItsList == screen = "list" => list = item
=============================================================================
