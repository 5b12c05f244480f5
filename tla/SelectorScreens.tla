--------------------------- MODULE SelectorScreens ---------------------------
(***************************************************************************)
(* The screens of the firmware's main.cpp: which one is shown, what the    *)
(* jog switch does on it, and the error message of the main screen with    *)
(* its two seconds.  millis() wraps; only its difference to error_until_ms *)
(* is ever used, so that difference is kept, with the same width.  What    *)
(* the candidates are is left to the device state.                         *)
(***************************************************************************)
EXTENDS Integers, Sequences

CONSTANTS
  ClockRange,  \* 2^32 milliseconds, in loops
  ErrorTime    \* 2000 ms, in loops

ASSUME ScreensAssumption ==
  ClockRange \in Nat /\ ErrorTime \in Nat \ {0} /\ 2 * ErrorTime < ClockRange

VARIABLES
  screen_mode, settings_index, restart_selected,
  connection_status,
  error_message,
  overdue,   \* now_ms - error_until_ms, unsigned
  shownFor   \* loops the error has been on the main screen, or -1

screenVars == <<screen_mode, settings_index, restart_selected,
                connection_status, error_message, overdue, shownFor>>

ScreensInit ==
  /\ screen_mode = "main" /\ settings_index = 0 /\ restart_selected = FALSE
  /\ connection_status = "disconnected" /\ error_message = "none"
  /\ overdue = 0 /\ shownFor = -1

-----------------------------------------------------------------------------

Until(time) == (ClockRange - time) % ClockRange

ShowError(message) ==
  /\ connection_status' = "error"
  /\ error_message' = message
  /\ overdue' = Until(ErrorTime)
  /\ shownFor' = 0

ErrorUnchanged == UNCHANGED <<connection_status, error_message, overdue, shownFor>>

\* Leaving the main screen: nothing is promised of its error any more.
Show(screen) ==
  /\ screen_mode' = screen
  /\ shownFor' = IF screen = "main" THEN shownFor ELSE -1
  /\ UNCHANGED <<connection_status, error_message, overdue>>

\* handleMainJogEvent, where UP, DOWN, LEFT, RIGHT and a request concern the
\* device state only.
MainJog(event) ==
  /\ screen_mode = "main"
  /\ \/ /\ event = "center" /\ connection_status = "disconnected"
        /\ ShowError("PC NOT CONNECTED")
        /\ UNCHANGED <<screen_mode, settings_index, restart_selected>>
     \/ /\ event = "center long"
        /\ Show("settings")
        /\ settings_index' = 0
        /\ UNCHANGED restart_selected

Items == <<"reconnect", "restart", "bluetooth", "firmware", "back">>
Item == Items[settings_index + 1]

\* handleSettingsJogEvent, but for the item that reconnects.  The index is
\* forgotten with the screen: the next long press sets it anyway.
SettingsJog(event) ==
  /\ screen_mode = "settings"
  /\ \/ /\ event \in {"up", "down"}
        /\ settings_index' =
             (settings_index + (IF event = "up" THEN 4 ELSE 1)) % Len(Items)
        /\ UNCHANGED <<screen_mode, restart_selected>>
        /\ ErrorUnchanged
     \/ /\ event = "left" \/ (event = "center" /\ Item = "back")
        /\ Show("main")
        /\ settings_index' = 0
        /\ UNCHANGED restart_selected
     \/ /\ event = "center" /\ Item \in {"restart", "bluetooth", "firmware"}
        /\ Show(Item)
        /\ restart_selected' = (restart_selected /\ Item # "restart")
        /\ UNCHANGED settings_index

\* handleRestartJogEvent, but for the restart.
RestartJog(event) ==
  /\ screen_mode = "restart"
  /\ \/ /\ event \in {"up", "left", "down", "right"}
        /\ restart_selected' = (event \in {"down", "right"})
        /\ UNCHANGED <<screen_mode, settings_index>>
        /\ ErrorUnchanged
     \/ /\ event = "center" /\ ~restart_selected
        /\ Show("settings")
        /\ UNCHANGED <<settings_index, restart_selected>>

\* handleInfoJogEvent
InfoJog(event) ==
  /\ screen_mode \in {"bluetooth", "firmware"}
  /\ event \in {"left", "center"}
  /\ Show("settings")
  /\ UNCHANGED <<settings_index, restart_selected>>

\* Mutant: the message decides, which a connection may have made obsolete.
ExpiredByMessage ==
  screen_mode = "main" /\ error_message # "none" /\ overdue < ClockRange \div 2

\* The comparison is signed: not negative is the lower half of the range.
Expired ==
  screen_mode = "main" /\ connection_status = "error"
    /\ overdue < ClockRange \div 2

\* The end of loop(): the error goes, time goes on.
EndOfLoop ==
  /\ overdue' = IF error_message = "none" THEN 0 ELSE (overdue + 1) % ClockRange
  /\ IF Expired
     THEN /\ connection_status' = "disconnected"
          /\ error_message' = "none"
          /\ shownFor' = -1
     ELSE /\ UNCHANGED <<connection_status, error_message>>
          /\ shownFor' = IF shownFor >= 0 /\ shownFor <= ErrorTime
                           THEN shownFor + 1 ELSE shownFor
  /\ UNCHANGED <<screen_mode, settings_index, restart_selected>>

=============================================================================
