------------------------------ MODULE JogSwitch ------------------------------
(***************************************************************************)
(* The five-position switch of the selector                                *)
(* (firmware/src/input/jog_switch.cpp): each loop iteration reads the      *)
(* pressed buttons, and at most one event comes out of it.  Buttons bounce *)
(* and are pressed together or rolled over in any order.                   *)
(*                                                                         *)
(* Time is counted in ticks and wraps, as millis() does at 2^32.           *)
(***************************************************************************)
EXTENDS Integers, FiniteSets

CONSTANTS
  Directions,    \* up, down, left and right
  DebounceTicks, \* kDebounceMs
  LongTicks,     \* kLongPressMs
  MaxStep,       \* the longest time between two calls of update()
  MaxBounce,     \* the longest time in which no two reads in a row agree
  Wrap           \* the clock counts modulo Wrap

ASSUME JogAssumption ==
  /\ Directions # {}
  /\ {"center", "none", "CENTER_SHORT", "CENTER_LONG"} \cap Directions = {}
  /\ DebounceTicks \in Nat \ {0}
  /\ LongTicks \in Nat \ {0}
  /\ MaxStep \in Nat \ {0}
  /\ MaxBounce \in Nat
  /\ Wrap \in Nat /\ Wrap > LongTicks + DebounceTicks + MaxBounce + MaxStep

Buttons == Directions \cup {"center"}
Center == {"center"}
Events == Directions \cup {"none", "CENTER_SHORT", "CENTER_LONG"}

VARIABLES
  raw,          \* the buttons read last
  now,
  candidate,    \* candidate_mask_
  stable,       \* stable_mask_
  since,        \* candidate_since_ms_
  pressedAt,    \* center_pressed_at_ms_
  chordLocked,
  longSent,     \* center_long_sent_
  event         \* what the last update() returned

switchVars == <<raw, now, candidate, stable, since, pressedAt, chordLocked,
                longSent, event>>

VARIABLES \* history, read by the properties only
  touched, \* the buttons confirmed since all of them were last released
  sent,    \* the number of events since then
  age,     \* time since CENTER was confirmed, counted up to LongTicks
  steady,  \* age at the last read that agreed with the read before
  bounce   \* time since then

historyVars == <<touched, sent, age, steady, bounce>>
jogVars == <<switchVars, historyVars>>

\* What was pressed before begin() is not known: it may have been anything.
JogInit ==
  /\ raw \in SUBSET Buttons
  /\ now \in 0..(Wrap - 1)
  /\ candidate = raw /\ stable = raw
  /\ since = now /\ pressedAt = 0
  /\ chordLocked = (stable # {})
  /\ longSent = FALSE
  /\ event = "none"
  /\ touched = IF stable = {} THEN {} ELSE Buttons
  /\ sent = 0 /\ age = 0 /\ steady = 0 /\ bounce = 0

-----------------------------------------------------------------------------
(* update().  Its branches are exclusive: each is an action.               *)

\* Mutant: the clock is compared with a deadline that may have wrapped.
PassedDeadline(t, start, limit) == t >= (start + limit) % Wrap

HasPassed(t, start, limit) == (t - start) % Wrap >= limit

\* The buttons read are not those of the last iteration.
Changed ==
  /\ raw' # candidate
  /\ candidate' = raw'
  /\ since' = now'
  /\ event' = "none"
  /\ UNCHANGED <<stable, pressedAt, chordLocked, longSent>>

Debounced ==
  /\ raw' = candidate /\ candidate # stable
  /\ HasPassed(now', since, DebounceTicks)
  /\ stable' = candidate
  /\ UNCHANGED <<candidate, since>>

\* Mutant: only buttons pressed together are a chord.
ChordOfMany(mask, previous) == Cardinality(mask) > 1

\* Several buttons at once, or one after another without a release between.
Chord(mask, previous) ==
  Cardinality(mask) > 1 \/ (previous # {} /\ mask # {})

ConfirmChord ==
  /\ Debounced /\ Chord(candidate, stable)
  /\ chordLocked' = TRUE
  /\ longSent' = FALSE
  /\ event' = "none"
  /\ UNCHANGED pressedAt

\* Mutant: the release of a chord does not end the lock.
StillLocked(mask) == TRUE

LockedBy(mask) == mask # {}

ConfirmLocked ==
  /\ Debounced /\ ~Chord(candidate, stable) /\ chordLocked
  /\ chordLocked' = LockedBy(candidate)
  /\ event' = "none"
  /\ UNCHANGED <<pressedAt, longSent>>

Confirm == Debounced /\ ~Chord(candidate, stable) /\ ~chordLocked

ConfirmCenter ==
  /\ Confirm /\ candidate = Center
  /\ pressedAt' = now'
  /\ longSent' = FALSE
  /\ event' = "none"
  /\ UNCHANGED chordLocked

\* Mutant: a long press is followed by a short one.
ReleaseEventAlways(previous, long) ==
  IF previous = Center THEN "CENTER_SHORT" ELSE "none"

ReleaseEvent(previous, long) ==
  IF previous = Center /\ ~long THEN "CENTER_SHORT" ELSE "none"

ConfirmRelease ==
  /\ Confirm /\ candidate = {}
  /\ event' = ReleaseEvent(stable, longSent)
  /\ UNCHANGED <<pressedAt, chordLocked, longSent>>

ConfirmDirection ==
  /\ Confirm
  /\ \E d \in Directions : candidate = {d} /\ event' = d
  /\ UNCHANGED <<pressedAt, chordLocked, longSent>>

CanTurnLong ==
  /\ ~chordLocked /\ stable = Center /\ ~longSent
  /\ HasPassed(now', pressedAt, LongTicks)

\* Nothing is confirmed in this iteration; CENTER may have become long.
Unconfirmed ==
  /\ raw' = candidate
  /\ candidate = stable \/ ~HasPassed(now', since, DebounceTicks)
  /\ IF CanTurnLong
     THEN longSent' = TRUE /\ event' = "CENTER_LONG"
     ELSE event' = "none" /\ UNCHANGED longSent
  /\ UNCHANGED <<candidate, stable, since, pressedAt, chordLocked>>

-----------------------------------------------------------------------------
Capped(n) == IF n < LongTicks THEN n ELSE LongTicks

\* Every call of update() leaves its trace.
Record(dt) ==
  /\ touched' = IF stable' = {} THEN {} ELSE touched \cup stable'
  /\ sent' = IF stable' = {} /\ stable = {} THEN 0
             ELSE sent + (IF event' = "none" THEN 0 ELSE 1)
  /\ age' = IF stable = Center /\ stable' = Center THEN Capped(age + dt) ELSE 0
  /\ steady' = IF raw' = candidate \/ age' = 0 THEN age' ELSE steady
  /\ bounce' = IF raw' = candidate THEN 0 ELSE bounce + dt
  /\ bounce' <= MaxBounce

Clock(t) == t % Wrap

Update(dt) ==
  /\ now' = Clock(now + dt)
  /\ raw' \in SUBSET Buttons
  /\ \/ Changed \/ ConfirmChord \/ ConfirmLocked \/ ConfirmCenter
     \/ ConfirmRelease \/ ConfirmDirection \/ Unconfirmed
  /\ Record(dt)

Next == \E dt \in 1..MaxStep : Update(dt)

\* loop() never stops.
Spec == JogInit /\ [][Next]_jogVars /\ WF_jogVars(Next)

-----------------------------------------------------------------------------
\* Types.
TypeOK ==
  /\ raw \in SUBSET Buttons /\ candidate \in SUBSET Buttons
  /\ stable \in SUBSET Buttons
  /\ now \in 0..(Wrap - 1) /\ since \in 0..(Wrap - 1)
  /\ pressedAt \in 0..(Wrap - 1)
  /\ chordLocked \in BOOLEAN /\ longSent \in BOOLEAN
  /\ event \in Events
  /\ touched \in SUBSET Buttons
  /\ sent \in Nat /\ age \in 0..LongTicks /\ steady \in 0..LongTicks
  /\ bounce \in 0..MaxBounce

\* From one moment at which all buttons are released to the next, at most one
\* event is reported, whatever was pressed, held, rolled over or bounced.
OneEventPerGesture == sent <= 1

\* The event of a button.
EventOf(e, button) ==
  IF button = "center" THEN e \in {"CENTER_SHORT", "CENTER_LONG"} ELSE e = button

\* An event is only reported for a button that was pressed on its own, from
\* rest and after begin(): chords, roll-overs and buttons held at the start
\* are silent until everything was released.
OnlySingleButtonsSpeak ==
  [][event' # "none" =>
       \E b \in Buttons : touched \cup touched' = {b} /\ EventOf(event', b)]_jogVars

\* The time CENTER was held decides between short and long: a long press is
\* reported only when the time has passed since the press was confirmed, a short
\* one only if no two reads in a row agreed from then until the release.
HoldTimeDecides ==
  [][/\ event' = "CENTER_LONG" => age' = LongTicks
     /\ event' = "CENTER_SHORT" => steady < LongTicks]_jogVars

\* Once all buttons stay released, the switch leaves every lock and is ready.
LockEnds == <>[](raw = {}) => <>[](stable = {} /\ ~chordLocked)
=============================================================================
