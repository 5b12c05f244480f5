--------------------------- MODULE JogSwitchProofs ---------------------------
(***************************************************************************)
(* For any set of directions and any durations, every gesture of the jog   *)
(* switch gives at most one event, only a button pressed alone from rest   *)
(* gives one, and the time it was held decides which.                      *)
(***************************************************************************)
EXTENDS JogSwitch, FiniteSetTheorems, TLAPS

\* What the switch has reported when it is at rest, and what it is about to
\* report: nothing is left over when a new press may be confirmed.
AtRest ==
  stable = {} =>
    /\ ~chordLocked /\ touched = {} /\ sent \in {0, 1}
    /\ candidate # {} => sent = 0

\* A press that is not locked is a single button, and its event is counted: the
\* one of a direction at once, the one of CENTER when the press turned long.
Unlocked ==
  stable # {} /\ ~chordLocked =>
    /\ touched = stable
    /\ \E b \in Buttons : stable = {b}
    /\ stable # Center => sent = 1
    /\ stable = Center => sent = IF longSent THEN 1 ELSE 0

\* A locked press keeps the one event that may have come before the lock.
Locked == chordLocked => sent \in {0, 1}

JogTypes ==
  /\ candidate \in SUBSET Buttons /\ stable \in SUBSET Buttons
  /\ chordLocked \in BOOLEAN /\ longSent \in BOOLEAN
  /\ touched \in SUBSET Buttons
  /\ sent \in Nat

\* The inductive invariant.
JogInv == JogTypes /\ AtRest /\ Unlocked /\ Locked

LEMMA JogInitially == JogInit => JogInv
<1> SUFFICES ASSUME JogInit PROVE JogInv
  OBVIOUS
<1>1. JogTypes
  BY DEF JogInit, JogTypes
<1>2. AtRest /\ Unlocked /\ Locked
  <2>1. CASE stable = {}
    BY <2>1 DEF JogInit, AtRest, Unlocked, Locked
  <2>2. CASE stable # {}
    BY <2>2 DEF JogInit, AtRest, Unlocked, Locked
  <2>3. QED
    BY <2>1, <2>2
<1>3. QED
  BY <1>1, <1>2 DEF JogInv

\* What each outcome of update() does to the counted events.
LEMMA JogStep == JogInv /\ [Next]_jogVars => JogInv'
<1> SUFFICES ASSUME JogInv, [Next]_jogVars PROVE JogInv'
  OBVIOUS
<1>1. CASE UNCHANGED jogVars
  BY <1>1
  DEF jogVars, switchVars, historyVars, JogInv, JogTypes, AtRest, Unlocked, Locked
<1>2. ASSUME NEW dt \in 1..MaxStep, Update(dt) PROVE JogInv'
  <2> USE DEF JogInv, JogTypes, AtRest, Unlocked, Locked
  <2>1. /\ raw' \in SUBSET Buttons
        /\ touched' = IF stable' = {} THEN {} ELSE touched \cup stable'
        /\ sent' = IF stable' = {} /\ stable = {} THEN 0
                   ELSE sent + (IF event' = "none" THEN 0 ELSE 1)
    BY <1>2 DEF Update, Record
  <2>2. CASE Changed
    <3>1. /\ candidate' = raw' /\ event' = "none" /\ stable' = stable
          /\ chordLocked' = chordLocked /\ longSent' = longSent
      BY <2>2 DEF Changed
    <3>2. CASE stable = {}
      BY <2>1, <3>1, <3>2
    <3>3. CASE stable # {}
      <4>1. sent' = sent /\ touched' = touched \cup stable
        BY <2>1, <3>1, <3>3
      <4>2. QED
        BY <2>1, <3>1, <3>3, <4>1
    <3>4. QED
      BY <3>2, <3>3
  <2>3. CASE ConfirmChord
    <3>1. /\ candidate' = candidate /\ event' = "none" /\ stable' = candidate
          /\ chordLocked' = TRUE /\ longSent' = FALSE
      BY <2>3 DEF ConfirmChord, Debounced
    <3>2. stable' # {}
      <4>1. Cardinality({}) = 0
        BY FS_EmptySet
      <4>2. QED
        BY <2>3, <3>1, <4>1 DEF ConfirmChord, Chord
    <3>3. sent \in {0, 1}
      BY DEF Center
    <3>4. sent' = sent /\ touched' \in SUBSET Buttons
      BY <2>1, <3>1, <3>2
    <3>5. QED
      BY <3>1, <3>2, <3>3, <3>4
  <2>4. CASE ConfirmLocked
    <3>1. /\ candidate' = candidate /\ event' = "none" /\ stable' = candidate
          /\ chordLocked' = (candidate # {}) /\ longSent' = longSent
          /\ chordLocked /\ stable # {}
      BY <2>4 DEF ConfirmLocked, Debounced, LockedBy
    <3>2. /\ sent' = sent /\ sent \in {0, 1} /\ touched' \in SUBSET Buttons
          /\ stable' = {} => touched' = {}
      BY <2>1, <3>1
    <3>3. QED
      BY <3>1, <3>2
  <2>5. CASE ConfirmCenter
    <3>1. /\ stable = {} /\ stable' = Center /\ candidate' = Center
          /\ chordLocked' = FALSE /\ longSent' = FALSE /\ event' = "none"
          /\ candidate = Center
      BY <2>5 DEF ConfirmCenter, Confirm, Debounced, Chord, Center
    <3>2. touched = {} /\ sent = 0 /\ Center # {}
      BY <3>1 DEF Center
    <3>3. touched' = Center /\ sent' = 0
      BY <2>1, <3>1, <3>2
    <3>4. QED
      BY <3>1, <3>2, <3>3 DEF Center, Buttons
  <2>6. CASE ConfirmRelease
    <3>1. /\ stable # {} /\ stable' = {} /\ candidate' = {} /\ ~chordLocked
          /\ chordLocked' = chordLocked /\ longSent' = longSent
          /\ event' = ReleaseEvent(stable, longSent)
      BY <2>6 DEF ConfirmRelease, Confirm, Debounced
    <3>2. touched' = {} /\ sent' \in {0, 1}
      BY <2>1, <3>1 DEF ReleaseEvent
    <3>3. QED
      BY <3>1, <3>2
  <2>7. CASE ConfirmDirection
    <3>1. PICK d \in Directions : candidate = {d} /\ event' = d
      BY <2>7 DEF ConfirmDirection
    <3>2. /\ stable = {} /\ stable' = {d} /\ candidate' = {d}
          /\ chordLocked' = FALSE /\ longSent' = longSent
      BY <2>7, <3>1 DEF ConfirmDirection, Confirm, Debounced, Chord
    <3>3. d # "none" /\ d # "center" /\ d \in Buttons
      BY JogAssumption DEF Buttons
    <3>4. touched' = {d} /\ sent' = 1
      BY <2>1, <3>1, <3>2, <3>3
    <3>5. QED
      BY <3>2, <3>3, <3>4 DEF Center
  <2>8. CASE Unconfirmed
    <3>1. UNCHANGED <<candidate, stable, chordLocked>>
      BY <2>8 DEF Unconfirmed
    <3>2. CASE CanTurnLong
      BY <2>1, <2>8, <3>1, <3>2 DEF Unconfirmed, CanTurnLong, Center
    <3>3. CASE ~CanTurnLong
      BY <2>1, <2>8, <3>1, <3>3 DEF Unconfirmed
    <3>4. QED
      BY <3>2, <3>3
  <2>9. QED
    BY <1>2, <2>2, <2>3, <2>4, <2>5, <2>6, <2>7, <2>8 DEF Update
<1>3. QED
  BY <1>1, <1>2 DEF Next

LEMMA JogInvariance == Spec => []JogInv
  BY JogInitially, JogStep, PTL DEF Spec

\* At most one event from one full release to the next
\* (PROJECT.md, input detection; JogSwitch::update).
THEOREM OneEvent == Spec => []OneEventPerGesture
<1>1. JogInv => OneEventPerGesture
  BY DEF JogInv, JogTypes, AtRest, Unlocked, Locked, OneEventPerGesture
<1>2. QED
  BY <1>1, JogInvariance, PTL

\* Chords, roll-overs and buttons held since the start report nothing.
THEOREM SingleButtons == Spec => OnlySingleButtonsSpeak
<1> DEFINE Speaks ==
      event' # "none" =>
        \E b \in Buttons : touched \cup touched' = {b} /\ EventOf(event', b)
<1>1. JogInv /\ [Next]_jogVars => [Speaks]_jogVars
  <2> SUFFICES ASSUME JogInv, NEW dt \in 1..MaxStep, Update(dt), event' # "none"
               PROVE Speaks
    BY DEF Next
  <2> USE DEF JogInv, JogTypes, AtRest, Unlocked, EventOf
  <2>1. touched' = IF stable' = {} THEN {} ELSE touched \cup stable'
    BY DEF Update, Record
  <2>2. CASE ConfirmRelease
    BY <2>1, <2>2 DEF ConfirmRelease, Confirm, Debounced, ReleaseEvent, Center,
                      Buttons
  <2>3. CASE ConfirmDirection
    BY <2>1, <2>3, JogAssumption
    DEF ConfirmDirection, Confirm, Debounced, Chord, Buttons
  <2>4. CASE Unconfirmed
    BY <2>1, <2>4 DEF Unconfirmed, CanTurnLong, Center, Buttons
  <2>5. QED
    BY <2>2, <2>3, <2>4
    DEF Update, Changed, ConfirmChord, ConfirmLocked, ConfirmCenter
<1>2. QED
  BY <1>1, JogInvariance, PTL DEF Spec, OnlySingleButtonsSpeak

-----------------------------------------------------------------------------
(* How long CENTER was held, on a clock that wraps.                        *)

Held == (now - pressedAt) % Wrap

\* A press that is neither locked nor long yet was not long at the last read
\* that agreed with the one before; it cannot have lasted a turn of the clock.
HoldInv ==
  /\ now \in 0..Wrap - 1 /\ pressedAt \in 0..Wrap - 1
  /\ bounce \in 0..MaxBounce
  /\ (stable = Center /\ ~chordLocked /\ ~longSent) =>
       /\ Held \in Nat /\ Held < LongTicks + bounce
       /\ age = Capped(Held)
       /\ steady < LongTicks

LEMMA ClockTurns ==
  ASSUME NEW W \in Nat, NEW n \in 0..W - 1, NEW p \in 0..W - 1, NEW d \in Nat,
         ((n - p) % W) + d < W
  PROVE  /\ (n - p) % W \in Nat
         /\ ((n + d) % W) \in 0..W - 1
         /\ (((n + d) % W) - p) % W = ((n - p) % W) + d
<1>1. (n - p) % W = IF n >= p THEN n - p ELSE n - p + W
  OBVIOUS
<1>2. d < W /\ n + d < 2 * W /\ n + d >= 0
  BY <1>1
<1>3. (n + d) % W = IF n + d < W THEN n + d ELSE n + d - W
  BY <1>2
<1>4. \A m \in 0..W - 1 : (m - p) % W = IF m >= p THEN m - p ELSE m - p + W
  OBVIOUS
<1>. QED
  BY <1>1, <1>2, <1>3, <1>4

\* While a press stays as it is, the time it was held is counted, and the two
\* ways to count it agree.
LEMMA HeldOn ==
  ASSUME HoldInv, NEW dt \in 1..MaxStep, now' = Clock(now + dt), Record(dt),
         stable = Center, ~chordLocked, ~longSent, UNCHANGED <<stable, pressedAt>>
  PROVE  /\ Held' = Held + dt /\ Held \in Nat
         /\ age' = Capped(Held + dt)
         /\ now' \in 0..Wrap - 1
<1>1. /\ Wrap \in Nat /\ LongTicks \in Nat \ {0} /\ MaxStep \in Nat /\ MaxBounce \in Nat
      /\ DebounceTicks \in Nat
      /\ Wrap > LongTicks + DebounceTicks + MaxBounce + MaxStep
  BY JogAssumption
<1>2. /\ Held \in Nat /\ Held < LongTicks + bounce /\ bounce \in 0..MaxBounce
      /\ age = Capped(Held) /\ now \in 0..Wrap - 1 /\ pressedAt \in 0..Wrap - 1
  BY DEF HoldInv
<1>3. Held + dt < Wrap
  BY <1>1, <1>2
<1>4. /\ Held' = Held + dt /\ now' \in 0..Wrap - 1
  <2>1. ((now - pressedAt) % Wrap) + dt < Wrap /\ dt \in Nat
    BY <1>1, <1>3 DEF Held
  <2>2. /\ (now + dt) % Wrap \in 0..Wrap - 1
        /\ (((now + dt) % Wrap) - pressedAt) % Wrap = ((now - pressedAt) % Wrap) + dt
    <3>1. now \in 0..Wrap - 1 /\ pressedAt \in 0..Wrap - 1 /\ Wrap \in Nat
      BY <1>1, <1>2
    <3>. QED
      BY <2>1, <3>1, ClockTurns
  <2>. QED
    BY <2>2 DEF Held, Clock
<1>5. age' = Capped(age + dt)
  BY DEF Record
<1>6. Capped(Capped(Held) + dt) = Capped(Held + dt)
  BY <1>1, <1>2 DEF Capped
<1>. QED
  BY <1>2, <1>4, <1>5, <1>6

LEMMA HoldInitially == JogInit => HoldInv
<1> SUFFICES ASSUME JogInit PROVE HoldInv
  OBVIOUS
<1>1. 0 \in 0..Wrap - 1 /\ 0 \in 0..MaxBounce
  BY JogAssumption
<1>2. ~(stable = Center /\ ~chordLocked)
  BY DEF JogInit, Center
<1>. QED
  BY <1>1, <1>2 DEF JogInit, HoldInv

LEMMA HoldStep ==
  ASSUME HoldInv, [Next]_jogVars
  PROVE  /\ HoldInv'
         /\ [/\ event' = "CENTER_LONG" => age' = LongTicks
             /\ event' = "CENTER_SHORT" => steady < LongTicks]_jogVars
<1> DEFINE Decided == /\ event' = "CENTER_LONG" => age' = LongTicks
                      /\ event' = "CENTER_SHORT" => steady < LongTicks
           Short == stable = Center /\ ~chordLocked /\ ~longSent
<1>1. CASE UNCHANGED jogVars
  BY <1>1 DEF jogVars, switchVars, historyVars, HoldInv, Held
<1>2. ASSUME NEW dt \in 1..MaxStep, Update(dt)
      PROVE  HoldInv' /\ Decided
  <2>1. /\ LongTicks \in Nat \ {0} /\ Wrap \in Nat /\ MaxBounce \in Nat /\ Wrap > 0
        /\ dt \in Nat \ {0} /\ MaxStep \in Nat
    BY JogAssumption
  <2>2. /\ now' = Clock(now + dt) /\ Record(dt)
        /\ now \in 0..Wrap - 1 /\ pressedAt \in 0..Wrap - 1 /\ bounce \in 0..MaxBounce
    BY <1>2 DEF Update, HoldInv
  <2>3. now' \in 0..Wrap - 1
    BY <2>1, <2>2 DEF Clock
  <2>4. bounce' \in 0..MaxBounce /\ bounce' = IF raw' = candidate THEN 0 ELSE bounce + dt
    BY <2>1, <2>2 DEF Record
  <2>5. CASE Changed
    <3>1. /\ UNCHANGED <<stable, pressedAt, chordLocked, longSent>>
          /\ event' = "none" /\ raw' # candidate
      BY <2>5 DEF Changed
    <3>2. ASSUME Short'
          PROVE  /\ Held' \in Nat /\ Held' < LongTicks + bounce'
                 /\ age' = Capped(Held') /\ steady' < LongTicks
      <4>1. Short
        BY <3>1, <3>2
      <4>2. /\ Held' = Held + dt /\ Held \in Nat /\ age' = Capped(Held')
        BY <2>2, <3>1, <4>1, HeldOn
      <4>3. Held < LongTicks + bounce /\ steady < LongTicks
        BY <4>1 DEF HoldInv
      <4>4. steady' = IF age' = 0 THEN 0 ELSE steady
        BY <2>2, <3>1 DEF Record
      <4>. QED
        BY <2>1, <2>2, <2>4, <3>1, <4>2, <4>3, <4>4
    <3>. QED
      BY <2>2, <2>3, <2>4, <3>1, <3>2 DEF HoldInv
  <2>6. CASE Unconfirmed
    <3>1. /\ UNCHANGED <<stable, pressedAt, chordLocked>> /\ raw' = candidate
          /\ event' \in {"none", "CENTER_LONG"}
      BY <2>6 DEF Unconfirmed
    <3>2. ASSUME Short
          PROVE  /\ Held' = Held + dt /\ Held \in Nat /\ age' = Capped(Held')
                 /\ CanTurnLong <=> Held' >= LongTicks
      <4>1. /\ Held' = Held + dt /\ Held \in Nat /\ age' = Capped(Held')
        BY <2>2, <3>1, <3>2, HeldOn
      <4>2. HasPassed(now', pressedAt, LongTicks) <=> Held' >= LongTicks
        BY <3>1 DEF HasPassed, Held
      <4>. QED
        BY <3>2, <4>1, <4>2 DEF CanTurnLong
    <3>3. CASE CanTurnLong
      <4>1. Short /\ longSent'
        BY <2>6, <3>3 DEF Unconfirmed, CanTurnLong
      <4>2. age' = LongTicks
        BY <2>1, <3>2, <3>3, <4>1 DEF Capped
      <4>. QED
        BY <2>2, <2>3, <2>4, <3>1, <4>1, <4>2 DEF HoldInv
    <3>4. CASE ~CanTurnLong
      <4>1. event' = "none" /\ longSent' = longSent
        BY <2>6, <3>4 DEF Unconfirmed
      <4>2. ASSUME Short'
            PROVE  /\ Held' \in Nat /\ Held' < LongTicks + bounce'
                   /\ age' = Capped(Held') /\ steady' < LongTicks
        <5>1. Short
          BY <3>1, <4>1, <4>2
        <5>2. /\ Held' \in Nat /\ Held' < LongTicks /\ age' = Capped(Held')
          BY <2>1, <3>2, <3>4, <5>1
        <5>3. steady' = age'
          BY <2>2, <3>1 DEF Record
        <5>. QED
          BY <2>1, <2>4, <3>1, <5>2, <5>3 DEF Capped
      <4>. QED
        BY <2>2, <2>3, <2>4, <3>1, <4>1, <4>2 DEF HoldInv
    <3>. QED
      BY <3>3, <3>4
  <2>7. CASE ConfirmCenter
    <3>1. /\ stable # Center /\ pressedAt' = now' /\ raw' = candidate
          /\ event' = "none"
      BY <2>7 DEF ConfirmCenter, Confirm, Debounced
    <3>2. Held' = 0
      <4>1. \A n \in 0..Wrap - 1 : (n - n) % Wrap = 0
        <5>1. 0 % Wrap = 0
          BY <2>1
        <5>2. \A n \in 0..Wrap - 1 : n - n = 0
          BY <2>1
        <5>. QED
          BY <5>1, <5>2
      <4>. QED
        BY <2>3, <3>1, <4>1 DEF Held
    <3>3. age' = 0 /\ steady' = 0
      BY <2>2, <3>1 DEF Record
    <3>. QED
      BY <2>1, <2>3, <2>4, <3>1, <3>2, <3>3 DEF HoldInv, Capped
  <2>8. CASE ConfirmRelease
    <3>1. /\ stable' = {} /\ pressedAt' = pressedAt /\ ~chordLocked
          /\ event' = ReleaseEvent(stable, longSent)
      BY <2>8 DEF ConfirmRelease, Confirm, Debounced
    <3>2. stable' # Center
      BY <3>1 DEF Center
    <3>3. Decided
      BY <3>1 DEF HoldInv, ReleaseEvent
    <3>. QED
      BY <2>2, <2>3, <2>4, <3>1, <3>2, <3>3 DEF HoldInv
  <2>9. CASE ConfirmDirection
    <3>1. PICK d \in Directions : candidate = {d} /\ event' = d
      BY <2>9 DEF ConfirmDirection
    <3>2. /\ d \notin {"center", "CENTER_SHORT", "CENTER_LONG"}
          /\ stable' = {d} /\ pressedAt' = pressedAt
      BY <2>9, <3>1, JogAssumption DEF ConfirmDirection, Confirm, Debounced
    <3>. QED
      BY <2>2, <2>3, <2>4, <3>1, <3>2 DEF HoldInv, Center
  <2>10. CASE ConfirmChord
    <3>1. chordLocked' /\ event' = "none" /\ pressedAt' = pressedAt
      BY <2>10 DEF ConfirmChord
    <3>. QED
      BY <2>2, <2>3, <2>4, <3>1 DEF HoldInv
  <2>11. CASE ConfirmLocked
    <3>1. /\ stable' = candidate /\ chordLocked' = (candidate # {})
          /\ event' = "none" /\ pressedAt' = pressedAt
      BY <2>11 DEF ConfirmLocked, Debounced, LockedBy
    <3>2. stable' = Center => chordLocked'
      BY <3>1 DEF Center
    <3>. QED
      BY <2>2, <2>3, <2>4, <3>1, <3>2 DEF HoldInv
  <2>. QED
    BY <1>2, <2>5, <2>6, <2>7, <2>8, <2>9, <2>10, <2>11 DEF Update
<1>. QED
  BY <1>1, <1>2 DEF Next

\* The time CENTER was held decides between short and long, also when the clock
\* wraps in the meantime (JogSwitch::update).
THEOREM HoldTimeIsDecisive == Spec => HoldTimeDecides
<1>1. HoldInv /\ [Next]_jogVars =>
        [/\ event' = "CENTER_LONG" => age' = LongTicks
         /\ event' = "CENTER_SHORT" => steady < LongTicks]_jogVars
  BY HoldStep
<1>2. HoldInv /\ [Next]_jogVars => HoldInv'
  BY HoldStep
<1>. QED
  BY <1>1, <1>2, HoldInitially, PTL DEF Spec, HoldTimeDecides
=============================================================================
