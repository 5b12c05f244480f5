---------------------------- MODULE Notifications ----------------------------
(***************************************************************************)
(* windows/src/audio/notification.rs with its time: the callbacks Core     *)
(* Audio makes on a thread of its own, the channel they write to, and the  *)
(* debouncer of whoever reads that channel.  An event only says that       *)
(* something changed, so events are counted; what a reader last read is    *)
(* either what Windows has now or not.  One Tick is a third of the         *)
(* debounce time or so; the exact parts do not matter.                     *)
(***************************************************************************)
EXTENDS Integers

CONSTANTS
  Debounce,   \* NOTIFICATION_DEBOUNCE
  MaxNotices  \* bound on changes whose event was not taken from the channel

ASSUME NotificationsAssumption == Debounce \in Nat /\ MaxNotices \in Nat

VARIABLES
  owed,        \* changes whose callback is still to come
  subscribed,  \* the callback is registered and the receiver alive
  channel,     \* events waiting in the mpsc channel
  deadline,    \* time left of the debouncer's deadline, or None
  reading,     \* a read of the audio devices is under way
  fresh,       \* nothing changed since that read began
  shown        \* the last read, as logged or sent, is what Windows has

notificationVars ==
  <<owed, subscribed, channel, deadline, reading, fresh, shown>>

None == -1

NotificationsInit ==
  /\ owed = 0 /\ subscribed = FALSE /\ channel = 0 /\ deadline = None
  /\ reading = FALSE /\ fresh = FALSE /\ shown = FALSE

-----------------------------------------------------------------------------
(* Windows.                                                                *)

AudioChange ==
  /\ owed + channel < MaxNotices
  /\ owed' = owed + 1
  /\ fresh' = FALSE /\ shown' = FALSE
  /\ UNCHANGED <<subscribed, channel, deadline, reading>>

\* publish: an event is lost only when nobody listens.
Publish ==
  /\ owed > 0
  /\ owed' = owed - 1
  /\ channel' = IF subscribed THEN channel + 1 ELSE channel
  /\ UNCHANGED <<subscribed, deadline, reading, fresh, shown>>

-----------------------------------------------------------------------------
(* The reader.                                                             *)

\* NotificationSubscription::register
Register ==
  /\ subscribed' = TRUE
  /\ channel' = 0
  /\ UNCHANGED <<owed, deadline, reading, fresh, shown>>

\* Draining without a debouncer, and a debouncer made for the session that
\* begins.
Forget ==
  /\ channel' = 0
  /\ deadline' = None
  /\ UNCHANGED <<owed, subscribed, reading, fresh, shown>>

\* push: every event starts the time anew.
Pushed == IF channel > 0 THEN Debounce ELSE deadline

\* take_due
Due == Pushed = 0

\* The channel is drained into the debouncer; when it is due, its batch is
\* taken and a read begins.
DrainAndTakeDue ==
  /\ channel' = 0
  /\ deadline' = IF Due THEN None ELSE Pushed
  /\ reading' = Due
  /\ fresh' = (Due \/ fresh)
  /\ UNCHANGED <<owed, subscribed, shown>>

BeginRead ==
  /\ reading' = TRUE /\ fresh' = TRUE
  /\ UNCHANGED <<owed, subscribed, channel, deadline, shown>>

EndRead ==
  /\ reading' = FALSE /\ shown' = fresh
  /\ UNCHANGED <<owed, subscribed, channel, deadline, fresh>>

AbandonRead ==
  /\ reading' = FALSE
  /\ UNCHANGED <<owed, subscribed, channel, deadline, fresh, shown>>

\* Drop of the subscription: the callback is unregistered, the channel gone.
Unregister ==
  /\ subscribed' = FALSE /\ channel' = 0 /\ deadline' = None
  /\ reading' = FALSE /\ fresh' = FALSE /\ shown' = FALSE
  /\ UNCHANGED owed
=============================================================================
