----------------------------- MODULE HostProcess -----------------------------
(***************************************************************************)
(* A process of the Windows program (windows/src/main.rs) from its command *)
(* line to its end, beside others of which only the mutex is seen.  What   *)
(* the process has still to do is a sequence of operations; an error drops *)
(* the rest, or, in the session loop, the rest of the session.  Time passes *)
(* in ticks, at any rate: a call may take any number of them.              *)
(***************************************************************************)
EXTENDS Notifications, HostRuntime, Discovery
LOCAL INSTANCE TLC

CONSTANTS
  Me,            \* this process
  InitialDelay,  \* the first delay of ReconnectBackoff
  MaximumDelay,  \* its limit
  Duration,      \* the time given to --watch or --run-spp
  PairedLists,   \* what may be paired with the PC
  MaxFailures,   \* bound on calls of one process that fail by chance
  ManyFailures   \* failed sessions in a row are counted up to here

ASSUME HostAssumption ==
  /\ Me \in Instances
  /\ InitialDelay \in Nat \ {0} /\ MaximumDelay \in Nat
  /\ InitialDelay <= MaximumDelay
  /\ Duration \in Nat \ {0}
  /\ MaxFailures \in Nat /\ ManyFailures \in Nat
  /\ InitialDelay * 2^ManyFailures >= MaximumDelay

VARIABLES
  running,
  command,
  todo,        \* the operations to come, the first one under way
  paired,      \* the devices paired with the PC
  faults,      \* calls that may still fail by chance
  backoff,     \* next of ReconnectBackoff
  failures,    \* sessions that failed since one was established
  sleepLeft,   \* time left of interruptible_sleep
  finishLeft   \* time left before finish, or None

processVars == <<running, command, todo, paired, faults>>
loopVars == <<backoff, failures, sleepLeft, finishLeft>>
hostVars == <<processVars, loopVars, notificationVars, mutexVars, shutdownVars>>

Smaller(a, b) == IF a < b THEN a ELSE b

-----------------------------------------------------------------------------
(* The command line.                                                       *)

WithValue == "--watch" :> "watch" @@ "--run-spp" :> "run for a time"
               @@ "--set-output" :> "set" @@ "--set-input" :> "set"
WithoutValue == "--find-bluetooth" :> "find" @@ "--run" :> "run"
                  @@ "--test-spp" :> "test"

\* parse_command: an option, its value and whether more follows.
Parsed(option, value, more) ==
  CASE option = "none" -> "read"
    [] option \in DOMAIN WithoutValue /\ value = "missing" -> WithoutValue[option]
    [] option \in DOMAIN WithValue /\ value = "positive" /\ ~more -> WithValue[option]
    [] OTHER -> "usage"


\* Mutant: the first read comes before the subscription.
WatchPlanReadingFirst == <<"audio", "read", "subscribe", "clock", "watch">>

\* watch_changes: registered before the first read, so that changes during it
\* stay queued.
WatchPlan == <<"audio", "subscribe", "clock", "read", "watch">>

\* Mutant: the handler is registered first.
InstallStepsSwapped == <<"handler", "clear">>

\* install_shutdown_handler
InstallSteps == <<"clear", "handler">>

\* main: what each command does, in order.
Plan(c) ==
  CASE c = "read"  -> <<"audio", "read">>
    [] c = "set"   -> <<"audio", "read", "set">>
    [] c = "watch" -> WatchPlan
    [] c = "find"  -> <<"find">>
    [] c = "test"  -> <<"connect", "hello", "audio", "capture", "send", "ping">>
    [] c = "run for a time" -> <<"audio", "clock", "subscribe", "loop">>
    [] c = "run"   -> <<"mutex", "check", InstallSteps[1], InstallSteps[2],
                        "audio", "subscribe", "loop">>
    [] OTHER -> <<>>

\* run_spp_session, and the loop around it.
Session == <<"connect", "hello", "capture", "send", "poll", "loop">>
SessionCalls == {Session[i] : i \in 1..Len(Session) - 1}

Options == DOMAIN WithValue \cup DOMAIN WithoutValue \cup {"none", "other"}
Values == {"missing", "unreadable", "zero", "positive"}

-----------------------------------------------------------------------------

HostInit ==
  /\ running = FALSE /\ command = "ended" /\ todo = <<>> /\ paired = <<>>
  /\ faults = 0 /\ backoff = InitialDelay /\ failures = 0
  /\ sleepLeft = 0 /\ finishLeft = None
  /\ NotificationsInit /\ RuntimeInit

Doing(op) == running /\ todo # <<>> /\ Head(todo) = op
Proceed == todo' = Tail(todo)
Return == todo' = <<>>

Start ==
  /\ ~running
  /\ running' = TRUE
  /\ \E option \in Options, value \in Values, more \in BOOLEAN :
       /\ value = "missing" => ~more
       /\ command' = Parsed(option, value, more)
  /\ todo' = Plan(command')
  /\ paired' \in PairedLists
  /\ faults' = MaxFailures
  /\ UNCHANGED <<loopVars, notificationVars, mutexVars, shutdownVars>>

\* main has returned, or the process is killed: Windows closes its handles.
Ends ==
  /\ running' = FALSE /\ todo' = <<>> /\ paired' = <<>>
  /\ faults' = 0 /\ backoff' = InitialDelay /\ failures' = 0
  /\ sleepLeft' = 0 /\ finishLeft' = None
  /\ Leave(Me)
  /\ Unregister
  /\ ForgetRequest

Exit == running /\ todo = <<>> /\ Ends /\ command' = "ended"

Killed == running /\ todo # <<>> /\ Ends /\ command' = "killed"

\* Ctrl+C, the console closed, the session or Windows ending.
ConsoleEvent ==
  /\ HandlerCalled
  /\ UNCHANGED <<processVars, loopVars, notificationVars, mutexVars>>

-----------------------------------------------------------------------------
(* Operations without a part of their own in this model.                   *)

Plain == {"audio", "set", "ping", "hello"}

PlainSucceeds ==
  /\ \E op \in Plain : Doing(op)
  /\ Proceed
  /\ UNCHANGED <<running, command, paired, faults, loopVars, notificationVars,
                 mutexVars, shutdownVars>>

OpenMutex ==
  /\ Doing("mutex")
  /\ CreateMutex(Me)
  /\ Proceed
  /\ UNCHANGED <<running, command, paired, faults, loopVars, notificationVars,
                 shutdownVars>>

BecomeResident ==
  /\ Doing("check")
  /\ Acquire(Me)
  /\ Proceed
  /\ UNCHANGED <<running, command, paired, faults, loopVars, notificationVars,
                 shutdownVars>>

AlreadyRunning ==
  /\ Doing("check")
  /\ Refuse(Me)
  /\ Return
  /\ UNCHANGED <<running, command, paired, faults, loopVars, notificationVars,
                 shutdownVars>>

Install ==
  /\ \/ Doing("clear") /\ ClearFlag
     \/ Doing("handler") /\ InstallHandler
  /\ Proceed
  /\ UNCHANGED <<running, command, paired, faults, loopVars, notificationVars,
                 mutexVars>>

SetClock ==
  /\ Doing("clock")
  /\ finishLeft' = Duration
  /\ Proceed
  /\ UNCHANGED <<running, command, paired, faults, backoff, failures,
                 sleepLeft, notificationVars, mutexVars, shutdownVars>>

Subscribe ==
  /\ Doing("subscribe")
  /\ Register
  /\ Proceed
  /\ UNCHANGED <<running, command, paired, faults, loopVars, mutexVars,
                 shutdownVars>>

\* log_audio_state and capture_audio_snapshot: both take a while.
StartReading ==
  /\ Doing("read") \/ Doing("capture")
  /\ ~reading
  /\ BeginRead
  /\ UNCHANGED <<processVars, loopVars, mutexVars, shutdownVars>>

FinishReading ==
  /\ running /\ reading
  /\ EndRead
  /\ IF Doing("read") \/ Doing("capture") THEN Proceed ELSE UNCHANGED todo
  /\ UNCHANGED <<running, command, paired, faults, loopVars, mutexVars,
                 shutdownVars>>

-----------------------------------------------------------------------------
(* Errors, and the session loop.                                           *)

\* Mutant: the delay is not limited.
NextBackoffUnlimited == 2 * backoff

\* next_delay
NextBackoff == Smaller(2 * backoff, MaximumDelay)

\* Mutant: without a finish, nothing remains.
RemainingOrNothing(delay) == IF finishLeft = None THEN 0 ELSE finishLeft

Remaining(delay) == IF finishLeft = None THEN delay ELSE finishLeft

\* Err(error) in run_spp_session_loop.
SessionFails ==
  /\ backoff' = NextBackoff
  /\ failures' = Smaller(failures + 1, ManyFailures)
  /\ sleepLeft' = Smaller(backoff, Remaining(backoff))
  /\ todo' = IF Remaining(backoff) = 0 THEN <<>> ELSE <<"sleep", "loop">>
  /\ UNCHANGED finishLeft

InSession == todo[Len(todo)] = "loop" /\ Head(todo) \in SessionCalls

\* An error returned by the operation under way.
Error ==
  /\ IF InSession THEN SessionFails ELSE Return /\ UNCHANGED loopVars
  /\ AbandonRead
  /\ UNCHANGED <<running, command, paired, mutexVars, shutdownVars>>

Fallible ==
  SessionCalls \cup Plain
    \cup {"mutex", "handler", "subscribe", "read", "find", "watch"}

\* A call of the operating system, the radio or the peer fails.
FailsByChance ==
  /\ running /\ todo # <<>> /\ Head(todo) \in Fallible
  /\ faults > 0
  /\ faults' = faults - 1
  /\ Error

\* find_paired_audio_selector, and the connection behind it.
Find ==
  /\ Doing("find") \/ Doing("connect")
  /\ IF FindsSerialPort(paired)
     THEN /\ Proceed
          /\ UNCHANGED <<running, command, paired, loopVars, notificationVars,
                         mutexVars, shutdownVars>>
     ELSE Error
  /\ UNCHANGED faults

\* The snapshot is sent; the session is established.
Send ==
  /\ Doing("send")
  /\ Proceed
  /\ backoff' = InitialDelay
  /\ failures' = 0
  /\ UNCHANGED <<running, command, paired, faults, sleepLeft, finishLeft,
                 notificationVars, mutexVars, shutdownVars>>

StopAsked == requested \/ finishLeft = 0

\* The head of the loop.
Loop ==
  /\ Doing("loop")
  /\ IF StopAsked
     THEN Return /\ UNCHANGED notificationVars
     ELSE todo' = Session /\ Forget
  /\ UNCHANGED <<running, command, paired, faults, loopVars, mutexVars,
                 shutdownVars>>

\* One round of run_spp_session's loop, or of watch_changes.
Poll ==
  /\ Doing("poll") \/ Doing("watch")
  /\ ~reading
  /\ IF (IF Doing("poll") THEN StopAsked ELSE finishLeft = 0)
     THEN Return /\ UNCHANGED notificationVars
     ELSE DrainAndTakeDue /\ UNCHANGED todo
  /\ UNCHANGED <<running, command, paired, faults, loopVars, mutexVars,
                 shutdownVars>>

\* interruptible_sleep
Wake ==
  /\ Doing("sleep")
  /\ requested \/ sleepLeft = 0
  /\ sleepLeft' = 0
  /\ Proceed
  /\ UNCHANGED <<running, command, paired, faults, backoff, failures,
                 finishLeft, notificationVars, mutexVars, shutdownVars>>

-----------------------------------------------------------------------------

Earlier(t) == IF t > 0 THEN t - 1 ELSE t

Tick ==
  /\ running
  /\ sleepLeft' = Earlier(sleepLeft)
  /\ finishLeft' = Earlier(finishLeft)
  /\ deadline' = Earlier(deadline)
  /\ UNCHANGED <<processVars, backoff, failures, owed, subscribed, channel,
                 reading, fresh, shown, mutexVars, shutdownVars>>

Audio ==
  /\ AudioChange \/ Publish
  /\ UNCHANGED <<processVars, loopVars, mutexVars, shutdownVars>>

OtherInstance(i) ==
  /\ CreateMutex(i) \/ Acquire(i) \/ Refuse(i) \/ (instance[i] # "out" /\ Leave(i))
  /\ UNCHANGED <<processVars, loopVars, notificationVars, shutdownVars>>

Work ==
  \/ PlainSucceeds \/ OpenMutex \/ BecomeResident \/ AlreadyRunning
  \/ Install \/ SetClock \/ Subscribe \/ StartReading \/ FinishReading
  \/ FailsByChance \/ Find \/ Send \/ Loop \/ Poll \/ Wake \/ Exit

HostNext ==
  \/ Work \/ Tick \/ Audio \/ Start \/ Killed \/ ConsoleEvent
  \/ \E i \in Instances \ {Me} : OtherInstance(i)

\* The thread runs on, every call returns, time passes.
HostSpec ==
  HostInit /\ [][HostNext]_hostVars
    /\ WF_hostVars(Work) /\ WF_hostVars(Tick)

-----------------------------------------------------------------------------
(* Properties.                                                             *)

\* The wait before the next session is what the failures in a row since the
\* last established session ask for: 1, 2, 4, ... up to the limit; and the
\* program does not sleep past the time it was told to end.
WaitFollowsFailures ==
  /\ backoff = Smaller(InitialDelay * 2^failures, MaximumDelay)
  /\ finishLeft # None => sleepLeft <= finishLeft

\* Whoever follows the audio devices, a session or --watch, either has read
\* what Windows has now, or is reading, or still has something that will make
\* it read: a callback owed, an event in the channel, a deadline.  Nothing
\* that changes while it subscribes, connects or reads is missed.
NoChangeIsMissed ==
  (Doing("poll") \/ Doing("watch")) /\ ~shown =>
    \/ owed > 0 \/ channel > 0 \/ deadline # None
    \/ reading

\* Once its handler was called, the process ends, whatever it was doing: no
\* request gets lost between the two steps of install_shutdown_handler, in a
\* sleep, or in a session.
ShutdownIsObeyed == told ~> ~running

\* A resident program that can find the selector gets a session, however
\* many sessions failed before, unless it is told to stop or killed.
SelectorIsReached ==
  (Doing("loop") /\ command = "run" /\ FindsSerialPort(paired))
    ~> (Doing("poll") \/ told \/ command = "killed")
=============================================================================
