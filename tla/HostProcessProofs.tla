-------------------------- MODULE HostProcessProofs --------------------------
(***************************************************************************)
(* One resident instance at a time, for any number of processes and any    *)
(* command of any of them; and no change of the audio devices is missed,   *)
(* for any debounce time and any delays.                                   *)
(***************************************************************************)
EXTENDS HostProcess, FiniteSetTheorems, TLAPS

\* Whoever is past CreateMutexW has the mutex open, and only one of them was
\* told that it made it.
MutexInv ==
  /\ instance \in [Instances -> {"out", "created", "existed", "resident"}]
  /\ \A i \in Instances : instance[i] # "out" => i \in handles
  /\ \A i, j \in Instances :
       instance[i] \in {"created", "resident"} /\ instance[j] \in {"created", "resident"}
         => i = j

MutexStep(i) == CreateMutex(i) \/ Acquire(i) \/ Refuse(i) \/ Leave(i)

LEMMA MutexStepInv ==
  ASSUME MutexInv, NEW i \in Instances, MutexStep(i)
  PROVE  MutexInv'
<1>1. CASE CreateMutex(i)
  BY <1>1 DEF MutexInv, CreateMutex
<1>2. CASE Acquire(i)
  BY <1>2 DEF MutexInv, Acquire
<1>3. CASE Refuse(i)
  BY <1>3 DEF MutexInv, Refuse
<1>4. CASE Leave(i)
  BY <1>4 DEF MutexInv, Leave
<1>. QED
  BY <1>1, <1>2, <1>3, <1>4 DEF MutexStep

\* Every step of the system is one of the mutex or leaves it alone.
LEMMA EveryStepIsOfTheMutex ==
  ASSUME [HostNext]_hostVars
  PROVE  UNCHANGED mutexVars \/ \E i \in Instances : MutexStep(i)
<1> USE HostAssumption DEF MutexStep
<1>1. CASE UNCHANGED hostVars
  BY <1>1 DEF hostVars
<1>2. CASE PlainSucceeds \/ Install \/ SetClock \/ Subscribe \/ StartReading \/ FinishReading
  BY <1>2 DEF PlainSucceeds, Install, SetClock, Subscribe, StartReading, FinishReading
<1>3. CASE OpenMutex \/ BecomeResident \/ AlreadyRunning
  BY <1>3 DEF OpenMutex, BecomeResident, AlreadyRunning
<1>4. CASE FailsByChance \/ Find
  BY <1>4 DEF FailsByChance, Find, Error
<1>5. CASE Send \/ Loop \/ Poll \/ Wake
  BY <1>5 DEF Send, Loop, Poll, Wake
<1>6. CASE Exit \/ Killed
  BY <1>6 DEF Exit, Killed, Ends
<1>7. CASE Tick \/ Audio \/ Start \/ ConsoleEvent
  BY <1>7 DEF Tick, Audio, Start, ConsoleEvent
<1>8. CASE \E i \in Instances \ {Me} : OtherInstance(i)
  BY <1>8 DEF OtherInstance
<1>. QED
  BY <1>1, <1>2, <1>3, <1>4, <1>5, <1>6, <1>7, <1>8 DEF HostNext, Work

\* No two instances are resident at once (SingleInstance::acquire), wherever
\* the processes are between creating the mutex and looking at the last error.
THEOREM ResidentsAreAlone == HostSpec => []OneResident
<1>1. HostInit => MutexInv
  BY DEF HostInit, RuntimeInit, MutexInv
<1>2. MutexInv /\ [HostNext]_hostVars => MutexInv'
  <2> SUFFICES ASSUME MutexInv, [HostNext]_hostVars PROVE MutexInv'
    OBVIOUS
  <2>1. CASE UNCHANGED mutexVars
    BY <2>1 DEF MutexInv, mutexVars
  <2>. QED
    BY <2>1, EveryStepIsOfTheMutex, MutexStepInv
<1>3. MutexInv => OneResident
  BY DEF MutexInv, OneResident
<1>. QED
  BY <1>1, <1>2, <1>3, PTL DEF HostSpec

-----------------------------------------------------------------------------
(* Whoever follows the audio devices, a session or --watch, misses nothing. *)

Reads == {"read", "capture"}
Follows == {"poll", "watch"}
Operations ==
  Reads \cup Follows
    \cup {"mutex", "check", "clear", "handler", "audio", "subscribe", "clock",
          "loop", "find", "sleep", "connect", "hello", "send", "ping", "set"}

\* Something tells of what was not read yet, or is about to.
Notified == owed > 0 \/ channel > 0 \/ deadline # None
Aware == shown \/ Notified \/ reading

Listening(n) == subscribed \/ \E i \in 1..n - 1 : todo[i] = "subscribe"

\* Who follows the devices at k reads them before, with the callback
\* registered, or has read them and is aware of every change since.
FollowsAt(k) ==
  \/ \E j \in 1..k - 1 : /\ todo[j] \in Reads /\ Listening(j)
                         /\ \A i \in j..k : todo[i] # "subscribe"
  \/ /\ \A i \in 1..k : todo[i] # "subscribe"
     /\ subscribed /\ Aware

ControlInv ==
  /\ todo \in Seq(Operations)
  /\ ~running => todo = <<>>
  /\ \A k \in DOMAIN todo : todo[k] = "loop" => Listening(k)
  /\ \A i, k \in DOMAIN todo :
       i < k /\ todo[i] \in SessionCalls /\ todo[k] = "loop" => subscribed
  /\ \A k \in DOMAIN todo : todo[k] \in Follows => FollowsAt(k)

ReadInv ==
  /\ owed \in Nat /\ channel \in Nat /\ deadline \in Int
  /\ reading => todo # <<>> /\ Head(todo) \in Reads \cup Follows
  /\ reading /\ subscribed /\ ~fresh => Notified

FollowInv == ControlInv /\ ReadInv

\* One operation done: what is left is where it was, one place earlier.
LEMMA OneDone ==
  ASSUME todo \in Seq(Operations), todo # <<>>, Proceed
  PROVE  /\ todo' \in Seq(Operations)
         /\ \A k \in DOMAIN todo' : /\ k \in Nat /\ k >= 1 /\ k + 1 \in DOMAIN todo
                                    /\ todo'[k] = todo[k + 1]
         /\ Head(todo) = todo[1] /\ 1 \in DOMAIN todo
         /\ DOMAIN todo = 1..Len(todo) /\ Len(todo) \in Nat
         /\ DOMAIN todo' = 1..Len(todo) - 1
BY DEF Proceed

\* To go on, a read must have ended with what it read, or what is new must be
\* known.
LEMMA ProceedKeeps ==
  ASSUME ControlInv, todo # <<>>, Proceed, running' = running,
         subscribed => subscribed',
         Head(todo) = "subscribe" => subscribed',
         Head(todo) \in Reads /\ subscribed => Aware',
         subscribed /\ Head(todo) # "subscribe" /\ Aware => Aware'
  PROVE  ControlInv'
<1>1. /\ todo' \in Seq(Operations)
      /\ \A k \in DOMAIN todo' : /\ k \in Nat /\ k >= 1 /\ k + 1 \in DOMAIN todo
                                 /\ todo'[k] = todo[k + 1]
      /\ Head(todo) = todo[1] /\ 1 \in DOMAIN todo
      /\ DOMAIN todo = 1..Len(todo) /\ Len(todo) \in Nat
      /\ DOMAIN todo' = 1..Len(todo) - 1
  BY OneDone DEF ControlInv
<1>2. ASSUME NEW k \in DOMAIN todo', Listening(k + 1)
      PROVE  Listening(k)'
  <2>1. CASE subscribed
    BY <2>1 DEF Listening
  <2>2. CASE \E i \in 1..(k + 1) - 1 : todo[i] = "subscribe"
    <3>1. PICK i \in 1..(k + 1) - 1 : todo[i] = "subscribe"
      BY <2>2
    <3>2. k \in Nat /\ k \in 1..Len(todo) - 1 /\ i \in 1..k
      BY <1>1, <3>1
    <3>3. CASE i = 1
      BY <1>1, <3>1, <3>3 DEF Listening
    <3>4. CASE i # 1
      <4>1. i - 1 \in 1..k - 1 /\ i - 1 \in DOMAIN todo' /\ (i - 1) + 1 = i
        BY <1>1, <3>2, <3>4
      <4>2. todo'[i - 1] = "subscribe"
        BY <1>1, <3>1, <4>1
      <4>. QED
        BY <4>1, <4>2 DEF Listening
    <3>. QED
      BY <3>3, <3>4
  <2>. QED
    BY <1>2, <2>1, <2>2 DEF Listening
<1>3. \A k \in DOMAIN todo' : todo'[k] = "loop" => Listening(k)'
  BY <1>1, <1>2 DEF ControlInv
<1>4. \A i, k \in DOMAIN todo' :
        i < k /\ todo'[i] \in SessionCalls /\ todo'[k] = "loop" => subscribed'
  <2> SUFFICES ASSUME NEW i \in DOMAIN todo', NEW k \in DOMAIN todo', i < k,
                      todo'[i] \in SessionCalls, todo'[k] = "loop"
               PROVE  subscribed'
    OBVIOUS
  <2>1. /\ i + 1 \in DOMAIN todo /\ k + 1 \in DOMAIN todo /\ i + 1 < k + 1
        /\ todo[i + 1] \in SessionCalls /\ todo[k + 1] = "loop"
    BY <1>1
  <2>. QED
    BY <2>1 DEF ControlInv
<1>5. ASSUME NEW k \in DOMAIN todo', todo'[k] \in Follows
      PROVE  FollowsAt(k)'
  <2>1. /\ FollowsAt(k + 1) /\ k \in Nat /\ k \in 1..Len(todo) - 1
    BY <1>1, <1>5 DEF ControlInv
  <2>2. ASSUME NEW n \in Nat, \A i \in n..k + 1 : todo[i] # "subscribe", n >= 1
        PROVE  \A i \in n - 1..k : i >= 1 => todo'[i] # "subscribe"
    <3> SUFFICES ASSUME NEW i \in n - 1..k, i >= 1 PROVE todo'[i] # "subscribe"
      OBVIOUS
    <3>1. i \in DOMAIN todo' /\ i + 1 \in n..k + 1
      BY <1>1, <2>1
    <3>. QED
      BY <1>1, <2>2, <3>1
  <2>3. CASE \E j \in 1..(k + 1) - 1 :
               /\ todo[j] \in Reads /\ Listening(j)
               /\ \A i \in j..k + 1 : todo[i] # "subscribe"
    <3>1. PICK j \in 1..(k + 1) - 1 :
               /\ todo[j] \in Reads /\ Listening(j)
               /\ \A i \in j..k + 1 : todo[i] # "subscribe"
      BY <2>3
    <3>2. j \in Nat /\ j >= 1 /\ j <= k
      BY <2>1, <3>1
    <3>3. \A i \in j - 1..k : i >= 1 => todo'[i] # "subscribe"
      BY <2>2, <3>1, <3>2
    <3>4. CASE j = 1
      <4>1. subscribed /\ Head(todo) \in Reads
        <5>1. ~\E i \in 1..1 - 1 : todo[i] = "subscribe"
          OBVIOUS
        <5>. QED
          BY <1>1, <3>1, <3>4, <5>1 DEF Listening
      <4>2. subscribed' /\ Aware'
        BY <4>1
      <4>3. \A i \in 1..k : todo'[i] # "subscribe"
        BY <2>1, <3>3, <3>4
      <4>. QED
        BY <4>2, <4>3 DEF FollowsAt
    <3>5. CASE j # 1
      <4>1. /\ j - 1 \in 1..k - 1 /\ j - 1 \in DOMAIN todo' /\ (j - 1) + 1 = j
            /\ \A i \in j - 1..k : i >= 1
        BY <1>1, <2>1, <3>2, <3>5
      <4>2. todo'[j - 1] \in Reads /\ Listening(j - 1)'
        BY <1>1, <1>2, <3>1, <4>1
      <4>3. \A i \in j - 1..k : todo'[i] # "subscribe"
        BY <3>3, <4>1
      <4>. QED
        BY <4>1, <4>2, <4>3 DEF FollowsAt
    <3>. QED
      BY <3>4, <3>5
  <2>4. CASE /\ \A i \in 1..k + 1 : todo[i] # "subscribe"
             /\ subscribed /\ Aware
    <3>1. Head(todo) # "subscribe"
      BY <1>1, <2>1, <2>4
    <3>2. \A i \in 0..k : i >= 1 => todo'[i] # "subscribe"
      BY <2>2, <2>4
    <3>3. \A i \in 1..k : todo'[i] # "subscribe"
      BY <2>1, <3>2
    <3>. QED
      BY <2>4, <3>1, <3>3 DEF FollowsAt
  <2>. QED
    BY <2>1, <2>3, <2>4 DEF FollowsAt
<1>6. ~running' => todo' = <<>>
  BY DEF ControlInv
<1>. QED
  BY <1>1, <1>3, <1>4, <1>5, <1>6 DEF ControlInv

\* Nothing is left to do.
LEMMA ReturnKeeps ==
  ASSUME Return, ~reading', ReadInv,
         UNCHANGED <<owed, channel, deadline>>
  PROVE  FollowInv'
<1>1. todo' = <<>> /\ DOMAIN todo' = {}
  BY DEF Return
<1>. QED
  BY <1>1 DEF FollowInv, ControlInv, ReadInv

\* As long as the operations to come stay, only what is known of changes counts.
LEMMA StayKeeps ==
  ASSUME ControlInv, UNCHANGED <<todo, running, subscribed>>, subscribed /\ Aware => Aware'
  PROVE  ControlInv'
<1>1. \A k : Listening(k)' = Listening(k)
  BY DEF Listening
<1>2. \A k : FollowsAt(k) => FollowsAt(k)'
  BY <1>1 DEF FollowsAt
<1>3. \A k \in DOMAIN todo : todo[k] = "loop" => Listening(k)'
  BY <1>1 DEF ControlInv
<1>4. \A k \in DOMAIN todo : todo[k] \in Follows => FollowsAt(k)'
  BY <1>2 DEF ControlInv
<1>. QED
  BY <1>3, <1>4 DEF ControlInv

\* Every command follows the devices only behind a read of them, and that one
\* behind the registration of the callback.
LEMMA PlanKeeps ==
  ASSUME NEW c, todo' = Plan(c), running'
  PROVE  ControlInv'
<1>0. SessionCalls = {"connect", "hello", "capture", "send", "poll"}
  BY DEF SessionCalls, Session
<1>1. ASSUME todo' \in Seq(Operations),
             \A i \in DOMAIN todo' : todo'[i] \notin Follows \cup {"loop"}
      PROVE  ControlInv'
  BY <1>1 DEF ControlInv
<1>2. CASE c = "run"
  <2>1. InstallSteps[1] = "clear" /\ InstallSteps[2] = "handler"
    BY DEF InstallSteps
  <2>2. todo' = <<"mutex", "check", "clear", "handler", "audio", "subscribe", "loop">>
    BY <1>2, <2>1 DEF Plan
  <2>3. /\ todo' \in Seq(Operations) /\ DOMAIN todo' = 1..7
        /\ todo'[1] = "mutex" /\ todo'[2] = "check" /\ todo'[3] = "clear"
        /\ todo'[4] = "handler" /\ todo'[5] = "audio" /\ todo'[6] = "subscribe"
        /\ todo'[7] = "loop"
    <3>1. todo' \in Seq(Operations)
      BY <2>2 DEF Operations, Reads, Follows
    <3>2. DOMAIN todo' = 1..7
      BY <2>2
    <3>3. /\ todo'[1] = "mutex" /\ todo'[2] = "check" /\ todo'[3] = "clear"
          /\ todo'[4] = "handler" /\ todo'[5] = "audio" /\ todo'[6] = "subscribe"
          /\ todo'[7] = "loop"
      BY <2>2
    <3>. QED
      BY <3>1, <3>2, <3>3
  <2>4. \A k \in 1..7 : k = 1 \/ k = 2 \/ k = 3 \/ k = 4 \/ k = 5 \/ k = 6 \/ k = 7
    OBVIOUS
  <2>5. Listening(7)'
    <3>1. 6 \in 1..7 - 1
      OBVIOUS
    <3>. QED
      BY <2>3, <3>1 DEF Listening
  <2>6. \A k \in 1..7 : todo'[k] = "loop" => Listening(k)'
    BY <2>3, <2>4, <2>5
  <2>7. \A k \in 1..7 : todo'[k] \notin SessionCalls \cup Follows
    BY <1>0, <2>3, <2>4 DEF Follows
  <2>. QED
    BY <2>3, <2>6, <2>7 DEF ControlInv
<1>3. CASE c = "watch"
  <2>1. todo' = <<"audio", "subscribe", "clock", "read", "watch">>
    BY <1>3 DEF Plan, WatchPlan
  <2>2. /\ todo' \in Seq(Operations) /\ DOMAIN todo' = 1..5
        /\ todo'[1] = "audio" /\ todo'[2] = "subscribe" /\ todo'[3] = "clock"
        /\ todo'[4] = "read" /\ todo'[5] = "watch"
    BY <2>1 DEF Operations, Reads, Follows
  <2>3. \A k \in 1..5 : k = 1 \/ k = 2 \/ k = 3 \/ k = 4 \/ k = 5
    OBVIOUS
  <2>4. \A k \in 1..5 : todo'[k] # "loop"
    BY <2>2, <2>3
  <2>5. FollowsAt(5)'
    <3>1. Listening(4)'
      BY <2>2 DEF Listening
    <3>2. \A i \in 4..5 : todo'[i] # "subscribe"
      BY <2>2
    <3>. QED
      BY <2>2, <3>1, <3>2 DEF FollowsAt, Reads
  <2>6. \A k \in 1..5 : todo'[k] \in Follows => FollowsAt(k)'
    BY <2>2, <2>3, <2>5 DEF Follows
  <2>. QED
    BY <2>2, <2>4, <2>6 DEF ControlInv
<1>4. CASE c = "run for a time"
  <2>1. todo' = <<"audio", "clock", "subscribe", "loop">>
    BY <1>4 DEF Plan
  <2>2. /\ todo' \in Seq(Operations) /\ DOMAIN todo' = 1..4
        /\ todo'[1] = "audio" /\ todo'[2] = "clock" /\ todo'[3] = "subscribe"
        /\ todo'[4] = "loop"
    BY <2>1 DEF Operations, Reads, Follows
  <2>3. \A k \in 1..4 : k = 1 \/ k = 2 \/ k = 3 \/ k = 4
    OBVIOUS
  <2>4. Listening(4)'
    BY <2>2 DEF Listening
  <2>5. \A k \in 1..4 : todo'[k] = "loop" => Listening(k)'
    BY <2>2, <2>3, <2>4
  <2>6. \A k \in 1..4 : todo'[k] \notin SessionCalls \cup Follows
    BY <1>0, <2>2, <2>3 DEF Follows
  <2>. QED
    BY <2>2, <2>5, <2>6 DEF ControlInv
<1>5. CASE c = "read"
  <2>1. todo' = <<"audio", "read">>
    BY <1>5 DEF Plan
  <2>2. /\ todo' \in Seq(Operations) /\ DOMAIN todo' = 1..2
        /\ todo'[1] = "audio" /\ todo'[2] = "read"
    BY <2>1 DEF Operations, Reads, Follows
  <2>3. \A k \in 1..2 : k = 1 \/ k = 2
    OBVIOUS
  <2>. QED
    BY <1>1, <2>2, <2>3 DEF Follows
<1>6. CASE c = "set"
  <2>1. todo' = <<"audio", "read", "set">>
    BY <1>6 DEF Plan
  <2>2. /\ todo' \in Seq(Operations) /\ DOMAIN todo' = 1..3
        /\ todo'[1] = "audio" /\ todo'[2] = "read" /\ todo'[3] = "set"
    BY <2>1 DEF Operations, Reads, Follows
  <2>3. \A k \in 1..3 : k = 1 \/ k = 2 \/ k = 3
    OBVIOUS
  <2>. QED
    BY <1>1, <2>2, <2>3 DEF Follows
<1>7. CASE c = "find"
  <2>1. todo' = <<"find">>
    BY <1>7 DEF Plan
  <2>2. /\ todo' \in Seq(Operations) /\ DOMAIN todo' = 1..1
        /\ todo'[1] = "find"
    BY <2>1 DEF Operations, Reads, Follows
  <2>3. \A k \in 1..1 : k = 1
    OBVIOUS
  <2>. QED
    BY <1>1, <2>2, <2>3 DEF Follows
<1>8. CASE c = "test"
  <2>1. todo' = <<"connect", "hello", "audio", "capture", "send", "ping">>
    BY <1>8 DEF Plan
  <2>2. /\ todo' \in Seq(Operations) /\ DOMAIN todo' = 1..6
        /\ todo'[1] = "connect" /\ todo'[2] = "hello" /\ todo'[3] = "audio"
        /\ todo'[4] = "capture" /\ todo'[5] = "send" /\ todo'[6] = "ping"
    BY <2>1 DEF Operations, Reads, Follows
  <2>3. \A k \in 1..6 : k = 1 \/ k = 2 \/ k = 3 \/ k = 4 \/ k = 5 \/ k = 6
    OBVIOUS
  <2>. QED
    BY <1>1, <2>2, <2>3 DEF Follows
<1>9. CASE c \notin {"read", "set", "watch", "find", "test", "run for a time", "run"}
  <2>1. todo' = <<>>
    BY <1>9 DEF Plan
  <2>2. todo' \in Seq(Operations) /\ DOMAIN todo' = {}
    BY <2>1
  <2>. QED
    BY <1>1, <2>2
<1>. QED
  BY <1>2, <1>3, <1>4, <1>5, <1>6, <1>7, <1>8, <1>9

\* A session reads them once connected, behind the drained channel.
LEMMA SessionKeeps ==
  ASSUME todo' = Session, subscribed', running'
  PROVE  ControlInv'
<1>1. /\ todo' \in Seq(Operations) /\ DOMAIN todo' = 1..6
      /\ todo'[1] = "connect" /\ todo'[2] = "hello" /\ todo'[3] = "capture"
      /\ todo'[4] = "send" /\ todo'[5] = "poll" /\ todo'[6] = "loop"
  BY DEF Session, Operations, Reads, Follows
<1>2. \A k \in 1..6 : k = 1 \/ k = 2 \/ k = 3 \/ k = 4 \/ k = 5 \/ k = 6
  OBVIOUS
<1>3. FollowsAt(5)'
  <2>1. \A i \in 3..5 : todo'[i] # "subscribe"
    BY <1>1, <1>2
  <2>. QED
    BY <1>1, <2>1 DEF FollowsAt, Reads, Listening
<1>4. \A k \in 1..6 : todo'[k] \in Follows => FollowsAt(k)'
  BY <1>1, <1>2, <1>3 DEF Follows
<1>. QED
  BY <1>1, <1>4 DEF ControlInv, Listening

\* A failed session starts over; any other error ends the program.
LEMMA ErrorKeeps ==
  ASSUME FollowInv, running, todo # <<>>, Error
  PROVE  FollowInv'
<1>1. /\ ~reading' /\ UNCHANGED <<owed, channel, deadline, subscribed, running>>
  BY DEF Error, AbandonRead
<1>2. CASE ~InSession
  BY <1>1, <1>2, ReturnKeeps DEF Error, FollowInv
<1>3. CASE InSession
  <2>1. subscribed
    <3>1. /\ todo \in Seq(Operations) /\ DOMAIN todo = 1..Len(todo) /\ Len(todo) \in Nat \ {0}
          /\ Head(todo) = todo[1]
      BY DEF FollowInv, ControlInv
    <3>2. Head(todo) # "loop" /\ todo[1] \in SessionCalls /\ todo[Len(todo)] = "loop"
      BY <1>3, <3>1 DEF InSession, SessionCalls, Session
    <3>3. 1 < Len(todo) /\ 1 \in DOMAIN todo /\ Len(todo) \in DOMAIN todo
      BY <3>1, <3>2
    <3>. QED
      BY <3>2, <3>3 DEF FollowInv, ControlInv
  <2>2. todo' = <<>> \/ todo' = <<"sleep", "loop">>
    BY <1>3 DEF Error, SessionFails
  <2>3. CASE todo' = <<>>
    BY <1>1, <2>3, ReturnKeeps DEF Return, FollowInv
  <2>4. CASE todo' = <<"sleep", "loop">>
    <3>1. /\ todo' \in Seq(Operations) /\ DOMAIN todo' = 1..2
          /\ todo'[1] = "sleep" /\ todo'[2] = "loop"
      BY <2>4 DEF Operations, Reads, Follows
    <3>2. \A k \in 1..2 : todo'[k] \notin Follows
      BY <3>1 DEF Follows
    <3>. QED
      BY <1>1, <2>1, <3>1, <3>2 DEF FollowInv, ControlInv, ReadInv, Listening
  <2>. QED
    BY <2>2, <2>3, <2>4
<1>. QED
  BY <1>2, <1>3

LEMMA FollowStep == FollowInv /\ [HostNext]_hostVars => FollowInv'
<1> SUFFICES ASSUME FollowInv, [HostNext]_hostVars PROVE FollowInv'
  OBVIOUS
<1>0. ControlInv /\ ReadInv
  BY DEF FollowInv
<1>1. ASSUME Proceed, todo # <<>>, Head(todo) \notin Reads \cup Follows \cup {"subscribe"},
             UNCHANGED running, UNCHANGED notificationVars
      PROVE  FollowInv'
  <2>1. ~reading
    BY <1>0, <1>1 DEF ReadInv
  <2>2. ControlInv'
    BY <1>0, <1>1, ProceedKeeps DEF Aware, Notified, notificationVars
  <2>. QED
    BY <1>0, <1>1, <2>1, <2>2 DEF FollowInv, ReadInv, notificationVars
<1>2. ASSUME UNCHANGED <<todo, running, notificationVars>> PROVE FollowInv'
  <2>1. ControlInv'
    BY <1>0, <1>2, StayKeeps DEF Aware, Notified, notificationVars
  <2>. QED
    BY <1>0, <1>2, <2>1 DEF FollowInv, ReadInv, Notified, notificationVars
<1>3. CASE PlainSucceeds
  BY <1>1, <1>3 DEF PlainSucceeds, Plain, Doing, Reads, Follows
<1>4. CASE OpenMutex \/ BecomeResident \/ Install \/ SetClock
  BY <1>1, <1>4 DEF OpenMutex, BecomeResident, Install, SetClock, Doing, Reads, Follows
<1>5. CASE Send \/ Wake
  BY <1>1, <1>5 DEF Send, Wake, Doing, Reads, Follows
<1>6. CASE AlreadyRunning
  <2>1. ~reading' /\ UNCHANGED <<owed, channel, deadline>>
    BY <1>0, <1>6 DEF AlreadyRunning, Doing, ReadInv, Reads, Follows, notificationVars
  <2>. QED
    BY <1>0, <1>6, <2>1, ReturnKeeps DEF AlreadyRunning
<1>7. CASE Subscribe
  <2>1. /\ Proceed /\ todo # <<>> /\ Head(todo) = "subscribe" /\ running' = running
        /\ subscribed' /\ channel' = 0 /\ UNCHANGED <<owed, deadline, reading, fresh, shown>>
    BY <1>7 DEF Subscribe, Doing, Register
  <2>2. ~reading
    BY <1>0, <2>1 DEF ReadInv, Reads, Follows
  <2>3. ControlInv'
    BY <1>0, <2>1, ProceedKeeps DEF Reads
  <2>. QED
    BY <1>0, <2>1, <2>2, <2>3 DEF FollowInv, ReadInv
<1>8. CASE StartReading
  <2>1. /\ todo # <<>> /\ Head(todo) \in Reads /\ reading' /\ fresh'
        /\ UNCHANGED <<todo, running, owed, subscribed, channel, deadline, shown>>
    BY <1>8 DEF StartReading, Doing, Reads, BeginRead, processVars
  <2>2. ControlInv'
    BY <1>0, <2>1, StayKeeps DEF Aware
  <2>. QED
    BY <1>0, <2>1, <2>2 DEF FollowInv, ReadInv
<1>9. CASE FinishReading
  <2>1. /\ running /\ reading /\ ~reading' /\ shown' = fresh /\ running' = running
        /\ UNCHANGED <<owed, subscribed, channel, deadline, fresh>>
        /\ todo # <<>>
    BY <1>0, <1>9 DEF FinishReading, EndRead, ReadInv
  <2>2. subscribed => Aware'
    BY <1>0, <2>1 DEF ReadInv, Aware, Notified
  <2>3. CASE Head(todo) \in Reads
    <3>1. Proceed
      BY <1>9, <2>1, <2>3 DEF FinishReading, Doing, Reads
    <3>2. Head(todo) # "subscribe"
      BY <2>3 DEF Reads
    <3>3. ControlInv'
      BY <1>0, <2>1, <2>2, <3>1, <3>2, ProceedKeeps
    <3>. QED
      BY <1>0, <2>1, <3>3 DEF FollowInv, ReadInv
  <2>4. CASE Head(todo) \notin Reads
    <3>1. UNCHANGED todo
      BY <1>9, <2>1, <2>4 DEF FinishReading, Doing, Reads
    <3>2. ControlInv'
      BY <1>0, <2>1, <2>2, <3>1, StayKeeps
    <3>. QED
      BY <1>0, <2>1, <3>2 DEF FollowInv, ReadInv
  <2>. QED
    BY <2>3, <2>4
<1>10. CASE FailsByChance
  BY <1>10, ErrorKeeps DEF FailsByChance
<1>11. CASE Find
  <2>1. CASE FindsSerialPort(paired)
    BY <1>1, <1>11, <2>1 DEF Find, Doing, Reads, Follows
  <2>2. CASE ~FindsSerialPort(paired)
    BY <1>11, <2>2, ErrorKeeps DEF Find, Doing
  <2>. QED
    BY <2>1, <2>2
<1>12. CASE Loop
  <2>1. ~reading /\ todo # <<>> /\ Head(todo) = "loop" /\ running /\ running' = running
    BY <1>0, <1>12 DEF Loop, Doing, ReadInv, Reads, Follows
  <2>2. CASE StopAsked
    BY <1>0, <1>12, <2>1, <2>2, ReturnKeeps DEF Loop, notificationVars
  <2>3. CASE ~StopAsked
    <3>1. /\ todo' = Session /\ channel' = 0 /\ deadline' = None
          /\ UNCHANGED <<owed, subscribed, reading, fresh, shown>>
      BY <1>12, <2>3 DEF Loop, Forget
    <3>2. subscribed
      <4>1. 1 \in DOMAIN todo /\ todo[1] = "loop"
        BY <1>0, <2>1 DEF ControlInv
      <4>2. ~\E i \in 1..1 - 1 : todo[i] = "subscribe"
        OBVIOUS
      <4>. QED
        BY <1>0, <4>1, <4>2 DEF ControlInv, Listening
    <3>3. ControlInv'
      BY <2>1, <3>1, <3>2, SessionKeeps
    <3>. QED
      BY <1>0, <2>1, <3>1, <3>3 DEF FollowInv, ReadInv, None
  <2>. QED
    BY <2>2, <2>3
<1>13. CASE Poll
  <2>1. ~reading /\ todo # <<>> /\ Head(todo) \in Follows /\ running' = running
    BY <1>13 DEF Poll, Doing, Follows
  <2>2. CASE Return /\ UNCHANGED notificationVars
    BY <1>0, <2>1, <2>2, ReturnKeeps DEF notificationVars
  <2>3. CASE DrainAndTakeDue /\ UNCHANGED todo
    <3>1. /\ channel' = 0 /\ deadline' = (IF Due THEN None ELSE Pushed)
          /\ reading' = Due /\ UNCHANGED <<owed, subscribed, shown, todo, running>>
          /\ Due => fresh'
      BY <2>1, <2>3 DEF DrainAndTakeDue
    <3>2. Pushed \in Int /\ (channel > 0 \/ deadline # None => Pushed # None)
      BY <1>0, NotificationsAssumption DEF ReadInv, Pushed, None
    <3>3. Aware => Aware'
      BY <2>1, <3>1, <3>2 DEF Aware, Notified
    <3>4. ControlInv'
      BY <1>0, <3>1, <3>3, StayKeeps
    <3>. QED
      BY <1>0, <2>1, <3>1, <3>2, <3>4 DEF FollowInv, ReadInv, None
  <2>. QED
    BY <1>13, <2>2, <2>3 DEF Poll
<1>14. CASE Exit \/ Killed
  <2>1. Return /\ ~reading' /\ channel' = 0 /\ deadline' = None /\ owed' = owed
    BY <1>14 DEF Exit, Killed, Ends, Return, Unregister
  <2>2. todo' = <<>> /\ DOMAIN todo' = {}
    BY <2>1 DEF Return
  <2>. QED
    BY <1>0, <2>1, <2>2 DEF FollowInv, ControlInv, ReadInv, None
<1>15. CASE Tick
  <2>1. /\ UNCHANGED <<todo, running, owed, subscribed, channel, reading, fresh, shown>>
        /\ deadline' = Earlier(deadline)
    BY <1>15 DEF Tick, processVars
  <2>2. Earlier(deadline) \in Int /\ (deadline # None => Earlier(deadline) # None)
    BY <1>0 DEF ReadInv, Earlier, None
  <2>3. ControlInv'
    BY <1>0, <2>1, <2>2, StayKeeps DEF Aware, Notified
  <2>. QED
    BY <1>0, <2>1, <2>2, <2>3 DEF FollowInv, ReadInv, Notified
<1>16. CASE Audio
  <2>1. UNCHANGED <<todo, running, subscribed, reading>>
    BY <1>16 DEF Audio, AudioChange, Publish, processVars
  <2>2. CASE AudioChange
    <3>1. owed' = owed + 1 /\ UNCHANGED <<channel, deadline>>
      BY <2>2 DEF AudioChange
    <3>2. Notified'
      BY <1>0, <3>1 DEF ReadInv, Notified
    <3>3. ControlInv'
      BY <1>0, <2>1, <3>2, StayKeeps DEF Aware
    <3>. QED
      BY <1>0, <2>1, <3>1, <3>2, <3>3 DEF FollowInv, ReadInv
  <2>3. CASE Publish
    <3>1. /\ owed > 0 /\ owed' = owed - 1 /\ UNCHANGED <<deadline, fresh, shown>>
          /\ channel' = IF subscribed THEN channel + 1 ELSE channel
      BY <2>3 DEF Publish
    <3>2. owed' \in Nat /\ channel' \in Nat /\ (subscribed => Notified')
      BY <1>0, <3>1 DEF ReadInv, Notified
    <3>3. ControlInv'
      BY <1>0, <2>1, <3>2, StayKeeps DEF Aware
    <3>. QED
      BY <1>0, <2>1, <3>1, <3>2, <3>3 DEF FollowInv, ReadInv
  <2>. QED
    BY <1>16, <2>2, <2>3 DEF Audio
<1>17. CASE Start
  <2>1. /\ ~running /\ running' /\ todo' = Plan(command') /\ UNCHANGED notificationVars
    BY <1>17 DEF Start
  <2>2. ~reading
    BY <1>0, <2>1 DEF ControlInv, ReadInv
  <2>3. ControlInv'
    BY <2>1, PlanKeeps
  <2>. QED
    BY <1>0, <2>1, <2>2, <2>3 DEF FollowInv, ReadInv, notificationVars
<1>18. CASE ConsoleEvent
  BY <1>2, <1>18 DEF ConsoleEvent, processVars
<1>19. CASE \E i \in Instances \ {Me} : OtherInstance(i)
  BY <1>2, <1>19 DEF OtherInstance, processVars
<1>20. CASE UNCHANGED hostVars
  BY <1>2, <1>20 DEF hostVars, processVars
<1>. QED
  BY <1>3, <1>4, <1>5, <1>6, <1>7, <1>8, <1>9, <1>10, <1>11, <1>12, <1>13, <1>14, <1>15,
     <1>16, <1>17, <1>18, <1>19, <1>20 DEF HostNext, Work

\* Whatever changes while the program subscribes, connects or reads, and however
\* it gets into a session, it is read or still announced (watch_changes,
\* run_spp_session and its loop), for any debounce time and any commands.
THEOREM ChangesAreNotMissed == HostSpec => []NoChangeIsMissed
<1>1. HostInit => FollowInv
  <2> SUFFICES ASSUME HostInit PROVE FollowInv
    OBVIOUS
  <2>1. todo = <<>> /\ DOMAIN todo = {}
    BY DEF HostInit
  <2>. QED
    BY <2>1 DEF HostInit, NotificationsInit, FollowInv, ControlInv, ReadInv, None
<1>2. FollowInv => NoChangeIsMissed
  <2> SUFFICES ASSUME FollowInv, Doing("poll") \/ Doing("watch"), ~shown
               PROVE  Notified \/ reading
    BY DEF NoChangeIsMissed, Notified
  <2>1. todo \in Seq(Operations) /\ todo # <<>> /\ Head(todo) \in Follows
    BY DEF FollowInv, ControlInv, Doing, Follows
  <2>2. 1 \in DOMAIN todo /\ todo[1] \in Follows
    BY <2>1
  <2>3. FollowsAt(1)
    BY <2>2 DEF FollowInv, ControlInv
  <2>4. 1..1 - 1 = {}
    OBVIOUS
  <2>. QED
    BY <2>3, <2>4 DEF FollowsAt, Aware
<1>. QED
  BY <1>1, <1>2, FollowStep, PTL DEF HostSpec

-----------------------------------------------------------------------------
(* The wait after a failed session.                                        *)

\* One more failure doubles the power: a set of one more member has twice as
\* many subsets.
LEMMA Powers ==
  ASSUME NEW n \in Nat
  PROVE  2^n \in Nat /\ 2^(n + 1) = 2 * 2^n
<1> DEFINE S == 1..n
           T == 1..(n + 1)
           A == SUBSET S
           B == (SUBSET T) \ A
           f == [X \in A |-> X \cup {n + 1}]
<1>1. /\ IsFiniteSet(S) /\ Cardinality(S) = n
      /\ IsFiniteSet(T) /\ Cardinality(T) = n + 1
  BY FS_Interval
<1>2. /\ IsFiniteSet(A) /\ Cardinality(A) = 2^n
      /\ IsFiniteSet(SUBSET T) /\ Cardinality(SUBSET T) = 2^(n + 1)
  BY <1>1, FS_SUBSET
<1>3. T = S \cup {n + 1} /\ n + 1 \notin S
  OBVIOUS
<1>4. f \in [A -> B]
  BY <1>3
<1>5. \A X, Y \in A : f[X] = f[Y] => X = Y
  BY <1>3
<1>6. ASSUME NEW Y \in B PROVE \E X \in A : f[X] = Y
  <2>1. Y \ {n + 1} \in A /\ n + 1 \in Y
    BY <1>3
  <2>2. (Y \ {n + 1}) \cup {n + 1} = Y
    BY <2>1
  <2>. QED
    BY <2>1, <2>2
<1>7. f \in Bijection(A, B)
  <2> HIDE DEF A, B, f
  <2>. QED
    BY <1>4, <1>5, <1>6 DEF Bijection, Injection, Surjection, IsInjective
<1>8. ExistsBijection(A, B)
  <2> HIDE DEF f, A, B
  <2>. QED
    BY <1>7 DEF ExistsBijection
<1>9. IsFiniteSet(B) /\ Cardinality(B) = Cardinality(A)
  <2> HIDE DEF A, B
  <2>. QED
    BY <1>2, <1>8, FS_Bijection
<1>10. SUBSET T = A \cup B /\ A \cap B = {}
  BY <1>3
<1>11. Cardinality(A \cap B) = 0
  BY <1>10, FS_EmptySet
<1>12. Cardinality(SUBSET T) = Cardinality(A) + Cardinality(B)
  <2> HIDE DEF A, B, T, f
  <2>1. Cardinality(A \cup B) = Cardinality(A) + Cardinality(B) - Cardinality(A \cap B)
    BY <1>2, <1>9, FS_Union
  <2>2. Cardinality(A) \in Nat /\ Cardinality(B) \in Nat
    BY <1>2, <1>9, FS_CardinalityType
  <2>3. Cardinality(SUBSET T) = Cardinality(A \cup B)
    BY <1>10, Zenon
  <2>. QED
    BY <1>11, <2>1, <2>2, <2>3
<1>13. Cardinality(A) \in Nat
  BY <1>2, FS_CardinalityType
<1> HIDE DEF A, B, S, T
<1>14. 2^(n + 1) = 2^n + 2^n
  BY <1>2, <1>9, <1>12
<1>15. PICK p \in Nat : p = 2^n
  BY <1>2, <1>13
<1>. QED
  BY <1>14, <1>15

DelayAfter(n) == Smaller(InitialDelay * 2^n, MaximumDelay)

\* A delay once doubled is the delay of one failure more, up to the limit.
LEMMA DelayDoubles ==
  ASSUME NEW n \in Nat
  PROVE  /\ DelayAfter(n) \in Nat
         /\ Smaller(2 * DelayAfter(n), MaximumDelay) = DelayAfter(n + 1)
<1>1. PICK p \in Nat : p = 2^n /\ 2^(n + 1) = 2 * p
  BY Powers
<1>2. PICK d \in Nat : d = InitialDelay * p
  BY HostAssumption
<1>3. InitialDelay * 2^(n + 1) = 2 * d
  <2>1. InitialDelay * (2 * p) = 2 * (InitialDelay * p)
    BY HostAssumption
  <2>. QED
    BY <1>1, <1>2, <2>1
<1>4. DelayAfter(n) = Smaller(d, MaximumDelay) /\ DelayAfter(n + 1) = Smaller(2 * d, MaximumDelay)
  BY <1>1, <1>2, <1>3 DEF DelayAfter
<1>. QED
  BY <1>2, <1>4, HostAssumption DEF Smaller

\* After so many failures the delay has reached its limit and stays there.
LEMMA DelayLimited == DelayAfter(ManyFailures) = MaximumDelay
<1>1. PICK p \in Nat : p = 2^ManyFailures
  BY Powers, HostAssumption
<1>2. InitialDelay * p \in Nat /\ InitialDelay * p >= MaximumDelay
  BY <1>1, HostAssumption
<1>. QED
  BY <1>1, <1>2, HostAssumption DEF DelayAfter, Smaller

\* Only the sleep of the session loop has time left to sleep.
WaitInv ==
  /\ failures \in 0..ManyFailures
  /\ backoff = DelayAfter(failures)
  /\ finishLeft \in Nat \cup {None}
  /\ sleepLeft \in Nat
  /\ finishLeft # None => sleepLeft <= finishLeft
  /\ sleepLeft # 0 => Doing("sleep")

LEMMA NoFailure == InitialDelay = DelayAfter(0)
<1>1. 2^0 = 1
  BY SMT
<1>. QED
  BY <1>1, HostAssumption DEF DelayAfter, Smaller

LEMMA ErrorWaits ==
  ASSUME WaitInv, running, sleepLeft = 0, Error
  PROVE  WaitInv'
<1>1. CASE ~InSession
  BY <1>1 DEF Error, WaitInv, loopVars, Doing
<1>2. CASE InSession
  <2> USE <1>2 DEF Error, SessionFails
  <2>1. failures \in Nat /\ DelayAfter(failures) \in Nat
    BY DelayDoubles, HostAssumption DEF WaitInv
  <2>2. /\ failures' \in 0..ManyFailures
        /\ backoff' = DelayAfter(failures')
    <3>1. CASE failures = ManyFailures
      <4>1. failures' = ManyFailures
        BY <2>1, <3>1, HostAssumption DEF Smaller
      <4>2. backoff = MaximumDelay
        BY <3>1, DelayLimited DEF WaitInv
      <4>3. backoff' = MaximumDelay
        BY <4>2, HostAssumption DEF NextBackoff, Smaller
      <4>. QED
        BY <4>1, <4>3, DelayLimited, HostAssumption
    <3>2. CASE failures # ManyFailures
      <4>1. failures' = failures + 1 /\ failures + 1 \in 0..ManyFailures
        BY <2>1, <3>2, HostAssumption DEF Smaller, WaitInv
      <4>2. backoff' = DelayAfter(failures + 1)
        BY <2>1, DelayDoubles DEF NextBackoff, WaitInv
      <4>. QED
        BY <4>1, <4>2
    <3>. QED
      BY <3>1, <3>2
  <2>3. /\ sleepLeft' = Smaller(backoff, Remaining(backoff)) /\ backoff \in Nat
        /\ finishLeft' = finishLeft
        /\ todo' = IF Remaining(backoff) = 0 THEN <<>> ELSE <<"sleep", "loop">>
    BY <2>1 DEF WaitInv
  <2>4. /\ Remaining(backoff) \in Nat
        /\ finishLeft # None => Remaining(backoff) = finishLeft
    BY <2>3 DEF WaitInv, Remaining
  <2>5. sleepLeft' \in Nat /\ sleepLeft' <= Remaining(backoff)
    BY <2>3, <2>4 DEF Smaller
  <2>6. sleepLeft' # 0 => Doing("sleep")'
    BY <2>3, <2>4, <2>5 DEF Doing
  <2>. QED
    BY <2>2, <2>3, <2>4, <2>5, <2>6 DEF WaitInv
<1>. QED
  BY <1>1, <1>2

\* Whatever is done but sleeping finds no time left to sleep.
LEMMA AwakeWithoutWait ==
  ASSUME WaitInv, NEW op, Doing(op), op # "sleep"
  PROVE  sleepLeft = 0
  BY DEF WaitInv, Doing

LEMMA WaitStep == WaitInv /\ [HostNext]_hostVars => WaitInv'
<1> SUFFICES ASSUME WaitInv, [HostNext]_hostVars PROVE WaitInv'
  OBVIOUS
<1>1. ASSUME sleepLeft = 0, UNCHANGED loopVars PROVE WaitInv'
  BY <1>1 DEF WaitInv, loopVars
<1>2. ASSUME UNCHANGED <<loopVars, todo, running>> PROVE WaitInv'
  BY <1>2 DEF WaitInv, loopVars, Doing
<1>3. CASE PlainSucceeds
  BY <1>1, <1>3, AwakeWithoutWait DEF PlainSucceeds, Plain
<1>4. CASE OpenMutex \/ BecomeResident \/ AlreadyRunning \/ Install \/ Subscribe
  BY <1>1, <1>4, AwakeWithoutWait
  DEF OpenMutex, BecomeResident, AlreadyRunning, Install, Subscribe
<1>5. CASE SetClock
  <2>1. sleepLeft = 0
    BY <1>5, AwakeWithoutWait DEF SetClock
  <2>2. /\ finishLeft' = Duration /\ Duration \in Nat
        /\ UNCHANGED <<backoff, failures, sleepLeft>>
    BY <1>5, HostAssumption DEF SetClock
  <2>. QED
    BY <2>1, <2>2 DEF WaitInv
<1>6. CASE StartReading
  BY <1>2, <1>6 DEF StartReading, processVars
<1>7. CASE FinishReading
  <2>1. CASE Doing("read") \/ Doing("capture")
    BY <1>1, <1>7, <2>1, AwakeWithoutWait DEF FinishReading
  <2>2. CASE ~(Doing("read") \/ Doing("capture"))
    BY <1>2, <1>7, <2>2 DEF FinishReading
  <2>. QED
    BY <2>1, <2>2
<1>8. CASE FailsByChance
  <2>1. Head(todo) # "sleep" /\ todo # <<>>
    BY <1>8 DEF FailsByChance, Fallible, SessionCalls, Session, Plain
  <2>2. sleepLeft = 0
    BY <2>1 DEF WaitInv, Doing
  <2>. QED
    BY <1>8, <2>2, ErrorWaits DEF FailsByChance
<1>9. CASE Find
  <2>1. sleepLeft = 0 /\ running
    <3>1. \E op : Doing(op) /\ op # "sleep"
      BY <1>9 DEF Find
    <3>. QED
      BY <3>1, AwakeWithoutWait DEF Doing
  <2>. QED
    BY <1>1, <1>9, <2>1, ErrorWaits DEF Find
<1>10. CASE Send
  <2>1. sleepLeft = 0
    BY <1>10, AwakeWithoutWait DEF Send
  <2>2. backoff' = DelayAfter(0) /\ failures' = 0 /\ UNCHANGED <<sleepLeft, finishLeft>>
    BY <1>10, NoFailure DEF Send
  <2>. QED
    BY <2>1, <2>2, HostAssumption DEF WaitInv
<1>11. CASE Loop
  BY <1>1, <1>11, AwakeWithoutWait DEF Loop
<1>12. CASE Poll
  BY <1>1, <1>12, AwakeWithoutWait DEF Poll
<1>13. CASE Wake
  BY <1>13 DEF Wake, WaitInv, None, Doing
<1>14. CASE Exit \/ Killed
  <2>1. backoff' = DelayAfter(0) /\ failures' = 0 /\ sleepLeft' = 0 /\ finishLeft' = None
    BY <1>14, NoFailure DEF Exit, Killed, Ends
  <2>. QED
    BY <2>1, HostAssumption DEF WaitInv
<1>15. CASE Tick
  <2>1. /\ sleepLeft' = Earlier(sleepLeft) /\ finishLeft' = Earlier(finishLeft)
        /\ UNCHANGED <<backoff, failures, todo, running>>
    BY <1>15 DEF Tick, processVars
  <2>2. /\ Earlier(sleepLeft) \in Nat /\ Earlier(finishLeft) \in Nat \cup {None}
        /\ Earlier(finishLeft) # None =>
             finishLeft # None /\ Earlier(sleepLeft) <= Earlier(finishLeft)
        /\ Earlier(sleepLeft) # 0 => sleepLeft # 0
    BY DEF WaitInv, Earlier, None
  <2>. QED
    BY <2>1, <2>2 DEF WaitInv, Doing
<1>16. CASE Audio
  BY <1>2, <1>16 DEF Audio, processVars
<1>17. CASE Start
  <2>1. sleepLeft = 0
    BY <1>17 DEF WaitInv, Doing, Start
  <2>. QED
    BY <1>1, <1>17, <2>1 DEF Start
<1>18. CASE ConsoleEvent
  BY <1>2, <1>18 DEF ConsoleEvent, processVars
<1>19. CASE \E i \in Instances \ {Me} : OtherInstance(i)
  BY <1>2, <1>19 DEF OtherInstance, processVars
<1>20. CASE UNCHANGED hostVars
  BY <1>2, <1>20 DEF hostVars, processVars
<1>. QED
  BY <1>3, <1>4, <1>5, <1>6, <1>7, <1>8, <1>9, <1>10, <1>11, <1>12, <1>13, <1>14, <1>15,
     <1>16, <1>17, <1>18, <1>19, <1>20 DEF HostNext, Work

\* However many sessions fail in a row, the wait before the next one is what the
\* failures since the last established session ask for (ReconnectBackoff), and
\* never longer than the time the program was given, for any delays.
THEOREM WaitsAreRight == HostSpec => []WaitFollowsFailures
<1>1. HostInit => WaitInv
  BY NoFailure, HostAssumption DEF HostInit, WaitInv
<1>2. WaitInv => WaitFollowsFailures
  BY DEF WaitInv, WaitFollowsFailures, DelayAfter
<1>. QED
  BY <1>1, <1>2, WaitStep, PTL DEF HostSpec
=============================================================================
