-------------------------- MODULE KeepAliveProofs --------------------------
(***************************************************************************)
(* A PONG completes only the PING it answers, for any deadlines, any cut   *)
(* of the frames and any number of tokens that tells three PINGs apart.    *)
(***************************************************************************)
EXTENDS KeepAlive, FiniteSetTheorems, TLAPS

Previous == (token + TokenCount - 1) % TokenCount

\* A PONG whose last piece is at i.
PongAt(i) == i \in DOMAIN toHost /\ toHost[i].last /\ toHost[i].frame.type = "PONG"

\* Of the PINGs of a wait, those not answered yet are with the device, in
\* order, and the answers to the others are on their way, in order; between two
\* waits there is neither.
PongInv ==
  /\ token \in Tokens
  /\ toHost \in Seq(Piece)
  /\ toDevice \in {<<>>, <<token>>, <<Previous, token>>}
  /\ \A i : PongAt(i) => toHost[i].frame.token \in {Previous, token}
  /\ \A i, j : PongAt(i) /\ toHost[i].frame.token = token /\ PongAt(j) => j <= i
  /\ \A i : PongAt(i) /\ toHost[i].frame.token = token => toDevice = <<>>
  /\ toDevice = <<Previous, token>> => \A i : ~PongAt(i)
  /\ pc = "poll" => toDevice = <<>> /\ \A i : ~PongAt(i)
  /\ pc = "wait" => attempt \in 1..AttemptLimit
  /\ (pc = "wait" /\ attempt < AttemptLimit) =>
       /\ toDevice # <<Previous, token>>
       /\ \A i : PongAt(i) => toHost[i].frame.token = token

LEMMA AppendToOne ==
  ASSUME NEW S, NEW a \in S, NEW b \in S
  PROVE  Append(<<a>>, b) = <<a, b>>
<1> DEFINE s == Append(<<a>>, b)
           t == <<a, b>>
<1>1. s \in Seq(S) /\ t \in Seq(S) /\ Len(s) = 2 /\ Len(t) = 2
  OBVIOUS
<1>2. s[1] = a /\ s[2] = b /\ t[1] = a /\ t[2] = b
  OBVIOUS
<1> HIDE DEF s, t
<1>3. \A i \in 1..Len(s) : s[i] = t[i]
  BY <1>1, <1>2
<1>4. s = t
  BY <1>1, <1>3
<1>. QED
  BY <1>4 DEF s, t

LEMMA TokensDiffer ==
  ASSUME NEW t \in Tokens
  PROVE  /\ (t + 1) % TokenCount \in Tokens
         /\ (((t + 1) % TokenCount) + TokenCount - 1) % TokenCount = t
         /\ (t + 1) % TokenCount # t
         /\ (t + TokenCount - 1) % TokenCount # t
         /\ (t + TokenCount - 1) % TokenCount \in Tokens
<1>1. TokenCount \in Nat /\ TokenCount > 2 /\ t \in 0..(TokenCount - 1)
  BY KeepAliveAssumption DEF Tokens
<1>2. (t + 1) % TokenCount = IF t + 1 = TokenCount THEN 0 ELSE t + 1
  BY <1>1, SMT
<1>3. \A u \in 0..(TokenCount - 1) :
        (u + TokenCount - 1) % TokenCount = IF u = 0 THEN TokenCount - 1 ELSE u - 1
  BY <1>1, SMT
<1>. QED
  BY <1>1, <1>2, <1>3 DEF Tokens

\* What is left after a read is where it was, n places earlier.
LEMMA LeftAfterRead ==
  ASSUME PongInv, NEW n, Read(n)
  PROVE  /\ n \in Nat \ {0} /\ toHost' \in Seq(Piece)
         /\ \A i \in DOMAIN toHost' : /\ i \in Nat \ {0} /\ i + n \in DOMAIN toHost
                                      /\ i + n > n
                                      /\ toHost'[i] = toHost[i + n]
<1>1. toHost \in Seq(Piece) /\ n \in 1..Len(toHost)
      /\ toHost' = SubSeq(toHost, n + 1, Len(toHost))
  BY DEF PongInv, Read
<1>. QED
  BY <1>1

\* A read leaves the order as it is; one that had the awaited PONG leaves no
\* other.
LEMMA ReadKeeps ==
  ASSUME PongInv, NEW n, Read(n), UNCHANGED token
  PROVE  /\ toHost' \in Seq(Piece)
         /\ \A i : PongAt(i)' => /\ PongAt(i + n) /\ i \in Nat /\ n \in Nat
                                 /\ toHost'[i] = toHost[i + n]
         /\ PongReceived(n) => toDevice = <<>> /\ \A i : ~(PongAt(i)')
<1>1. /\ n \in Nat \ {0} /\ toHost' \in Seq(Piece)
      /\ \A i \in DOMAIN toHost' : /\ i \in Nat \ {0} /\ i + n \in DOMAIN toHost
                                   /\ i + n > n
                                   /\ toHost'[i] = toHost[i + n]
  BY LeftAfterRead
<1>2. \A i : PongAt(i)' => /\ PongAt(i + n) /\ i \in Nat /\ n \in Nat
                           /\ toHost'[i] = toHost[i + n] /\ i + n > n
  BY <1>1 DEF PongAt
<1>3. ASSUME PongReceived(n)
      PROVE  toDevice = <<>> /\ \A i : ~(PongAt(i)')
  <2>1. PICK k \in 1..n : PongAt(k) /\ toHost[k].frame.token = token
    <3>1. n \in 1..Len(toHost) /\ toHost \in Seq(Piece)
      BY DEF Read, PongInv
    <3>. QED
      BY <1>3, <3>1 DEF PongReceived, Messages, IsPong, PongAt
  <2>2. \A j : PongAt(j) => j <= k
    BY <2>1 DEF PongInv
  <2>3. \A i : ~(PongAt(i)')
    BY <1>1, <1>2, <2>1, <2>2
  <2>. QED
    BY <2>1, <2>3 DEF PongInv
<1>. QED
  BY <1>1, <1>2, <1>3

\* After a read that does not end the wait, or none, a new PING may follow.
LEMMA PingKeeps ==
  ASSUME PongInv, NEW n, SendPing(n),
         UNCHANGED toHost \/ \E m : Read(m),
         \/ pc = "poll" /\ n = 1
         \/ pc = "wait" /\ attempt < AttemptLimit /\ n = attempt + 1
  PROVE  PongInv'
<1>1. token' = (token + 1) % TokenCount /\ Previous' = token /\ token' \in Tokens
      /\ token' # token /\ Previous # token
  BY TokensDiffer DEF PongInv, SendPing, Previous
<1>2. \A i : PongAt(i) => toHost[i].frame.token = token
  BY DEF PongInv
<1>3. /\ toHost' \in Seq(Piece)
      /\ \A i : PongAt(i)' => \E j : PongAt(j) /\ toHost'[i] = toHost[j]
  <2>1. CASE UNCHANGED toHost
    BY <2>1 DEF PongInv, PongAt
  <2>2. CASE \E m : Read(m)
    <3>1. PICK m : Read(m)
      BY <2>2
    <3>2. /\ toHost' \in Seq(Piece)
          /\ \A i \in DOMAIN toHost' : i + m \in DOMAIN toHost /\ toHost'[i] = toHost[i + m]
      BY <3>1, LeftAfterRead
    <3>. QED
      BY <3>2 DEF PongAt
  <2>. QED
    BY <2>1, <2>2
<1>4. \A i : PongAt(i)' => toHost'[i].frame.token = token
  BY <1>2, <1>3
<1>5. toDevice' = Append(toDevice, token') /\ toDevice \in {<<>>, <<token>>}
  BY <1>1 DEF SendPing, PongInv
<1>6. toDevice' \in {<<token'>>, <<Previous', token'>>}
  <2>1. Append(<<>>, token') = <<token'>>
    OBVIOUS
  <2>2. Append(<<token>>, token') = <<token, token'>>
    BY <1>1, AppendToOne DEF PongInv
  <2>. QED
    BY <1>1, <1>5, <2>1, <2>2
<1>7. toDevice' = <<Previous', token'>> => \A i : ~(PongAt(i)')
  <2>1. toDevice = <<>> => toDevice' = <<token'>>
    BY <1>5
  <2>2. <<token'>> # <<Previous', token'>>
    OBVIOUS
  <2>3. toDevice = <<token>> => \A i : ~PongAt(i)
    BY <1>2 DEF PongInv
  <2>. QED
    BY <1>3, <1>5, <2>1, <2>2, <2>3
<1>8. pc' = "wait" /\ attempt' = n
  BY DEF SendPing
<1>9. (pc' = "wait" /\ attempt' < AttemptLimit) =>
        /\ toDevice' # <<Previous', token'>>
        /\ \A i : PongAt(i)' => toHost'[i].frame.token = token'
  <2>1. CASE pc = "poll"
    <3>1. toDevice = <<>> /\ \A i : ~PongAt(i)
      BY <2>1 DEF PongInv
    <3>2. toDevice' = <<token'>> /\ <<token'>> # <<Previous', token'>>
      BY <1>5, <3>1
    <3>. QED
      BY <1>3, <3>1, <3>2
  <2>2. CASE pc = "wait" /\ attempt < AttemptLimit /\ n = attempt + 1
    BY <1>8, <2>2 DEF PongInv, AttemptLimit
  <2>. QED
    BY <2>1, <2>2
<1>10. attempt' \in 1..AttemptLimit
  BY <1>8 DEF PongInv, AttemptLimit
<1>. QED
  BY <1>1, <1>3, <1>4, <1>6, <1>7, <1>8, <1>9, <1>10 DEF PongInv

\* Of a read only the frames matter, not when it happens.
LEMMA StayWaiting ==
  ASSUME PongInv, NEW n, Read(n) \/ UNCHANGED toHost,
         UNCHANGED <<token, toDevice, attempt>>, pc' \in {pc, "closed"}
  PROVE  PongInv'
<1>1. /\ toHost' \in Seq(Piece)
      /\ \E m \in Nat : \A i : PongAt(i)' => /\ PongAt(i + m) /\ i \in Int
                                             /\ toHost'[i] = toHost[i + m]
  <2>1. CASE Read(n)
    <3>1. n \in Nat /\ toHost' \in Seq(Piece)
      BY <2>1, LeftAfterRead
    <3>2. token' = token
      OBVIOUS
    <3>3. \A i : PongAt(i)' => PongAt(i + n) /\ i \in Int /\ toHost'[i] = toHost[i + n]
      BY <2>1, <3>2, ReadKeeps
    <3>. QED
      BY <3>1, <3>3
  <2>2. CASE UNCHANGED toHost
    <3>1. \A i : PongAt(i)' => PongAt(i) /\ i \in Int /\ i + 0 = i
      BY <2>2 DEF PongAt, PongInv
    <3>. QED
      BY <2>2, <3>1 DEF PongInv
  <2>. QED
    BY <2>1, <2>2
<1>2. PICK m \in Nat : \A i : PongAt(i)' => /\ PongAt(i + m) /\ i \in Int
                                            /\ toHost'[i] = toHost[i + m]
  BY <1>1
<1>3. token' = token /\ toDevice' = toDevice /\ attempt' = attempt /\ Previous' = Previous
  BY DEF Previous
<1>4. \A i : PongAt(i)' => toHost'[i].frame.token \in {Previous, token}
  BY <1>2 DEF PongInv
<1>5. \A i, j : PongAt(i)' /\ toHost'[i].frame.token = token /\ PongAt(j)' => j <= i
  <2> SUFFICES ASSUME NEW i, NEW j, PongAt(i)', toHost'[i].frame.token = token, PongAt(j)'
               PROVE  j <= i
    OBVIOUS
  <2>1. j + m <= i + m /\ i \in Int /\ j \in Int
    BY <1>2 DEF PongInv
  <2>. QED
    BY <2>1
<1>6. \A i : PongAt(i)' /\ toHost'[i].frame.token = token => toDevice = <<>>
  BY <1>2 DEF PongInv
<1>7. toDevice = <<Previous, token>> => \A i : ~(PongAt(i)')
  BY <1>2 DEF PongInv
<1>8. pc' = "poll" => toDevice = <<>> /\ \A i : ~(PongAt(i)')
  BY <1>2 DEF PongInv
<1>9. pc' = "wait" => attempt \in 1..AttemptLimit
  BY DEF PongInv
<1>10. (pc' = "wait" /\ attempt < AttemptLimit) =>
         /\ toDevice # <<Previous, token>>
         /\ \A i : PongAt(i)' => toHost'[i].frame.token = token
  BY <1>2 DEF PongInv
<1>. QED
  BY <1>1, <1>3, <1>4, <1>5, <1>6, <1>7, <1>8, <1>9, <1>10 DEF PongInv

\* Polling goes on with the PONG received, or while nothing is owed.
LEMMA BackToPolling ==
  ASSUME PongInv, NEW n, Read(n), KeepPolling, pc = "poll" \/ PongReceived(n)
  PROVE  PongInv' /\ toDevice = <<>>
<1>1. token' = token /\ toDevice' = toDevice /\ Previous' = Previous /\ pc' = "poll"
  BY DEF KeepPolling, Previous
<1>2. toHost' \in Seq(Piece) /\ toDevice = <<>> /\ \A i : ~(PongAt(i)')
  BY <1>1, ReadKeeps DEF PongInv
<1>. QED
  BY <1>1, <1>2 DEF PongInv

\* What the device writes comes after everything else.
LEMMA TwoMore ==
  ASSUME NEW S, NEW s \in Seq(S), NEW a \in S, NEW b \in S
  PROVE  /\ s \o <<a, b>> \in Seq(S) /\ Len(s \o <<a, b>>) = Len(s) + 2
         /\ \A i \in 1..Len(s) : (s \o <<a, b>>)[i] = s[i]
         /\ (s \o <<a, b>>)[Len(s) + 1] = a
         /\ (s \o <<a, b>>)[Len(s) + 2] = b
OBVIOUS

LEMMA WriteKeeps ==
  ASSUME PongInv, NEW f \in Frame, Write(f)
  PROVE  /\ toHost' \in Seq(Piece)
         /\ \A i : PongAt(i)' => \/ PongAt(i) /\ toHost'[i] = toHost[i] /\ i < Len(toHost) + 2
                                 \/ /\ i = Len(toHost) + 2
                                    /\ toHost'[i].frame = f /\ f.type = "PONG"
<1> DEFINE first == [frame |-> f, last |-> FALSE]
           last == [frame |-> f, last |-> TRUE]
<1>1. toHost \in Seq(Piece) /\ first \in Piece /\ last \in Piece /\ Len(toHost) \in Nat
  BY DEF PongInv, Piece
<1>2. /\ toHost' \in Seq(Piece) /\ Len(toHost') = Len(toHost) + 2
      /\ \A i \in 1..Len(toHost) : toHost'[i] = toHost[i]
      /\ toHost'[Len(toHost) + 1] = first
      /\ toHost'[Len(toHost) + 2] = last
  <2>1. toHost' = toHost \o <<first, last>>
    BY DEF Write, Pieces
  <2> HIDE DEF first, last
  <2>. QED
    BY <1>1, <2>1, TwoMore
<1>3. ~first.last /\ last.frame = f
  OBVIOUS
<1>4. \A i \in DOMAIN toHost' : i \in 1..Len(toHost) \/ i = Len(toHost) + 1 \/ i = Len(toHost) + 2
  BY <1>1, <1>2
<1>. QED
  BY <1>1, <1>2, <1>3, <1>4 DEF PongAt

LEMMA AnswerKeeps ==
  ASSUME PongInv, Answer
  PROVE  PongInv'
<1> DEFINE pong == [type |-> "PONG", token |-> Head(toDevice)]
<1>1. /\ toDevice # <<>> /\ Write(pong) /\ toDevice' = Tail(toDevice)
      /\ UNCHANGED <<pc, token, attempt>> /\ Previous' = Previous
  BY DEF Answer, Previous
<1>2. Previous \in Tokens /\ Previous # token /\ token \in Tokens
  BY TokensDiffer DEF PongInv, Previous
<1>3. \/ toDevice = <<token>> /\ Head(toDevice) = token /\ toDevice' = <<>>
      \/ /\ toDevice = <<Previous, token>> /\ Head(toDevice) = Previous
         /\ toDevice' = <<token>>
  <2>1. CASE toDevice = <<token>>
    BY <1>1, <2>1
  <2>2. CASE toDevice = <<Previous, token>>
    BY <1>1, <2>2
  <2>. QED
    BY <1>1, <2>1, <2>2 DEF PongInv
<1>4. pong \in Frame /\ pong.token = Head(toDevice)
  BY <1>2, <1>3 DEF Frame
<1> HIDE DEF pong
<1>5. /\ toHost' \in Seq(Piece) /\ Len(toHost) \in Nat
      /\ \A i : PongAt(i)' => \/ PongAt(i) /\ toHost'[i] = toHost[i] /\ i < Len(toHost) + 2
                              \/ i = Len(toHost) + 2 /\ toHost'[i].frame = pong
  BY <1>1, <1>4, WriteKeeps DEF PongInv
<1>6. \A i : PongAt(i) => i \in 1..Len(toHost) /\ toHost[i].frame.token # token
  BY <1>1 DEF PongInv, PongAt
<1>7. \A i : PongAt(i)' => toHost'[i].frame.token \in {Previous, token}
  BY <1>3, <1>4, <1>5 DEF PongInv
<1>8. \A i, j : PongAt(i)' /\ toHost'[i].frame.token = token /\ PongAt(j)' => j <= i
  BY <1>5, <1>6
<1>9. \A i : PongAt(i)' /\ toHost'[i].frame.token = token => toDevice' = <<>>
  BY <1>2, <1>3, <1>4, <1>5, <1>6
<1>10. pc # "poll"
  BY <1>1 DEF PongInv
<1>11. /\ toDevice' \in {<<>>, <<token>>} /\ <<>> # <<Previous, token>>
       /\ <<token>> # <<Previous, token>>
  BY <1>3
<1>12. (pc = "wait" /\ attempt < AttemptLimit) =>
         \A i : PongAt(i)' => toHost'[i].frame.token = token
  BY <1>3, <1>4, <1>5 DEF PongInv
<1>. QED
  BY <1>1, <1>5, <1>7, <1>8, <1>9, <1>10, <1>11, <1>12 DEF PongInv

LEMMA RequestKeeps ==
  ASSUME PongInv, Request
  PROVE  PongInv'
<1>1. [type |-> "SET_REQ"] \in Frame /\ Write([type |-> "SET_REQ"])
      /\ UNCHANGED <<pc, token, attempt, toDevice>> /\ Previous' = Previous
  BY DEF Frame, Request, Previous
<1>2. /\ toHost' \in Seq(Piece)
      /\ \A i : PongAt(i)' => PongAt(i) /\ toHost'[i] = toHost[i]
  BY <1>1, WriteKeeps
<1>3. \A i, j : PongAt(i)' /\ toHost'[i].frame.token = token /\ PongAt(j)' => j <= i
  BY <1>2 DEF PongInv
<1>. QED
  BY <1>1, <1>2, <1>3 DEF PongInv

\* The PONG that ends a wait finds no unanswered PING.
LEMMA PongStep == PongInv /\ [KeepAliveNext]_keepAliveVars =>
  /\ PongInv'
  /\ pc = "wait" /\ pc' = "poll" => toDevice = <<>>
<1> SUFFICES ASSUME PongInv, [KeepAliveNext]_keepAliveVars
             PROVE  PongInv' /\ (pc = "wait" /\ pc' = "poll" => toDevice = <<>>)
  OBVIOUS
<1>1. CASE PollNothing
  BY <1>1, PingKeeps DEF PollNothing, SendPing
<1>2. CASE PollPart
  BY <1>2, StayWaiting DEF PollPart
<1>3. CASE PollMessages
  BY <1>3, BackToPolling DEF PollMessages
<1>4. CASE WaitTimesOut \/ WaitBroken
  <2>1. /\ pc = "wait" /\ WaitGivenUp
        /\ UNCHANGED toHost \/ \E n : Read(n)
    BY <1>4 DEF WaitTimesOut, WaitBroken
  <2>2. CASE attempt < AttemptLimit /\ SendPing(attempt + 1)
    BY <2>1, <2>2, PingKeeps DEF SendPing
  <2>3. CASE pc' = "closed" /\ UNCHANGED <<token, attempt, toDevice>>
    BY <2>1, <2>3, StayWaiting
  <2>. QED
    BY <2>1, <2>2, <2>3 DEF WaitGivenUp
<1>5. CASE WaitMessages
  <2>1. PICK n : /\ Read(n) /\ pc = "wait"
                 /\ \/ PongReceived(n) /\ KeepPolling
                    \/ UNCHANGED <<pc, token, attempt, toDevice>>
    BY <1>5 DEF WaitMessages
  <2>2. CASE PongReceived(n) /\ KeepPolling
    BY <2>1, <2>2, BackToPolling
  <2>3. CASE UNCHANGED <<pc, token, attempt, toDevice>>
    BY <2>1, <2>3, StayWaiting
  <2>. QED
    BY <2>1, <2>2, <2>3
<1>6. CASE Answer
  BY <1>6, AnswerKeeps DEF Answer
<1>7. CASE Request
  BY <1>7, RequestKeeps DEF Request
<1>8. CASE GoSilent \/ Tick \/ UNCHANGED keepAliveVars
  BY <1>8, StayWaiting DEF GoSilent, Tick, keepAliveVars
<1>. QED
  BY <1>1, <1>2, <1>3, <1>4, <1>5, <1>6, <1>7, <1>8 DEF KeepAliveNext, HostStep

LEMMA PongInitially == KeepAliveInit => PongInv
<1> SUFFICES ASSUME KeepAliveInit PROVE PongInv
  OBVIOUS
<1>1. 0 \in Tokens
  BY KeepAliveAssumption DEF Tokens
<1>2. toHost \in Seq(Piece) /\ \A i : ~PongAt(i)
  BY DEF KeepAliveInit, PongAt
<1>. QED
  BY <1>1, <1>2 DEF KeepAliveInit, PongInv

\* The wait of run_spp_session ends well only when the device has answered
\* the PING of this attempt, and every one before it.
THEOREM PongsAnswerTheirPing == KeepAliveSpec => PongAnswersThisPing
<1>1. PongInv /\ [KeepAliveNext]_keepAliveVars =>
        [(pc = "wait" /\ pc' = "poll") =>
           \A i \in DOMAIN toDevice : toDevice[i] # token]_keepAliveVars
  BY PongStep
<1>. QED
  BY <1>1, PongInitially, PongStep, PTL DEF KeepAliveSpec, PongAnswersThisPing

-----------------------------------------------------------------------------
(* No request is lost or processed twice.                                  *)

\* The set requests not read yet, by their last piece.
Unread == {i \in DOMAIN toHost : toHost[i].last /\ IsRequest(i)}

RequestInv ==
  /\ toHost \in Seq(Piece)
  /\ requested \in Nat /\ handled \in Nat
  /\ RequestsSurviveTheWait

LEMMA UnreadFinite ==
  ASSUME toHost \in Seq(Piece)
  PROVE  IsFiniteSet(Unread) /\ Cardinality(Unread) \in Nat /\ Unread \subseteq 1..Len(toHost)
<1>1. Unread \in SUBSET (1..Len(toHost)) /\ Len(toHost) \in Nat
  BY DEF Unread
<1>2. IsFiniteSet(1..Len(toHost))
  BY <1>1, FS_Interval
<1>3. IsFiniteSet(Unread)
  BY <1>1, <1>2, FS_Subset
<1>. QED
  BY <1>1, <1>3, FS_CardinalityType

\* Moving the members of a set by the same distance changes nothing of its size.
LEMMA Moved ==
  ASSUME NEW S, IsFiniteSet(S), S \subseteq Nat, NEW n \in Nat,
         NEW T, T \subseteq Nat, \A i \in Nat : i \in T <=> i + n \in S,
         \A j \in S : j >= n
  PROVE  IsFiniteSet(T) /\ Cardinality(T) = Cardinality(S)
<1> DEFINE f == [j \in S |-> j - n]
<1>1. f \in [S -> T]
  <2>1. \A j \in S : j - n \in Nat /\ (j - n) + n = j
    OBVIOUS
  <2>. QED
    BY <2>1
<1>2. \A i, j \in S : f[i] = f[j] => i = j
  OBVIOUS
<1>3. \A i \in T : \E j \in S : f[j] = i
  <2> TAKE i \in T
  <2>1. i \in Nat /\ i + n \in S /\ f[i + n] = i
    OBVIOUS
  <2>. QED
    BY <2>1
<1>4. f \in Bijection(S, T)
  <2> HIDE DEF f
  <2>1. f \in Injection(S, T)
    BY <1>1, <1>2 DEF Injection, IsInjective
  <2>2. f \in Surjection(S, T)
    BY <1>1, <1>3 DEF Surjection
  <2>. QED
    BY <2>1, <2>2 DEF Bijection
<1>5. ExistsBijection(S, T)
  BY <1>4 DEF ExistsBijection
<1>. QED
  BY <1>5, FS_Bijection

\* What a read processes is what it takes from the unread ones.
LEMMA ReadCounts ==
  ASSUME RequestInv, NEW n, Read(n)
  PROVE  /\ toHost' \in Seq(Piece) /\ handled' \in Nat
         /\ handled' + Cardinality(Unread') = handled + Cardinality(Unread)
<1>1. /\ toHost \in Seq(Piece) /\ n \in 1..Len(toHost) /\ Len(toHost) \in Nat
      /\ toHost' = SubSeq(toHost, n + 1, Len(toHost))
      /\ handled' = handled + Cardinality(Requests(n)) /\ handled \in Nat
  BY DEF RequestInv, Read
<1>2. /\ toHost' \in Seq(Piece) /\ Len(toHost') = Len(toHost) - n
      /\ \A i \in 1..Len(toHost) - n : toHost'[i] = toHost[i + n]
  BY <1>1
<1> DEFINE low == Requests(n)
           high == Unread \ low
<1>3. /\ low = {i \in Unread : i <= n} /\ high = {i \in Unread : i > n}
      /\ Unread = low \cup high /\ low \cap high = {}
  BY <1>1 DEF Requests, Messages, Unread
<1>4. IsFiniteSet(low) /\ IsFiniteSet(high) /\ Cardinality(low) \in Nat /\ high \subseteq Nat
      /\ Cardinality(high) \in Nat
  <2>1. IsFiniteSet(Unread) /\ Unread \subseteq 1..Len(toHost)
    BY <1>1, UnreadFinite
  <2>2. low \in SUBSET Unread /\ high \in SUBSET Unread
    BY <1>3
  <2>3. IsFiniteSet(low) /\ IsFiniteSet(high)
    BY <2>1, <2>2, FS_Subset
  <2>4. high \subseteq Nat
    <3>1. 1..Len(toHost) \subseteq Nat
      BY <1>1
    <3>. QED
      BY <2>1, <2>2, <3>1
  <2>. QED
    BY <2>3, <2>4, FS_CardinalityType
<1>5. Cardinality(Unread) = Cardinality(low) + Cardinality(high)
  <2>1. Cardinality(low \cup high) =
          Cardinality(low) + Cardinality(high) - Cardinality(low \cap high)
    BY <1>4, FS_Union
  <2>. QED
    BY <1>3, <1>4, <2>1, FS_EmptySet
<1>6. /\ Unread' \subseteq Nat
      /\ \A i \in Nat : i \in Unread' <=> i + n \in high
  <2>1. Unread' = {i \in 1..Len(toHost) - n :
                     toHost[i + n].last /\ toHost[i + n].frame.type = "SET_REQ"}
    BY <1>1, <1>2 DEF Unread, IsRequest
  <2>2. \A i \in Nat : i + n \in high <=>
          /\ i + n \in 1..Len(toHost) /\ i + n > n
          /\ toHost[i + n].last /\ toHost[i + n].frame.type = "SET_REQ"
    BY <1>1, <1>3 DEF Unread, IsRequest
  <2>3. \A i \in Nat : (i + n \in 1..Len(toHost) /\ i + n > n) <=> i \in 1..Len(toHost) - n
    BY <1>1
  <2>4. Unread' \subseteq Nat
    BY <1>1, <2>1
  <2> HIDE DEF high
  <2>. QED
    BY <2>1, <2>2, <2>3, <2>4
<1>7. \A j \in high : j >= n
  BY <1>1, <1>3, <1>4
<1> HIDE DEF low, high
<1>8. Cardinality(Unread') = Cardinality(high)
  <2>1. n \in Nat
    BY <1>1
  <2>. QED
    BY <1>4, <1>6, <1>7, <2>1, Moved
<1>. QED
  BY <1>1, <1>2, <1>4, <1>5, <1>8 DEF low

\* Of what the device writes, only a set request is one more to be read.
LEMMA WriteCounts ==
  ASSUME RequestInv, NEW f \in Frame, Write(f)
  PROVE  /\ toHost' \in Seq(Piece)
         /\ Cardinality(Unread') =
              Cardinality(Unread) + (IF f.type = "SET_REQ" THEN 1 ELSE 0)
<1> DEFINE first == [frame |-> f, last |-> FALSE]
           last == [frame |-> f, last |-> TRUE]
<1>1. toHost \in Seq(Piece) /\ first \in Piece /\ last \in Piece /\ Len(toHost) \in Nat
  BY DEF RequestInv, Piece
<1>2. /\ toHost' \in Seq(Piece) /\ Len(toHost') = Len(toHost) + 2
      /\ \A i \in 1..Len(toHost) : toHost'[i] = toHost[i]
      /\ toHost'[Len(toHost) + 1] = first
      /\ toHost'[Len(toHost) + 2] = last
  <2>1. toHost' = toHost \o <<first, last>>
    BY DEF Write, Pieces
  <2> HIDE DEF first, last
  <2>. QED
    BY <1>1, <2>1, TwoMore
<1>3. ~first.last /\ last.frame = f /\ last.last
  OBVIOUS
<1> HIDE DEF first, last
<1>4. Unread' = Unread \cup (IF f.type = "SET_REQ" THEN {Len(toHost) + 2} ELSE {})
  <2>1. DOMAIN toHost' = DOMAIN toHost \cup {Len(toHost) + 1, Len(toHost) + 2}
        /\ DOMAIN toHost = 1..Len(toHost)
    BY <1>1, <1>2
  <2>. QED
    BY <1>2, <1>3, <2>1 DEF Unread, IsRequest
<1>5. IsFiniteSet(Unread) /\ Len(toHost) + 2 \notin Unread /\ Cardinality(Unread) \in Nat
  BY <1>1, UnreadFinite
<1>6. CASE f.type = "SET_REQ"
  BY <1>2, <1>4, <1>5, <1>6, FS_AddElement
<1>7. CASE f.type # "SET_REQ"
  BY <1>2, <1>4, <1>5, <1>7
<1>. QED
  BY <1>6, <1>7

LEMMA RequestInitially == KeepAliveInit => RequestInv
<1> SUFFICES ASSUME KeepAliveInit PROVE RequestInv
  OBVIOUS
<1>1. toHost \in Seq(Piece) /\ Unread = {}
  BY DEF KeepAliveInit, Unread
<1>2. Cardinality(Unread) = 0
  BY <1>1, FS_EmptySet
<1>. QED
  BY <1>1, <1>2 DEF KeepAliveInit, RequestInv, RequestsSurviveTheWait, Unread

LEMMA RequestStep == PongInv /\ RequestInv /\ [KeepAliveNext]_keepAliveVars => RequestInv'
<1> SUFFICES ASSUME PongInv, RequestInv, [KeepAliveNext]_keepAliveVars
             PROVE  RequestInv'
  OBVIOUS
<1>1. requested = handled + Cardinality(Unread) /\ requested \in Nat /\ handled \in Nat
      /\ toHost \in Seq(Piece) /\ Cardinality(Unread) \in Nat
  BY UnreadFinite DEF RequestInv, RequestsSurviveTheWait, Unread
<1>2. ASSUME toHost' \in Seq(Piece), requested' \in Nat, handled' \in Nat,
             requested' = handled' + Cardinality(Unread')
      PROVE  RequestInv'
  BY <1>2 DEF RequestInv, RequestsSurviveTheWait, Unread
<1>3. ASSUME NEW n, Read(n), UNCHANGED requested PROVE RequestInv'
  BY <1>1, <1>2, <1>3, ReadCounts
<1>4. ASSUME UNCHANGED <<toHost, handled, requested>> PROVE RequestInv'
  BY <1>1, <1>2, <1>4 DEF Unread, IsRequest
<1>5. CASE HostStep
  BY <1>3, <1>4, <1>5 DEF HostStep, PollNothing, PollPart, PollMessages, WaitTimesOut,
                          WaitBroken, WaitMessages, WaitGivenUp, SendPing, KeepPolling
<1>6. CASE Answer
  <2>1. PICK f : f = [type |-> "PONG", token |-> Head(toDevice)]
    OBVIOUS
  <2>2. f \in Frame /\ f.type # "SET_REQ"
    <3>1. toDevice # <<>> /\ Previous \in Tokens /\ token \in Tokens
      BY <1>6, TokensDiffer DEF Answer, PongInv, Previous
    <3>2. Head(toDevice) \in Tokens
      BY <3>1 DEF PongInv
    <3>. QED
      BY <2>1, <3>2 DEF Frame
  <2>3. Write(f) /\ handled' = handled /\ requested' = requested
    BY <1>6, <2>1 DEF Answer
  <2>4. toHost' \in Seq(Piece) /\ Cardinality(Unread') = Cardinality(Unread) + 0
    BY <2>2, <2>3, WriteCounts
  <2>. QED
    BY <1>1, <1>2, <2>3, <2>4
<1>7. CASE Request
  <2>1. PICK f : f = [type |-> "SET_REQ"]
    OBVIOUS
  <2>2. f \in Frame /\ f.type = "SET_REQ" /\ Write(f)
        /\ requested' = requested + 1 /\ handled' = handled
    BY <1>7, <2>1 DEF Request, Frame
  <2>3. toHost' \in Seq(Piece) /\ Cardinality(Unread') = Cardinality(Unread) + 1
    BY <2>2, WriteCounts
  <2>. QED
    BY <1>1, <1>2, <2>2, <2>3
<1>8. CASE GoSilent \/ Tick \/ UNCHANGED keepAliveVars
  BY <1>4, <1>8 DEF GoSilent, Tick, keepAliveVars
<1>. QED
  BY <1>5, <1>6, <1>7, <1>8 DEF KeepAliveNext

\* A set request that arrives while the host waits for a PONG is processed
\* exactly once, whatever else is in its read (run_spp_session).
THEOREM EveryRequestIsHandled == KeepAliveSpec => []RequestsSurviveTheWait
<1>1. RequestInv => RequestsSurviveTheWait
  BY DEF RequestInv
<1>. QED
  BY <1>1, PongInitially, PongStep, RequestInitially, RequestStep, PTL DEF KeepAliveSpec

=============================================================================
