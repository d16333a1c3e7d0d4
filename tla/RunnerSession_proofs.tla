------------------------- MODULE RunnerSession_proofs --------------------------
(***************************************************************************)
(* The sessions of WindowsSandbox keep the promise of a session: for every *)
(* backend, every number of chunks and writes, and every capacity of a      *)
(* pipe or a channel.                                                      *)
(***************************************************************************)
EXTENDS WindowsSandbox_proofs, SequenceTheorems

-----------------------------------------------------------------------------
(* Types.                                                                  *)

WaitAt == {"waiting", "storing", "done", "aborted"}
WaiterAt == {"off", "waiting", "expired", "finishing", "joining", "done"}

AnyTask == [reader : ReaderAt, stream : ReaderAt, wait : WaitAt, writer : ReaderAt]
AnyExit == [ch : CodeOrNone, seen : BOOLEAN, code : CodeOrNone, told : CodeOrNone]
AnyStdin == [level : 0..StdinCap, open : BOOLEAN]

\* What is under way carries numbers of chunks that have been made, and on its last
\* way the notice of a lost runner.
Numbers(made) == {Notice} \cup 1..made
AnyChan(made) ==
    [pipe : Seq(1..made), bcast : Seq(Numbers(made)), queue : Seq(Numbers(made)),
     input : 0..InputCap]
AnyClient(made, writes) ==
    [got : Seq(Numbers(made)), eof : BOOLEAN, asked : BOOLEAN, aborted : BOOLEAN,
     writes : 0..writes, listening : BOOLEAN, sending : BOOLEAN]
ToRunner == [kind : {"request", "data", "close", "terminate"}, n : {0}, code : {NoCode}]
FromRunner(made) ==
    {f \in [kind : {"ready", "error", "chunk", "exit"}, n : 0..made, code : CodeOrNone] :
       f.kind = "chunk" => f.n # 0}

CommandTyped ==
    /\ scenario \in Scenarios
    /\ command \in AnyCommand /\ command.made <= scenario.chunks
ChanTyped ==
    /\ chan \in AnyChan(command.made)
    /\ Len(chan.pipe) <= PipeCap /\ Len(chan.bcast) <= BroadcastCap
    /\ Len(chan.queue) <= QueueCap
OutboxTyped == outbox \in Seq(FromRunner(command.made))
ClientTyped == client \in AnyClient(command.made, scenario.writes)
TasksTyped ==
    /\ task \in AnyTask /\ exit \in AnyExit /\ stdin \in AnyStdin /\ waiter \in WaiterAt
    /\ link \in {"logon", "pipe-in", "pipe-out", "request", "await", "up", "failed"}
    /\ inbox \in Seq(ToRunner)
RunnerTyped ==
    /\ runner \in AnyRunner /\ runner.opened <= 2
    /\ runner.at = "starting" => runner.opened <= 1
    /\ runner.at = "none" => runner.opened = 0

SessionTyped ==
    /\ CommandTyped /\ ChanTyped /\ OutboxTyped /\ ClientTyped /\ TasksTyped /\ RunnerTyped

-----------------------------------------------------------------------------
(* The chunks under way.                                                   *)

\* The backends with a broadcast channel
Lossy == {"legacy", "elevated"}

\* Chunk b may follow chunk a: it is the next one, or the ones between have been
\* dropped by a broadcast channel, which keeps the newest BroadcastCap.  By "lost"
\* one of these may be the notice, which nothing follows.
Follows(by, made, a, b) ==
    \/ b = a + 1
    \/ by \in Lossy /\ a < b /\ b + BroadcastCap <= made + 1
    \/ by = "lost" /\ a # Notice /\ (b = Notice \/ (a < b /\ b + BroadcastCap <= made + 2))

\* The chunks in s follow each other, and the first of them follows a.
Chained(by, made, a, s) ==
    \A i \in 1..Len(s) : Follows(by, made, IF i = 1 THEN a ELSE s[i - 1], s[i])
EndOf(a, s) == IF s = <<>> THEN a ELSE s[Len(s)]
Spread(s) == \A i, j \in 1..Len(s) : i <= j => s[i] + (j - i) <= s[j]

\* The same for the frames of the runner: nothing was made before the Ready
\* frame, and nothing is after the exit frame.
Number(made, f) == CASE f.kind = "chunk" -> f.n [] f.kind = "exit" -> made [] OTHER -> 0
Links(by, made, a, f) ==
    IF f.kind = "chunk" THEN Follows(by, made, a, f.n) ELSE a = Number(made, f)
FramesChained(by, made, a, s) ==
    \A i \in 1..Len(s) : Links(by, made, IF i = 1 THEN a ELSE Number(made, s[i - 1]), s[i])
FramesEnd(made, a, s) == IF s = <<>> THEN a ELSE Number(made, s[Len(s)])

\* The newest chunk that has come to the client, to its channel, to the
\* broadcast channel, and to the frames of the runner
Seen == EndOf(0, client.got)
Queued == EndOf(Seen, chan.queue)
Kept == EndOf(Queued, chan.bcast)
Sent == FramesEnd(command.made, Kept, outbox)

\* All that is on its way is chunks.
Flow ==
    /\ \A s \in {client.got, chan.queue, chan.bcast} : s \in Seq(1..command.made)
    /\ Chained(backend, command.made, Seen, chan.queue)
    /\ Chained(backend, command.made, Queued, chan.bcast) /\ Spread(chan.bcast)
    /\ FramesChained(backend, command.made, Kept, outbox)
    /\ Chained(backend, command.made, Sent, chan.pipe)
    /\ EndOf(Sent, chan.pipe) = command.made

\* The notice has been sent, and is the last that the client will get.
LossFlow ==
    /\ Chained("lost", command.made, Seen, chan.queue)
    /\ Chained("lost", command.made, Queued, chan.bcast)
    /\ Kept = Notice
Noticed == Elevated /\ task.reader = "done" /\ runner.at = "dead"

\* A client that stops to listen gets nothing more.
Attached == client.listening \/ task.reader = "off"
FlowKept == Attached => IF Noticed THEN LossFlow ELSE Flow

-----------------------------------------------------------------------------
(* Ends.                                                                   *)

Dead == runner.at = "dead"
\* Nobody is left that could write, or start somebody who could.
Quiet == Ended /\ command.child = "no"

\* Each backend uses its own tasks and channels.
OwnParts ==
    /\ ~Elevated => outbox = <<>> /\ task.reader # "off"
    /\ Elevated => (link = "up" <=> task.reader # "off")
    /\ Direct => task.stream = "off" /\ chan.bcast = <<>>
    /\ waiter # "off" => backend = "legacy"
    /\ task.reader = "off" =>
         /\ task.stream = "running" /\ ~client.listening
         /\ client.got = <<>> /\ chan.queue = <<>> /\ chan.bcast = <<>>

\* The frames of the runner: Ready or Error first and only before the session is
\* up, the exit last and only when the output is at its end.
FrameFits(i) ==
    LET f == outbox[i] IN
    /\ f.kind \in {"ready", "error"} => i = 1 /\ task.reader = "off"
    /\ f.kind = "error" => runner.at = "exited"
    /\ f.kind = "exit" =>
         /\ i = Len(outbox) /\ runner.at = "exited" /\ AtEof
         /\ f.code \in {command.code, "timeout"}
FramesFit ==
    /\ \A i \in 1..Len(outbox) : FrameFits(i)
    /\ outbox # <<>> \/ link = "up" => runner.at \in {"running", "joining", "exited", "dead"}
    /\ runner.at = "exited" /\ task.reader # "done" =>
         outbox # <<>> /\ outbox[Len(outbox)].kind \in {"exit", "error"}

\* A runner has a command, and once it has finished, a code that tells its end.
RunnerFits ==
    /\ runner.at \in {"spawned", "assigned", "running", "joining"} => command.is # "none"
    /\ runner.at = "joining" => Ended /\ runner.code \in {command.code, "timeout"}
    /\ Ended => command.code # NoCode

\* A reader is done at the end of the output, or when its runner is dead.
ReaderFits ==
    task.reader = "done" => Dead \/ (AtEof /\ outbox = <<>> /\ runner.at \in {"none", "exited"})

WaiterFits ==
    /\ waiter \in {"joining", "done"} => Ended
    /\ waiter = "done" => task.reader = "done"

\* The exit in the channel of a driver
ExitFits ==
    exit.ch # NoCode =>
      /\ ~Direct
      /\ \/ Quiet /\ exit.ch \in {command.code, "timeout"}
         \/ Dead /\ exit.ch = "lost"
WaitFits ==
    /\ task.wait # "done" => exit.told = NoCode
    /\ task.wait \in {"storing", "done"} => ExitKnown

\* Who stops reading or streaming has come to the end, or was aborted.
ClientFits ==
    /\ "aborted" \in {task.reader, task.stream} => client.aborted
    /\ task.stream = "done" /\ client.listening => chan.bcast = <<>> /\ task.reader = "done"
    /\ client.eof => chan.queue = <<>> /\ Feeder \in {"done", "aborted"}
    /\ client.eof => client.aborted \/ Dead \/ Quiet

EndsFit ==
    /\ OwnParts /\ FramesFit /\ RunnerFits /\ ReaderFits /\ WaiterFits
    /\ ExitFits /\ WaitFits /\ ClientFits

SessionInv == SessionTyped /\ FlowKept /\ EndsFit /\ RunnerInv

-----------------------------------------------------------------------------
(* Lemmas about chains.                                                    *)

\* What may follow when less has been made may follow when more has been.
LEMMA FollowsLonger ==
  ASSUME NEW by, NEW m \in Nat, NEW n \in Nat, m <= n, NEW a \in Int, NEW b \in Int,
         Follows(by, m, a, b)
  PROVE  Follows(by, n, a, b)
BY CapsAssumption DEF CapsAssumption, Follows

\* A chain stays one when more has been made.
LEMMA ChainedLonger ==
  ASSUME NEW by, NEW m \in Nat, NEW n \in Nat, m <= n, NEW a \in Int,
         NEW s \in Seq(Int), Chained(by, m, a, s)
  PROVE  Chained(by, n, a, s)
<1>1. \A i \in 1..Len(s) : s[i] \in Int /\ (i # 1 => s[i - 1] \in Int)
  <2> SUFFICES ASSUME NEW i \in 1..Len(s) PROVE s[i] \in Int /\ (i # 1 => s[i - 1] \in Int)
    OBVIOUS
  <2>1. Len(s) \in Nat
    BY LenProperties
  <2>2. i # 1 => i - 1 \in 1..Len(s)
    BY <2>1
  <2> QED BY <2>2, ElementOfSeq
<1>2. ASSUME NEW i \in 1..Len(s)
      PROVE  Follows(by, n, IF i = 1 THEN a ELSE s[i - 1], s[i])
  <2>1. Follows(by, m, IF i = 1 THEN a ELSE s[i - 1], s[i])
    BY DEF Chained
  <2>2. (IF i = 1 THEN a ELSE s[i - 1]) \in Int /\ s[i] \in Int
    BY <1>1
  <2> QED BY <2>1, <2>2, FollowsLonger
<1> QED BY <1>2 DEF Chained

\* The first chunk leaves a chain.
LEMMA ChainedTail ==
  ASSUME NEW S, NEW by, NEW m, NEW a, NEW s \in Seq(S), s # <<>>, Chained(by, m, a, s)
  PROVE  /\ Follows(by, m, a, Head(s))
         /\ Chained(by, m, Head(s), Tail(s))
         /\ EndOf(Head(s), Tail(s)) = EndOf(a, s)
<1> DEFINE u == Tail(s)
<1>1. /\ Head(s) = s[1] /\ Len(s) \in Nat \ {0} /\ u \in Seq(S)
      /\ Len(u) = Len(s) - 1
      /\ \A i \in 1..Len(u) : u[i] = s[i + 1]
  BY HeadTailProperties, EmptySeq
<1> HIDE DEF u
<1>2. Follows(by, m, a, s[1])
  BY <1>1 DEF Chained
<1>3. ASSUME NEW i \in 1..Len(u)
      PROVE  Follows(by, m, IF i = 1 THEN Head(s) ELSE u[i - 1], u[i])
  <2>1. /\ i + 1 \in 1..Len(s) /\ i + 1 # 1 /\ (i + 1) - 1 = i
        /\ u[i] = s[i + 1]
    BY <1>1
  <2>2. Follows(by, m, s[i], s[i + 1])
    BY <2>1 DEF Chained
  <2>3. i # 1 => i - 1 \in 1..Len(u) /\ (i - 1) + 1 = i
    BY <1>1
  <2>4. i # 1 => u[i - 1] = s[i]
    BY <1>1, <2>3
  <2> QED BY <1>1, <2>1, <2>2, <2>4
<1>4. EndOf(Head(s), u) = EndOf(a, s)
  <2>1. CASE u = <<>>
    <3>1. Len(u) = 0
      BY <2>1, EmptySeq
    <3>2. Len(s) = 1
      BY <1>1, <3>1
    <3> QED BY <1>1, <2>1, <3>2 DEF EndOf
  <2>2. CASE u # <<>>
    <3>1. Len(u) \in 1..Len(u)
      BY <1>1, <2>2, EmptySeq
    <3> QED BY <1>1, <2>2, <3>1 DEF EndOf
  <2> QED BY <2>1, <2>2
<1> QED BY <1>1, <1>2, <1>3, <1>4 DEF Chained, u

\* A chunk joins a chain.
LEMMA ChainedAppend ==
  ASSUME NEW S, NEW by, NEW m, NEW a, NEW s \in Seq(S), NEW c \in S,
         Chained(by, m, a, s), Follows(by, m, EndOf(a, s), c)
  PROVE  Chained(by, m, a, Append(s, c)) /\ EndOf(a, Append(s, c)) = c
<1> DEFINE t == Append(s, c)
<1>1. /\ t # <<>> /\ Len(s) \in Nat /\ Len(t) = Len(s) + 1 /\ t[Len(s) + 1] = c
      /\ \A i \in 1..Len(s) : t[i] = s[i]
  BY AppendProperties, LenProperties
<1> HIDE DEF t
<1>2. ASSUME NEW i \in 1..Len(t)
      PROVE  Follows(by, m, IF i = 1 THEN a ELSE t[i - 1], t[i])
  <2>1. CASE i \in 1..Len(s)
    <3>1. i # 1 => t[i - 1] = s[i - 1]
      BY <1>1, <2>1
    <3> QED BY <1>1, <2>1, <3>1 DEF Chained
  <2>2. CASE i = Len(s) + 1
    <3>1. CASE Len(s) = 0
      <4>1. s = <<>>
        BY <3>1, EmptySeq
      <4> QED BY <1>1, <2>2, <3>1, <4>1 DEF EndOf
    <3>2. CASE Len(s) # 0
      <4>1. s # <<>> /\ i # 1 /\ i - 1 = Len(s) /\ Len(s) \in 1..Len(s)
        BY <1>1, <2>2, <3>2, EmptySeq
      <4> QED BY <1>1, <2>2, <4>1 DEF EndOf
    <3> QED BY <3>1, <3>2
  <2> QED BY <1>1, <2>1, <2>2
<1> QED BY <1>1, <1>2 DEF Chained, EndOf, t

\* Chunks that are spread stay so when the first leaves and a later one joins.
LEMMA SpreadTail ==
  ASSUME NEW s \in Seq(Nat), s # <<>>, Spread(s)
  PROVE  Spread(Tail(s))
<1>1. /\ Len(s) \in Nat \ {0} /\ Len(Tail(s)) = Len(s) - 1
      /\ \A i \in 1..Len(Tail(s)) : Tail(s)[i] = s[i + 1]
  BY HeadTailProperties, EmptySeq
<1> SUFFICES ASSUME NEW i \in 1..Len(Tail(s)), NEW j \in 1..Len(Tail(s)), i <= j
             PROVE  Tail(s)[i] + (j - i) <= Tail(s)[j]
  BY DEF Spread
<1>2. i + 1 \in 1..Len(s) /\ j + 1 \in 1..Len(s) /\ i + 1 <= j + 1 /\ (j + 1) - (i + 1) = j - i
  BY <1>1
<1>3. s[i + 1] + ((j + 1) - (i + 1)) <= s[j + 1]
  BY <1>2 DEF Spread
<1> QED BY <1>1, <1>2, <1>3

\* A chunk after the last one keeps the numbers spread.
LEMMA SpreadAppend ==
  ASSUME NEW s \in Seq(Nat), NEW c \in Nat, Spread(s), EndOf(0, s) < c \/ s = <<>>
  PROVE  Spread(Append(s, c))
<1> DEFINE t == Append(s, c)
<1>1. /\ Len(s) \in Nat /\ Len(t) = Len(s) + 1 /\ t[Len(s) + 1] = c
      /\ \A i \in 1..Len(s) : t[i] = s[i] /\ s[i] \in Nat
  BY AppendProperties, LenProperties, ElementOfSeq
<1> HIDE DEF t
<1> SUFFICES ASSUME NEW i \in 1..Len(t), NEW j \in 1..Len(t), i <= j
             PROVE  t[i] + (j - i) <= t[j]
  BY DEF Spread, t
<1>2. CASE j \in 1..Len(s)
  <2>1. i \in 1..Len(s)
    BY <1>1, <1>2
  <2> QED BY <1>1, <1>2, <2>1 DEF Spread
<1>3. CASE j = Len(s) + 1 /\ i \in 1..Len(s)
  <2>1. s # <<>> /\ Len(s) \in 1..Len(s) /\ i <= Len(s)
    BY <1>1, <1>3, EmptySeq
  <2>2. s[i] + (Len(s) - i) <= s[Len(s)] /\ s[Len(s)] < c
    BY <1>3, <2>1 DEF Spread, EndOf
  <2>3. s[i] \in Nat /\ s[Len(s)] \in Nat
    BY <1>1, <1>3, <2>1
  <2> QED BY <1>1, <1>3, <2>1, <2>2, <2>3
<1>4. CASE j = Len(s) + 1 /\ i = Len(s) + 1
  BY <1>1, <1>4
<1> QED BY <1>1, <1>2, <1>3, <1>4

\* A broadcast channel takes a chunk: when it is full it drops its oldest, and
\* the one that comes first now may follow what came before (Broadcast).
LEMMA BroadcastChained ==
  ASSUME NEW by \in Lossy, NEW m \in Nat, NEW a \in Nat, NEW s \in Seq(1..m), NEW c \in 1..m,
         Len(s) <= BroadcastCap,
         Chained(by, m, a, s), Spread(s), Follows(by, m, EndOf(a, s), c)
  PROVE  /\ Broadcast(s, c) \in Seq(1..m) /\ Len(Broadcast(s, c)) <= BroadcastCap
         /\ Chained(by, m, a, Broadcast(s, c)) /\ Spread(Broadcast(s, c))
         /\ EndOf(a, Broadcast(s, c)) = c
<1>a. BroadcastCap \in Nat \ {0}
  BY CapsAssumption DEF CapsAssumption
<1>b. s \in Seq(Nat) /\ c \in Nat /\ by # "lost"
  BY SeqMonotonic DEF Lossy
<1>c. Len(s) \in Nat
  BY LenProperties
<1>d. s # <<>> => EndOf(a, s) = s[Len(s)] /\ EndOf(0, s) = s[Len(s)] /\ s[Len(s)] \in Nat /\ s[Len(s)] < c
  <2> SUFFICES ASSUME s # <<>> PROVE s[Len(s)] \in Nat /\ s[Len(s)] < c
    BY DEF EndOf
  <2>1. Len(s) \in 1..Len(s)
    BY <1>c, EmptySeq
  <2>2. s[Len(s)] \in 1..m
    BY <2>1, ElementOfSeq
  <2> QED BY <1>b, <2>2 DEF EndOf, Follows
<1>1. CASE Len(s) # BroadcastCap
  <2>1. Broadcast(s, c) = Append(s, c)
    BY <1>1 DEF Broadcast
  <2>2. Append(s, c) \in Seq(1..m) /\ Len(Append(s, c)) = Len(s) + 1
    BY AppendProperties
  <2>3. Chained(by, m, a, Append(s, c)) /\ EndOf(a, Append(s, c)) = c
    BY <1>b, ChainedAppend
  <2>4. Spread(Append(s, c))
    BY <1>b, <1>d, SpreadAppend
  <2>5. Len(s) + 1 <= BroadcastCap
    BY <1>a, <1>c, <1>1
  <2> QED BY <2>1, <2>2, <2>3, <2>4, <2>5
<1>2. CASE Len(s) = BroadcastCap
  <2> DEFINE u == Tail(s)
  <2> DEFINE t == Append(u, c)
  <2>1. Broadcast(s, c) = t
    BY <1>2 DEF Broadcast
  <2>2. /\ s # <<>> /\ u \in Seq(1..m) /\ Len(u) = Len(s) - 1
        /\ \A i \in 1..Len(u) : u[i] = s[i + 1]
    <3>1. s # <<>>
      BY <1>a, <1>2, EmptySeq
    <3> QED BY <3>1, HeadTailProperties
  <2>3. /\ t \in Seq(1..m) /\ Len(t) = Len(s)
        /\ t[Len(s)] = c /\ \A i \in 1..Len(u) : t[i] = s[i + 1]
    <3>1. /\ Append(u, c) \in Seq(1..m) /\ Len(Append(u, c)) = Len(u) + 1
          /\ Append(u, c)[Len(u) + 1] = c
          /\ \A i \in 1..Len(u) : Append(u, c)[i] = u[i]
      BY <2>2, AppendProperties
    <3> QED BY <1>c, <2>2, <3>1
  <2>4. Spread(t)
    <3>1. Spread(u) /\ u \in Seq(Nat)
      BY <1>b, <2>2, SpreadTail, SeqMonotonic
    <3>2. u # <<>> => EndOf(0, u) = s[Len(s)]
      <4> SUFFICES ASSUME u # <<>> PROVE u[Len(u)] = s[Len(s)]
        BY DEF EndOf
      <4>1. Len(u) \in 1..Len(u)
        BY <1>c, <2>2, EmptySeq
      <4> QED BY <1>c, <2>2, <4>1
    <3> QED BY <1>b, <1>d, <2>2, <3>1, <3>2, SpreadAppend
  <2>5. s[1] \in Nat /\ a < s[1]
    <3>1. 1 \in 1..Len(s)
      BY <1>c, <2>2, EmptySeq
    <3>2. s[1] \in 1..m
      BY <3>1, ElementOfSeq
    <3>3. Follows(by, m, a, s[1])
      BY <3>1 DEF Chained
    <3> QED BY <1>a, <1>b, <3>2, <3>3 DEF Follows
  <2>6. t[1] \in 1..m /\ a < t[1] /\ t[1] + BroadcastCap <= m + 1
    <3>1. CASE Len(s) = 1
      <4>1. t[1] = c /\ BroadcastCap = 1
        BY <1>2, <2>3, <3>1
      <4>2. s[Len(s)] = s[1]
        BY <3>1
      <4> QED BY <1>d, <2>2, <2>5, <4>1, <4>2
    <3>2. CASE Len(s) # 1
      <4>1. 1 \in 1..Len(u) /\ t[1] = s[2] /\ 2 \in 1..Len(s) /\ Len(s) \in 1..Len(s) /\ 1 \in 1..Len(s)
        BY <1>a, <1>2, <2>2, <2>3, <3>2
      <4>2. s[2] + (Len(s) - 2) <= s[Len(s)] /\ s[1] + (2 - 1) <= s[2]
        BY <4>1 DEF Spread
      <4>3. s[2] \in 1..m /\ s[Len(s)] \in 1..m /\ s[1] \in 1..m
        BY <4>1, ElementOfSeq
      <4> QED BY <1>a, <1>d, <1>2, <2>2, <2>5, <4>1, <4>2, <4>3, SMTT(30)
    <3> QED BY <3>1, <3>2
  <2> HIDE DEF t, u
  <2>7. ASSUME NEW i \in 1..Len(t)
        PROVE  Follows(by, m, IF i = 1 THEN a ELSE t[i - 1], t[i])
    <3>1. CASE i = 1
      BY <2>6, <3>1 DEF Follows
    <3>2. CASE i # 1 /\ i # Len(s)
      <4>0. Len(u) = Len(s) - 1 /\ i \in 1..Len(s)
        BY <2>2, <2>3
      <4>1. /\ i \in 1..Len(u) /\ i - 1 \in 1..Len(u) /\ i + 1 \in 1..Len(s)
            /\ (i - 1) + 1 = i /\ (i + 1) - 1 = i /\ i + 1 # 1
        BY <1>c, <3>2, <4>0
      <4>2. t[i] = s[i + 1] /\ t[i - 1] = s[(i - 1) + 1]
        BY <2>3, <4>1
      <4>3. Follows(by, m, IF i + 1 = 1 THEN a ELSE s[(i + 1) - 1], s[i + 1])
        BY <4>1 DEF Chained
      <4> QED BY <3>2, <4>1, <4>2, <4>3
    <3>3. CASE i # 1 /\ i = Len(s)
      <4>1. i - 1 \in 1..Len(u) /\ t[i - 1] = s[i] /\ t[i] = c
        <5>1. i - 1 \in 1..Len(u) /\ (i - 1) + 1 = i
          BY <1>c, <2>2, <2>3, <3>3
        <5> QED BY <2>3, <3>3, <5>1
      <4> QED BY <1>d, <2>2, <3>3, <4>1
    <3> QED BY <3>1, <3>2, <3>3
  <2>8. EndOf(a, t) = c
    <3>1. t # <<>>
      BY <1>a, <1>2, <2>3
    <3> QED BY <2>3, <3>1 DEF EndOf
  <2>9. Chained(by, m, a, t)
    BY <2>7 DEF Chained
  <2> QED BY <1>a, <1>2, <2>1, <2>3, <2>4, <2>8, <2>9
<1> QED BY <1>1, <1>2

\* Where a chain ends
LEMMA EndTyped ==
  ASSUME NEW S, NEW a \in S, NEW s \in Seq(S)
  PROVE  EndOf(a, s) \in S
<1>1. CASE s = <<>>
  BY <1>1 DEF EndOf
<1>2. CASE s # <<>>
  <2>1. Len(s) \in Nat \ {0}
    BY <1>2, EmptySeq
  <2>2. s[Len(s)] \in S
    BY <2>1, ElementOfSeq
  <2> QED BY <1>2, <2>2 DEF EndOf
<1> QED BY <1>1, <1>2

\* A chain ends with what joined it last.
LEMMA EndAppended ==
  ASSUME NEW S, NEW a, NEW s \in Seq(S), NEW c \in S
  PROVE  EndOf(a, Append(s, c)) = c
<1> DEFINE t == Append(s, c)
<1>1. t # <<>> /\ Len(s) \in Nat /\ Len(t) = Len(s) + 1 /\ t[Len(s) + 1] = c
  BY AppendProperties, LenProperties
<1> HIDE DEF t
<1> QED BY <1>1 DEF EndOf, t

\* What may follow a chunk may do so by "lost" too, and so may a chain of chunks.
LEMMA FollowsLost ==
  ASSUME NEW by \in Lossy, NEW m \in Nat, NEW a \in Nat, NEW b \in Nat, Follows(by, m, a, b)
  PROVE  Follows("lost", m, a, b)
<1>1. BroadcastCap \in Nat /\ by # "lost" /\ a # Notice
  BY CapsAssumption DEF CapsAssumption, Lossy, Notice
<1>2. b + BroadcastCap <= m + 1 => b + BroadcastCap <= m + 2
  BY <1>1
<1> QED BY <1>1, <1>2 DEF Follows

\* A chain stays one by "lost".
LEMMA ChainedLost ==
  ASSUME NEW by \in Lossy, NEW m \in Nat, NEW a \in Nat, NEW s \in Seq(Nat), Chained(by, m, a, s)
  PROVE  Chained("lost", m, a, s)
<1> SUFFICES ASSUME NEW i \in 1..Len(s)
             PROVE  Follows("lost", m, IF i = 1 THEN a ELSE s[i - 1], s[i])
  BY DEF Chained
<1> DEFINE b == IF i = 1 THEN a ELSE s[i - 1]
<1>1. Len(s) \in Nat
  BY LenProperties
<1>2. i # 1 => i - 1 \in 1..Len(s)
  BY <1>1
<1>3. b \in Nat /\ s[i] \in Nat
  BY <1>2, ElementOfSeq
<1>4. Follows(by, m, b, s[i])
  BY DEF Chained
<1> HIDE DEF b
<1>5. Follows("lost", m, b, s[i])
  BY <1>3, <1>4, FollowsLost
<1> QED BY <1>5 DEF b

\* The first chunk of a chain may follow another one.
LEMMA ChainedFrom ==
  ASSUME NEW by, NEW m, NEW a, NEW h, NEW s, Chained(by, m, h, s),
         1 \in 1..Len(s) => Follows(by, m, a, s[1])
  PROVE  Chained(by, m, a, s)
BY DEF Chained

\* The broadcast channel takes the notice: when it is full, one chunk more is
\* dropped than a chunk would have cost (send_runner_error).
LEMMA NoticeChained ==
  ASSUME NEW by \in Lossy, NEW m \in Nat, NEW a \in Nat, NEW s \in Seq(1..m),
         Len(s) <= BroadcastCap, Chained(by, m, a, s), Spread(s)
  PROVE  /\ Chained("lost", m, a, Broadcast(s, Notice))
         /\ EndOf(a, Broadcast(s, Notice)) = Notice
<1> DEFINE u == Tail(s)
<1>a. BroadcastCap \in Nat \ {0} /\ Len(s) \in Nat
  BY CapsAssumption, LenProperties DEF CapsAssumption
<1>b. s \in Seq(Nat) /\ s \in Seq(Int) /\ Notice \in Int
  <2>1. 1..m \subseteq Nat /\ 1..m \subseteq Int
    OBVIOUS
  <2> QED BY <2>1, SeqMonotonic DEF Notice
<1>c. ASSUME NEW t \in Seq(Nat), Chained("lost", m, a, t)
      PROVE  /\ Chained("lost", m, a, Append(t, Notice))
             /\ EndOf(a, Append(t, Notice)) = Notice
  <2>1. EndOf(a, t) \in Nat
    BY EndTyped
  <2>2. Follows("lost", m, EndOf(a, t), Notice)
    BY <2>1 DEF Follows, Notice
  <2>3. t \in Seq(Int)
    <3>1. Nat \subseteq Int
      OBVIOUS
    <3> QED BY <3>1, SeqMonotonic
  <2> QED BY <1>b, <1>c, <2>2, <2>3, ChainedAppend
<1>1. CASE Len(s) # BroadcastCap
  <2>1. Broadcast(s, Notice) = Append(s, Notice)
    BY <1>1 DEF Broadcast
  <2>2. Chained("lost", m, a, s)
    BY <1>b, ChainedLost
  <2> QED BY <1>b, <1>c, <2>1, <2>2
<1>2. CASE Len(s) = BroadcastCap
  <2>1. Broadcast(s, Notice) = Append(u, Notice)
    BY <1>2 DEF Broadcast
  <2>2. s # <<>> /\ 1 \in 1..Len(s)
    BY <1>a, <1>2, EmptySeq
  <2>3. /\ Head(s) = s[1] /\ u \in Seq(Nat) /\ Len(u) = Len(s) - 1
        /\ \A i \in 1..Len(u) : u[i] = s[i + 1]
    BY <1>b, <2>2, HeadTailProperties
  <2>4. s[1] \in 1..m /\ s[1] \in Nat
    BY <2>2, ElementOfSeq
  <2>5. Follows(by, m, a, s[1]) /\ Chained(by, m, s[1], u)
    BY <1>b, <2>2, <2>3, ChainedTail
  <2>6. a < s[1]
    BY <1>a, <2>4, <2>5 DEF Follows, Lossy
  <2>7. Chained("lost", m, s[1], u)
    BY <2>3, <2>4, <2>5, ChainedLost
  <2>8. ASSUME 1 \in 1..Len(u) PROVE Follows("lost", m, a, u[1])
    <3>1. u[1] = s[2] /\ 2 \in 1..Len(s) /\ Len(s) \in 1..Len(s)
      BY <1>a, <2>3, <2>8
    <3>2. s[2] + (Len(s) - 2) <= s[Len(s)] /\ s[1] + (2 - 1) <= s[2]
      BY <2>2, <3>1 DEF Spread
    <3>3. s[2] \in 1..m /\ s[Len(s)] \in 1..m
      BY <3>1, ElementOfSeq
    <3>4. a < s[2] /\ s[2] + BroadcastCap <= m + 2
      BY <1>a, <1>2, <2>4, <2>6, <3>2, <3>3, SMTT(30)
    <3> QED BY <3>1, <3>4 DEF Follows, Notice
  <2>9. Chained("lost", m, a, u)
    BY <2>7, <2>8, ChainedFrom
  <2> QED BY <1>c, <2>1, <2>3, <2>9
<1> QED BY <1>1, <1>2

\* The number that a frame stands for is one of the chunks made, or 0.
LEMMA NumberTyped ==
  ASSUME NEW m \in Nat, NEW f \in FromRunner(m)
  PROVE  Number(m, f) \in 0..m
<1>1. f.n \in 0..m
  BY DEF FromRunner
<1> QED BY <1>1 DEF Number

\* Where the frames end
LEMMA FramesEndTyped ==
  ASSUME NEW m \in Nat, NEW a \in 0..m, NEW s \in Seq(FromRunner(m))
  PROVE  FramesEnd(m, a, s) \in 0..m
<1>1. CASE s = <<>>
  BY <1>1 DEF FramesEnd
<1>2. CASE s # <<>>
  <2>1. Len(s) \in Nat \ {0}
    BY <1>2, EmptySeq
  <2>2. s[Len(s)] \in FromRunner(m)
    BY <2>1, ElementOfSeq
  <2> QED BY <1>2, <2>2, NumberTyped DEF FramesEnd
<1> QED BY <1>1, <1>2

\* Without an exit frame among them, frames mean the same when more is made.
Unfinished(s) == \A i \in 1..Len(s) : s[i].kind # "exit"

\* What the frames mean one by one
LEMMA NumberLonger ==
  ASSUME NEW m \in Nat, NEW n \in Nat, NEW s \in Seq(FromRunner(m)), Unfinished(s),
         NEW i \in 1..Len(s)
  PROVE  Number(n, s[i]) = Number(m, s[i]) /\ Number(m, s[i]) \in Nat /\ s[i].n \in Nat
<1>1. s[i] \in FromRunner(m)
  BY ElementOfSeq
<1>2. Number(m, s[i]) \in 0..m
  BY <1>1, NumberTyped
<1> QED BY <1>1, <1>2 DEF Number, FromRunner, Unfinished

\* Where the frames end
LEMMA FramesEndLonger ==
  ASSUME NEW m \in Nat, NEW n \in Nat, NEW a, NEW s \in Seq(FromRunner(m)), Unfinished(s)
  PROVE  FramesEnd(n, a, s) = FramesEnd(m, a, s)
<1>1. s # <<>> => Len(s) \in 1..Len(s)
  BY LenProperties, EmptySeq
<1> QED BY <1>1, NumberLonger DEF FramesEnd

\* How the frames follow each other
LEMMA FramesLonger ==
  ASSUME NEW by, NEW m \in Nat, NEW n \in Nat, m <= n, NEW a \in Nat,
         NEW s \in Seq(FromRunner(m)), Unfinished(s), FramesChained(by, m, a, s)
  PROVE  FramesChained(by, n, a, s)
<1>1. Len(s) \in Nat
  BY LenProperties
<1>2. ASSUME NEW i \in 1..Len(s)
      PROVE  Number(n, s[i]) = Number(m, s[i]) /\ Number(m, s[i]) \in Nat /\ s[i].n \in Nat
  BY NumberLonger
<1>3. ASSUME NEW i \in 1..Len(s)
      PROVE  Links(by, n, IF i = 1 THEN a ELSE Number(n, s[i - 1]), s[i])
  <2> DEFINE b == IF i = 1 THEN a ELSE Number(m, s[i - 1])
  <2>1. Links(by, m, b, s[i])
    BY DEF FramesChained
  <2>2. b = (IF i = 1 THEN a ELSE Number(n, s[i - 1])) /\ b \in Nat
    <3>1. i # 1 => i - 1 \in 1..Len(s)
      BY <1>1
    <3> QED BY <1>2, <3>1
  <2> HIDE DEF b
  <2>3. Links(by, n, b, s[i])
    <3>1. CASE s[i].kind = "chunk"
      BY <1>2, <2>1, <2>2, <3>1, FollowsLonger DEF Links
    <3>2. CASE s[i].kind # "chunk"
      BY <1>2, <2>1, <3>2 DEF Links
    <3> QED BY <3>1, <3>2
  <2> QED BY <2>2, <2>3
<1> QED BY <1>3 DEF FramesChained

\* The first frame leaves.
LEMMA FramesTail ==
  ASSUME NEW F, NEW by, NEW m, NEW a, NEW s \in Seq(F), s # <<>>, FramesChained(by, m, a, s)
  PROVE  /\ Links(by, m, a, Head(s))
         /\ FramesChained(by, m, Number(m, Head(s)), Tail(s))
         /\ FramesEnd(m, Number(m, Head(s)), Tail(s)) = FramesEnd(m, a, s)
<1> DEFINE u == Tail(s)
<1>1. /\ Head(s) = s[1] /\ Len(s) \in Nat \ {0} /\ u \in Seq(F)
      /\ Len(u) = Len(s) - 1
      /\ \A i \in 1..Len(u) : u[i] = s[i + 1]
  BY HeadTailProperties, EmptySeq
<1> HIDE DEF u
<1>2. Links(by, m, a, s[1])
  BY <1>1 DEF FramesChained
<1>3. ASSUME NEW i \in 1..Len(u)
      PROVE  Links(by, m, IF i = 1 THEN Number(m, Head(s)) ELSE Number(m, u[i - 1]), u[i])
  <2>1. /\ i + 1 \in 1..Len(s) /\ i + 1 # 1 /\ (i + 1) - 1 = i
        /\ u[i] = s[i + 1]
    BY <1>1
  <2>2. Links(by, m, Number(m, s[i]), s[i + 1])
    BY <2>1 DEF FramesChained
  <2>3. i # 1 => i - 1 \in 1..Len(u) /\ (i - 1) + 1 = i
    BY <1>1
  <2>4. i # 1 => u[i - 1] = s[i]
    BY <1>1, <2>3
  <2> QED BY <1>1, <2>1, <2>2, <2>4
<1>4. FramesEnd(m, Number(m, Head(s)), u) = FramesEnd(m, a, s)
  <2>1. CASE u = <<>>
    <3>1. Len(u) = 0
      BY <2>1, EmptySeq
    <3>2. Len(s) = 1
      BY <1>1, <3>1
    <3> QED BY <1>1, <2>1, <3>2 DEF FramesEnd
  <2>2. CASE u # <<>>
    <3>1. Len(u) \in 1..Len(u)
      BY <1>1, <2>2, EmptySeq
    <3> QED BY <1>1, <2>2, <3>1 DEF FramesEnd
  <2> QED BY <2>1, <2>2
<1> QED BY <1>1, <1>2, <1>3, <1>4 DEF FramesChained, u

\* A frame joins.
LEMMA FramesAppend ==
  ASSUME NEW F, NEW by, NEW m, NEW a, NEW s \in Seq(F), NEW f \in F,
         FramesChained(by, m, a, s), Links(by, m, FramesEnd(m, a, s), f)
  PROVE  /\ FramesChained(by, m, a, Append(s, f))
         /\ FramesEnd(m, a, Append(s, f)) = Number(m, f)
<1> DEFINE t == Append(s, f)
<1>1. /\ t # <<>> /\ Len(s) \in Nat /\ Len(t) = Len(s) + 1 /\ t[Len(s) + 1] = f
      /\ \A i \in 1..Len(s) : t[i] = s[i]
  BY AppendProperties, LenProperties
<1> HIDE DEF t
<1>2. ASSUME NEW i \in 1..Len(t)
      PROVE  Links(by, m, IF i = 1 THEN a ELSE Number(m, t[i - 1]), t[i])
  <2>1. CASE i \in 1..Len(s)
    <3>1. i # 1 => i - 1 \in 1..Len(s)
      BY <1>1, <2>1
    <3>2. i # 1 => t[i - 1] = s[i - 1]
      BY <1>1, <3>1
    <3> QED BY <1>1, <2>1, <3>2 DEF FramesChained
  <2>2. CASE i = Len(s) + 1
    <3>1. CASE Len(s) = 0
      <4>1. s = <<>>
        BY <3>1, EmptySeq
      <4> QED BY <1>1, <2>2, <3>1, <4>1 DEF FramesEnd
    <3>2. CASE Len(s) # 0
      <4>1. s # <<>> /\ i # 1 /\ i - 1 = Len(s) /\ Len(s) \in 1..Len(s)
        BY <1>1, <2>2, <3>2, EmptySeq
      <4> QED BY <1>1, <2>2, <4>1 DEF FramesEnd
    <3> QED BY <3>1, <3>2
  <2> QED BY <1>1, <2>1, <2>2
<1> QED BY <1>1, <1>2 DEF FramesChained, FramesEnd, t

-----------------------------------------------------------------------------
(* The command.                                                            *)

\* From c to d a command at most ends, with a code, and starts nothing after.
EndsAs(c, d) ==
    /\ d \in AnyCommand /\ d.made = c.made
    /\ d.is = c.is => d.code = c.code
    /\ d.is # c.is => c.is = "running" /\ d.is = "ended" /\ d.code # NoCode
    /\ c.is = "ended" /\ c.child = "no" => d.child = "no"

\* Killing and the end of a job are ends of this kind (Killed, JobEnds).
LEMMA KilledEnds ==
  ASSUME NEW c \in AnyCommand, NEW code \in Codes
  PROVE  /\ EndsAs(c, c) /\ EndsAs(c, Killed(c, code)) /\ EndsAs(c, KinKilled(c))
         /\ EndsAs(c, KinKilled(Killed(c, code)))
<1>a. code \in CodeOrNone /\ code # NoCode
  BY DEF CodeOrNone, Codes, NoCode
<1>1. EndsAs(c, c)
  BY DEF EndsAs
<1>2. EndsAs(c, Killed(c, code))
  BY <1>a DEF EndsAs, Killed, AnyCommand
<1>3. ASSUME NEW d \in AnyCommand PROVE EndsAs(d, KinKilled(d))
  BY <1>3 DEF EndsAs, KinKilled, AnyCommand
<1>4. EndsAs(c, KinKilled(Killed(c, code)))
  <2>1. Killed(c, code) \in AnyCommand
    BY <1>2 DEF EndsAs
  <2>2. EndsAs(Killed(c, code), KinKilled(Killed(c, code)))
    BY <1>3, <2>1
  <2> QED BY <1>2, <2>2 DEF EndsAs
<1> QED BY <1>1, <1>2, <1>3, <1>4

\* So is what happens to a command when its job is closed.
LEMMA JobEndsAs ==
  ASSUME NEW c \in AnyCommand
  PROVE  EndsAs(c, JobEnds(c))
<1>1. "terminated" \in Codes
  BY DEF Codes
<1> QED BY <1>1, KilledEnds DEF JobEnds

\* Every step of a session but Produce and RunnerSpawns is of this kind.
LEMMA StepEndsAs ==
  ASSUME command \in AnyCommand, (SessionNext /\ ~Produce) \/ (RunnerNext /\ ~RunnerSpawns)
  PROVE  EndsAs(command, command')
<1>a. {"terminated", "signal", "own", "timeout"} \subseteq Codes
  BY DEF Codes
<1>b. EndsAs(command, command)
  BY <1>a, KilledEnds
<1>1. CASE UNCHANGED command
  BY <1>b, <1>1
<1>2. CASE ChildEnds \/ LocalFork \/ RunnerFork
  BY <1>2 DEF ChildEnds, LocalFork, RunnerFork, Fork, Running, EndsAs, AnyCommand
<1>3. CASE CommandEnds
  BY <1>3, <1>a DEF CommandEnds, Running, EndsAs, AnyCommand, CodeOrNone, NoCode
<1>4. CASE WaiterTerminates \/ RunnerTakes
  <2>1. command' \in {command, Killed(command, "terminated")}
    BY <1>4 DEF WaiterTerminates, RunnerTakes
  <2> QED BY <1>a, <1>b, <2>1, KilledEnds
<1>5. CASE RequestTerminate \/ Terminate
  <2>1. \/ \E code \in Codes : command' = KinKilled(Killed(command, code))
        \/ \E code \in Codes : command' = Killed(command, code)
        \/ command' = command
    BY <1>5, <1>a DEF RequestTerminate, Terminate, Kill
  <2> QED BY <1>b, <2>1, KilledEnds
<1>6. CASE RunnerDies \/ StartFails
  <2>1. command' \in {command, JobEnds(command)}
    BY <1>6 DEF RunnerDies, StartFails, RunnerDead
  <2> QED BY <1>b, <2>1, JobEndsAs
<1>7. CASE RunnerSeesEnd
  BY <1>7, JobEndsAs DEF RunnerSeesEnd, Finished
<1>8. CASE RunnerTimesOut
  <2> DEFINE c == Killed(command, "terminated")
  <2>1. EndsAs(command, c)
    BY <1>a, KilledEnds
  <2>2. EndsAs(c, JobEnds(c))
    BY <2>1, JobEndsAs DEF EndsAs
  <2>3. command' = JobEnds(c)
    BY <1>8 DEF RunnerTimesOut, Finished
  <2> HIDE DEF c
  <2> QED BY <2>1, <2>2, <2>3 DEF EndsAs
<1>9. CASE SessionNext /\ ~Produce /\ ~ChildEnds /\ ~LocalFork /\ ~CommandEnds /\ ~WaiterTerminates
             /\ ~RequestTerminate /\ ~Terminate
  BY <1>9, <1>1
     DEF SessionNext, Reading, ReadDirect, ReadLegacy, ReadEof, Streaming, StreamForwards, StreamEnds,
         Waiting, WaitSees, WaitTells, LegacyWaiting, WaiterReadsCode, WaiterJoins, WaiterTimesOut,
         Writing, WriterWrites, WriterEnds, CommandStep, CommandReads, ClientStep, Write, CloseStdin,
         Receive, ReceiveEnd, StopListening
<1>10. CASE RunnerNext /\ ~RunnerSpawns /\ ~RunnerFork /\ ~RunnerTakes /\ ~RunnerDies /\ ~StartFails
              /\ ~RunnerSeesEnd /\ ~RunnerTimesOut
  BY <1>10, <1>1
     DEF RunnerNext, RunnerMain, RunnerOpens, RunnerReadsRequest, RunnerRefuses, RunnerAssigns,
         RunnerReady, RunnerExits, RunnerReads, RunnerInput, RunnerInputEnds, Handshake,
         ClientConnects, ClientRequests, ClientIsUp, FrameReader, StdinWriter, RunnerClientStep,
         RunnerRequestTerminate, RunnerTerminate, sessionVars
<1> QED BY <1>2, <1>3, <1>4, <1>5, <1>6, <1>7, <1>8, <1>9, <1>10

-----------------------------------------------------------------------------
(* Types: every step of a session keeps them.                              *)

\* The first element of a sequence leaves, and one joins another sequence.
LEMMA HeadLeaves ==
  ASSUME NEW S, NEW s \in Seq(S), s # <<>>, NEW cap \in Nat, Len(s) <= cap
  PROVE  Tail(s) \in Seq(S) /\ Len(Tail(s)) <= cap /\ Head(s) \in S
<1>1. Tail(s) \in Seq(S) /\ Len(Tail(s)) = Len(s) - 1 /\ Head(s) \in S
  BY HeadTailProperties
<1>2. Len(s) \in Nat
  BY LenProperties
<1>3. Len(s) - 1 <= cap
  BY <1>2
<1> QED BY <1>1, <1>3

\* One more is taken by a channel that is not full.
LEMMA OneJoins ==
  ASSUME NEW S, NEW s \in Seq(S), NEW e \in S, NEW cap \in Nat, Len(s) < cap
  PROVE  Append(s, e) \in Seq(S) /\ Len(Append(s, e)) <= cap
<1>1. Append(s, e) \in Seq(S) /\ Len(Append(s, e)) = Len(s) + 1
  BY AppendProperties
<1>2. Len(s) \in Nat
  BY LenProperties
<1>3. Len(s) + 1 <= cap
  BY <1>2
<1> QED BY <1>1, <1>3

\* The broadcast channel holds no more than it may.
LEMMA BroadcastTyped ==
  ASSUME NEW S, NEW s \in Seq(S), Len(s) <= BroadcastCap, NEW c \in S
  PROVE  Broadcast(s, c) \in Seq(S) /\ Len(Broadcast(s, c)) <= BroadcastCap
<1>a. BroadcastCap \in Nat \ {0} /\ Len(s) \in Nat
  BY CapsAssumption, LenProperties DEF CapsAssumption
<1> DEFINE kept == IF Len(s) = BroadcastCap THEN Tail(s) ELSE s
<1>1. s # <<>> => Tail(s) \in Seq(S) /\ Len(Tail(s)) = Len(s) - 1
  BY HeadTailProperties
<1>2. Len(s) = BroadcastCap => s # <<>>
  BY <1>a, EmptySeq
<1>3. kept \in Seq(S) /\ Len(kept) < BroadcastCap
  <2>1. CASE Len(s) = BroadcastCap
    <3>1. kept = Tail(s)
      BY <2>1
    <3> HIDE DEF kept
    <3> QED BY <1>a, <1>1, <1>2, <2>1, <3>1
  <2>2. CASE Len(s) # BroadcastCap
    BY <1>a, <2>2
  <2> QED BY <2>1, <2>2
<1>4. Broadcast(s, c) = Append(kept, c)
  BY DEF Broadcast
<1> HIDE DEF kept
<1> QED BY <1>a, <1>3, <1>4, OneJoins

\* An abort stops the async tasks of the backend that have not come to their end
\* (AbortTasks).
LEMMA AbortStops ==
  ASSUME task \in AnyTask, stdin \in AnyStdin, AbortTasks
  PROVE  /\ task' \in AnyTask /\ stdin' \in AnyStdin
         /\ task'.reader # task.reader => task'.reader = "aborted" /\ backend = "pipe"
         /\ task'.reader # task.reader => task.reader = "running"
         /\ task'.stream # task.stream => task'.stream = "aborted" /\ ~Direct
         /\ task'.stream # task.stream => task.stream = "running"
         /\ task'.wait # task.wait => task'.wait = "aborted" /\ task.wait = "waiting"
<1> DEFINE aborts == CASE backend = "pipe" -> PipeAborts
                       [] OnPty -> PtyAborts
                       [] OTHER -> DriverAborts
<1>1. /\ DOMAIN task = {"reader", "stream", "wait", "writer"}
      /\ \A t \in {"reader", "stream", "writer"} : task[t] \in ReaderAt
      /\ task["wait"] \in WaitAt
  BY DEF AnyTask
<1>2. task' = [t \in DOMAIN task |->
                 IF t \in aborts /\ task[t] \in {"running", "waiting"}
                 THEN "aborted" ELSE task[t]]
  BY DEF AbortTasks
<1>3. /\ "reader" \in aborts => backend = "pipe"
      /\ "stream" \in aborts => ~Direct
  BY DEF PipeAborts, PtyAborts, DriverAborts, Direct
<1> HIDE DEF aborts
<1>4. /\ DOMAIN task' = {"reader", "stream", "wait", "writer"}
      /\ \A t \in {"reader", "stream", "wait", "writer"} :
           task'[t] = IF t \in aborts /\ task[t] \in {"running", "waiting"}
                      THEN "aborted" ELSE task[t]
  BY <1>1, <1>2
<1>5. /\ task'.reader \in ReaderAt /\ task'.stream \in ReaderAt
      /\ task'.writer \in ReaderAt /\ task'.wait \in WaitAt
  BY <1>1, <1>4 DEF ReaderAt, WaitAt
<1>6. task' = [reader |-> task'.reader, stream |-> task'.stream, wait |-> task'.wait,
               writer |-> task'.writer]
  BY <1>2, <1>4
<1>7. task' \in AnyTask
  BY <1>5, <1>6 DEF AnyTask
<1>8. stdin' \in AnyStdin
  <2>1. stdin' = [stdin EXCEPT !.open = stdin.open /\ task'.writer # "aborted"]
    BY DEF AbortTasks, AnyStdin
  <2> QED BY <2>1 DEF AnyStdin
<1> QED BY <1>1, <1>3, <1>4, <1>7, <1>8 DEF ReaderAt, WaitAt

\* A step keeps the types of what it leaves alone.
LEMMA TypesOfOthers ==
  ASSUME SessionTyped, scenario' = scenario, EndsAs(command, command')
  PROVE  /\ CommandTyped'
         /\ chan' = chan => ChanTyped'
         /\ outbox' = outbox => OutboxTyped'
         /\ client' = client => ClientTyped'
         /\ runner' = runner => RunnerTyped'
         /\ UNCHANGED <<task, exit, stdin, waiter, link, inbox>> => TasksTyped'
  BY DEF SessionTyped, CommandTyped, ChanTyped, OutboxTyped, ClientTyped, RunnerTyped, TasksTyped,
     EndsAs

\* A chunk is made and goes into the pipe (Produce).
LEMMA ProduceTyped ==
  ASSUME SessionTyped, Produce, UNCHANGED runnerVars
  PROVE  SessionTyped'
<1> DEFINE m == command.made
<1>1. m \in Nat /\ scenario \in Scenarios /\ command \in AnyCommand /\ scenario.chunks \in Nat
  BY CapsAssumption DEF SessionTyped, CommandTyped, AnyCommand, CapsAssumption
<1>2. command'.made = m + 1 /\ command' \in AnyCommand
  BY <1>1 DEF Produce, AnyCommand
<1>3. CommandTyped'
  BY <1>1, <1>2 DEF Produce, CommandTyped
<1>4. /\ \A s : s \in Seq(1..m) => s \in Seq(1..(m + 1))
      /\ \A s : s \in Seq(Numbers(m)) => s \in Seq(Numbers(m + 1))
  <2>1. 1..m \subseteq 1..(m + 1) /\ Numbers(m) \subseteq Numbers(m + 1)
    BY <1>1 DEF Numbers
  <2> QED BY <2>1, SeqMonotonic
<1>5. ChanTyped'
  <2>1. /\ chan.pipe \in Seq(1..m) /\ chan.bcast \in Seq(Numbers(m))
        /\ chan.queue \in Seq(Numbers(m))
        /\ chan.input \in 0..InputCap /\ chan \in AnyChan(m)
        /\ Len(chan.bcast) <= BroadcastCap /\ Len(chan.queue) <= QueueCap
    BY DEF SessionTyped, ChanTyped, AnyChan
  <2>2. m + 1 \in 1..(m + 1) /\ chan.pipe \in Seq(1..(m + 1)) /\ PipeCap \in Nat
    BY <1>1, <1>4, <2>1, CapsAssumption, SMTT(30) DEF CapsAssumption
  <2>3. Append(chan.pipe, m + 1) \in Seq(1..(m + 1)) /\ Len(Append(chan.pipe, m + 1)) = Len(chan.pipe) + 1
        /\ Len(chan.pipe) \in Nat
    BY <2>2, AppendProperties, LenProperties
  <2>4. Len(Append(chan.pipe, m + 1)) <= PipeCap
    BY <2>2, <2>3 DEF Produce
  <2>5. /\ chan'.pipe = Append(chan.pipe, m + 1) /\ chan'.bcast = chan.bcast
        /\ chan'.queue = chan.queue
    BY <2>1 DEF Produce, AnyChan
  <2>6. chan' \in AnyChan(m + 1)
    BY <1>4, <2>1, <2>3 DEF Produce, AnyChan
  <2> QED BY <1>2, <2>1, <2>4, <2>5, <2>6 DEF ChanTyped
<1>6. OutboxTyped'
  <2>1. FromRunner(m) \subseteq FromRunner(m + 1)
    BY <1>1 DEF FromRunner
  <2> QED BY <1>2, <2>1, SeqMonotonic DEF SessionTyped, OutboxTyped, runnerVars
<1>7. ClientTyped'
  BY <1>2, <1>4 DEF SessionTyped, ClientTyped, AnyClient, Produce
<1>8. TasksTyped' /\ RunnerTyped'
  BY DEF SessionTyped, TasksTyped, RunnerTyped, Produce, runnerVars
<1> QED BY <1>3, <1>5, <1>6, <1>7, <1>8 DEF SessionTyped

\* The other steps of PtySession keep the types.
LEMMA SessionNextTyped ==
  ASSUME SessionTyped, SessionNext, UNCHANGED runnerVars
  PROVE  SessionTyped'
<1> DEFINE m == command.made
<1>a. /\ m \in Nat /\ scenario.chunks \in Nat /\ scenario.writes \in Nat /\ command \in AnyCommand
      /\ PipeCap \in Nat \ {0} /\ BroadcastCap \in Nat \ {0} /\ QueueCap \in Nat \ {0}
      /\ InputCap \in Nat \ {0} /\ StdinCap \in Nat \ {0}
  BY CapsAssumption DEF SessionTyped, CommandTyped, AnyCommand, CapsAssumption
<1>b. /\ chan \in AnyChan(m) /\ client \in AnyClient(m, scenario.writes)
      /\ chan.pipe \in Seq(1..m) /\ chan.bcast \in Seq(Numbers(m))
      /\ chan.queue \in Seq(Numbers(m)) /\ 1..m \subseteq Numbers(m)
      /\ chan.input \in 0..InputCap
      /\ Len(chan.pipe) <= PipeCap /\ Len(chan.bcast) <= BroadcastCap /\ Len(chan.queue) <= QueueCap
  BY DEF SessionTyped, ChanTyped, AnyChan, ClientTyped, Numbers
<1>c. task \in AnyTask /\ exit \in AnyExit /\ stdin \in AnyStdin /\ waiter \in WaiterAt
  BY DEF SessionTyped, TasksTyped
<1>d. CASE Produce
  BY <1>d, ProduceTyped
<1>e. ASSUME ~Produce
      PROVE  /\ CommandTyped' /\ OutboxTyped' /\ RunnerTyped' /\ command'.made = m
             /\ scenario' = scenario
             /\ chan' = chan => ChanTyped'
             /\ client' = client => ClientTyped'
             /\ UNCHANGED <<task, exit, stdin, waiter>> => TasksTyped'
  <2>1. scenario' = scenario
    BY <1>e DEF SessionNext, Reading, ReadDirect, ReadLegacy, ReadEof, Streaming, StreamForwards, StreamEnds,
         Waiting, WaitSees, WaitTells, LegacyWaiting, WaiterTerminates, WaiterReadsCode, WaiterJoins,
         WaiterTimesOut, Writing, WriterWrites, WriterEnds, CommandStep, ChildEnds, CommandEnds,
         CommandReads, LocalFork, Fork, ClientStep, Write, CloseStdin, Receive, ReceiveEnd,
         StopListening, RequestTerminate, Terminate
  <2>2. EndsAs(command, command')
    BY <1>a, <1>e, StepEndsAs
  <2> QED BY <2>1, <2>2, TypesOfOthers DEF runnerVars, EndsAs
<1> SUFFICES ASSUME ~Produce PROVE ChanTyped' /\ ClientTyped' /\ TasksTyped'
  BY <1>d, <1>e DEF SessionTyped
<1>f. /\ command'.made = m /\ scenario' = scenario /\ UNCHANGED <<link, inbox>>
      /\ chan' = chan => ChanTyped'
      /\ client' = client => ClientTyped'
      /\ UNCHANGED <<task, exit, stdin, waiter>> => TasksTyped'
  BY <1>e DEF runnerVars
\* what is to be shown of a new value of each variable
<1>g. ASSUME chan' \in AnyChan(m), Len(chan'.pipe) <= PipeCap, Len(chan'.bcast) <= BroadcastCap,
             Len(chan'.queue) <= QueueCap
      PROVE  ChanTyped'
  BY <1>f, <1>g DEF ChanTyped
<1>h. ASSUME client' \in AnyClient(m, scenario.writes) PROVE ClientTyped'
  BY <1>f, <1>h DEF ClientTyped
<1>i. ASSUME task' \in AnyTask, exit' \in AnyExit, stdin' \in AnyStdin, waiter' \in WaiterAt
      PROVE  TasksTyped'
  BY <1>f, <1>i DEF SessionTyped, TasksTyped
<1>j. command.code \in CodeOrNone /\ exit.ch \in CodeOrNone
  BY <1>a, <1>c DEF AnyCommand, AnyExit
<1> HIDE DEF m
<1>1. CASE ReadDirect
  <2> DEFINE q == IF client.listening THEN Append(chan.queue, Head(chan.pipe)) ELSE chan.queue
  <2>0. /\ Tail(chan.pipe) \in Seq(1..m) /\ Len(Tail(chan.pipe)) <= PipeCap
        /\ Head(chan.pipe) \in 1..m
    BY <1>1, <1>a, <1>b, HeadLeaves DEF ReadDirect
  <2>1. q \in Seq(Numbers(m)) /\ Len(q) <= QueueCap
    <3>1. CASE client.listening
      <4>1. Len(chan.queue) < QueueCap
        BY <1>1, <3>1 DEF ReadDirect
      <4> QED BY <1>a, <1>b, <2>0, <3>1, <4>1, OneJoins
    <3>2. CASE ~client.listening
      BY <1>b, <3>2
    <3> QED BY <3>1, <3>2
  <2>2. chan' = [chan EXCEPT !.pipe = Tail(chan.pipe), !.queue = q]
    BY <1>1, <1>b DEF ReadDirect, AnyChan
  <2> HIDE DEF q
  <2>3. /\ chan' \in AnyChan(m) /\ chan'.pipe = Tail(chan.pipe) /\ chan'.queue = q
        /\ chan'.bcast = chan.bcast
    BY <1>b, <2>0, <2>1, <2>2 DEF AnyChan
  <2> QED BY <1>1, <1>b, <1>f, <1>g, <2>0, <2>1, <2>3 DEF ReadDirect
<1>2. CASE ReadLegacy
  <2> DEFINE b == Broadcast(chan.bcast, Head(chan.pipe))
  <2>1. Tail(chan.pipe) \in Seq(1..m) /\ Len(Tail(chan.pipe)) <= PipeCap /\ Head(chan.pipe) \in 1..m
    BY <1>2, <1>a, <1>b, HeadLeaves DEF ReadLegacy
  <2>2. b \in Seq(Numbers(m)) /\ Len(b) <= BroadcastCap
    BY <1>b, <2>1, BroadcastTyped
  <2>3. chan' = [chan EXCEPT !.pipe = Tail(chan.pipe), !.bcast = b]
    BY <1>2, <1>b DEF ReadLegacy, AnyChan
  <2> HIDE DEF b
  <2>4. /\ chan' \in AnyChan(m) /\ chan'.pipe = Tail(chan.pipe) /\ chan'.bcast = b
        /\ chan'.queue = chan.queue
    BY <1>b, <2>1, <2>2, <2>3 DEF AnyChan
  <2> QED BY <1>2, <1>b, <1>f, <1>g, <2>1, <2>2, <2>4 DEF ReadLegacy
<1>3. CASE ReadEof \/ StreamEnds
  <2>1. task' \in AnyTask
    BY <1>3, <1>c DEF ReadEof, StreamEnds, AnyTask, ReaderAt
  <2> QED BY <1>3, <1>c, <1>f, <1>i, <2>1 DEF ReadEof, StreamEnds
<1>4. CASE StreamForwards
  <2>1. /\ Tail(chan.bcast) \in Seq(Numbers(m)) /\ Len(Tail(chan.bcast)) <= BroadcastCap
        /\ Head(chan.bcast) \in Numbers(m)
    BY <1>4, <1>a, <1>b, HeadLeaves DEF StreamForwards
  <2>2. CASE client.listening
    <3>0. /\ Append(chan.queue, Head(chan.bcast)) \in Seq(Numbers(m))
          /\ Len(Append(chan.queue, Head(chan.bcast))) <= QueueCap
      <4>1. Len(chan.queue) < QueueCap
        BY <1>4, <2>2 DEF StreamForwards
      <4> QED BY <1>a, <1>b, <2>1, <4>1, OneJoins
    <3>1. chan' = [chan EXCEPT !.bcast = Tail(chan.bcast), !.queue = Append(chan.queue, Head(chan.bcast))]
      BY <1>4, <1>b, <2>2 DEF StreamForwards, AnyChan
    <3>2. /\ chan' \in AnyChan(m) /\ chan'.bcast = Tail(chan.bcast) /\ chan'.pipe = chan.pipe
          /\ chan'.queue = Append(chan.queue, Head(chan.bcast))
      BY <1>b, <2>1, <3>0, <3>1 DEF AnyChan
    <3> QED BY <1>4, <1>b, <1>f, <1>g, <2>1, <2>2, <3>0, <3>2 DEF StreamForwards
  <2>3. CASE ~client.listening
    <3>1. task' \in AnyTask
      BY <1>4, <1>c, <2>3 DEF StreamForwards, AnyTask, ReaderAt
    <3>2. /\ chan' \in AnyChan(m) /\ chan'.bcast = Tail(chan.bcast) /\ chan'.pipe = chan.pipe
          /\ chan'.queue = chan.queue
      BY <1>4, <1>b, <2>1, <2>3 DEF StreamForwards, AnyChan
    <3> QED BY <1>4, <1>b, <1>c, <1>f, <1>g, <1>i, <2>1, <3>1, <3>2 DEF StreamForwards
  <2> QED BY <2>2, <2>3
<1>5. CASE WaitSees \/ WaitTells
  <2>1. task' \in AnyTask
    BY <1>5, <1>c DEF WaitSees, WaitTells, AnyTask, WaitAt
  <2>2. exit' \in AnyExit
    <3>1. KnownCode \in CodeOrNone
      BY <1>j DEF KnownCode
    <3> QED BY <1>5, <1>c, <3>1 DEF WaitSees, WaitTells, AnyExit
  <2> QED BY <1>5, <1>c, <1>f, <1>i, <2>1, <2>2 DEF WaitSees, WaitTells
<1>6. CASE WaiterTimesOut \/ WaiterTerminates \/ WaiterReadsCode
  <2>1. waiter' \in WaiterAt
    BY <1>6 DEF WaiterTimesOut, WaiterTerminates, WaiterReadsCode, WaiterAt
  <2> QED BY <1>6, <1>c, <1>f, <1>i, <2>1 DEF WaiterTimesOut, WaiterTerminates, WaiterReadsCode
<1>7. CASE WaiterJoins
  <2>1. waiter' \in WaiterAt /\ exit' \in AnyExit
    BY <1>7, <1>c, <1>j DEF WaiterJoins, WaiterAt, AnyExit
  <2> QED BY <1>7, <1>c, <1>f, <1>i, <2>1 DEF WaiterJoins
<1>8. CASE Write
  <2>1. /\ chan' \in AnyChan(m) /\ chan'.pipe = chan.pipe /\ chan'.bcast = chan.bcast
        /\ chan'.queue = chan.queue
    <3>0. chan.input \in 0..InputCap /\ InputCap \in Nat
      BY <1>a, <1>b
    <3>1. chan.input + 1 \in 0..InputCap /\ chan' = [chan EXCEPT !.input = chan.input + 1]
      BY <1>8, <3>0 DEF Write
    <3> QED BY <1>b, <3>1 DEF AnyChan
  <2>2. client' \in AnyClient(m, scenario.writes)
    <3>1. client.writes \in 0..scenario.writes
      BY <1>b DEF AnyClient
    <3>2. /\ client.writes + 1 \in 0..scenario.writes
          /\ client' = [client EXCEPT !.writes = client.writes + 1]
      BY <1>8, <1>a, <3>1 DEF Write
    <3> QED BY <1>b, <3>2 DEF AnyClient
  <2> QED BY <1>8, <1>b, <1>f, <1>g, <1>h, <2>1, <2>2 DEF Write
<1>9. CASE CloseStdin \/ ReceiveEnd
  <2>1. client' \in AnyClient(m, scenario.writes)
    BY <1>9, <1>b DEF CloseStdin, ReceiveEnd, AnyClient
  <2> QED BY <1>9, <1>f, <1>h, <2>1 DEF CloseStdin, ReceiveEnd
<1>10. CASE WriterWrites
  <2>1. /\ chan' \in AnyChan(m) /\ chan'.pipe = chan.pipe /\ chan'.bcast = chan.bcast
        /\ chan'.queue = chan.queue
    <3>0. chan.input \in 0..InputCap /\ InputCap \in Nat
      BY <1>a, <1>b
    <3>1. chan.input - 1 \in 0..InputCap /\ chan' = [chan EXCEPT !.input = chan.input - 1]
      BY <1>10, <3>0 DEF WriterWrites
    <3> QED BY <1>b, <3>1 DEF AnyChan
  <2>2. task' \in AnyTask
    <3> DEFINE w == IF Running \/ backend # "legacy" THEN task.writer ELSE "done"
    <3>1. w \in ReaderAt /\ task' = [task EXCEPT !.writer = w]
      BY <1>10, <1>c DEF WriterWrites, AnyTask, ReaderAt
    <3> HIDE DEF w
    <3> QED BY <1>c, <3>1 DEF AnyTask
  <2>3. stdin' \in AnyStdin
    <3> DEFINE level == IF Running THEN stdin.level + 1 ELSE stdin.level
    <3> DEFINE open == stdin.open /\ (Running \/ backend # "legacy")
    <3>1. level \in 0..StdinCap /\ open \in BOOLEAN
      BY <1>10, <1>a, <1>c DEF WriterWrites, AnyStdin
    <3>2. stdin' = [level |-> level, open |-> open]
      BY <1>10 DEF WriterWrites
    <3> HIDE DEF level, open
    <3> QED BY <3>1, <3>2 DEF AnyStdin
  <2> QED BY <1>10, <1>b, <1>c, <1>f, <1>g, <1>i, <2>1, <2>2, <2>3 DEF WriterWrites
<1>11. CASE WriterEnds
  <2>1. task' \in AnyTask /\ stdin' \in AnyStdin
    BY <1>11, <1>c DEF WriterEnds, AnyTask, AnyStdin, ReaderAt
  <2> QED BY <1>11, <1>c, <1>f, <1>i, <2>1 DEF WriterEnds
<1>12. CASE ChildEnds \/ CommandEnds \/ LocalFork
  BY <1>12, <1>f DEF ChildEnds, CommandEnds, LocalFork, Fork
<1>13. CASE CommandReads
  <2>1. stdin' \in AnyStdin
    BY <1>13, <1>a, <1>c DEF CommandReads, AnyStdin
  <2> QED BY <1>13, <1>c, <1>f, <1>i, <2>1 DEF CommandReads
<1>14. CASE Receive
  <2>0. client.got \in Seq(Numbers(m))
    BY <1>b DEF AnyClient
  <2>1. /\ Tail(chan.queue) \in Seq(Numbers(m)) /\ Len(Tail(chan.queue)) <= QueueCap
        /\ Append(client.got, Head(chan.queue)) \in Seq(Numbers(m))
    <3>1. /\ Tail(chan.queue) \in Seq(Numbers(m)) /\ Len(Tail(chan.queue)) <= QueueCap
          /\ Head(chan.queue) \in Numbers(m)
      BY <1>14, <1>a, <1>b, HeadLeaves DEF Receive
    <3> QED BY <2>0, <3>1, AppendProperties
  <2>2. client' \in AnyClient(m, scenario.writes)
    BY <1>14, <1>b, <2>1 DEF Receive, AnyClient
  <2>3. /\ chan' \in AnyChan(m) /\ chan'.pipe = chan.pipe /\ chan'.bcast = chan.bcast
        /\ chan'.queue = Tail(chan.queue)
    BY <1>14, <1>b, <2>1 DEF Receive, AnyChan
  <2> QED BY <1>14, <1>b, <1>f, <1>g, <1>h, <2>1, <2>2, <2>3 DEF Receive
<1>15. CASE StopListening
  <2>1. client' \in AnyClient(m, scenario.writes)
    BY <1>15, <1>b DEF StopListening, AnyClient
  <2>2. <<>> \in Seq(Numbers(m)) /\ Len(<<>>) <= QueueCap
    BY <1>a, EmptySeq
  <2>3. /\ chan' \in AnyChan(m) /\ chan'.pipe = chan.pipe /\ chan'.bcast = chan.bcast
        /\ chan'.queue = <<>>
    BY <1>15, <1>b, <2>2 DEF StopListening, AnyChan
  <2> QED BY <1>15, <1>b, <1>f, <1>g, <1>h, <2>1, <2>2, <2>3 DEF StopListening
<1>16. CASE RequestTerminate
  <2>1. client' \in AnyClient(m, scenario.writes)
    BY <1>16, <1>b DEF RequestTerminate, AnyClient
  <2> QED BY <1>16, <1>f, <1>h, <2>1 DEF RequestTerminate
<1>17. CASE Terminate
  <2>1. client' \in AnyClient(m, scenario.writes)
    BY <1>17, <1>b DEF Terminate, AnyClient
  <2>2. task' \in AnyTask /\ stdin' \in AnyStdin
    BY <1>17, <1>c, AbortStops DEF Terminate
  <2> QED BY <1>17, <1>c, <1>f, <1>h, <1>i, <2>1, <2>2 DEF Terminate
<1> QED BY <1>1, <1>2, <1>3, <1>4, <1>5, <1>6, <1>7, <1>8, <1>9, <1>10, <1>11, <1>12, <1>13, <1>14,
           <1>15, <1>16, <1>17
        DEF SessionNext, Reading, Streaming, Waiting, LegacyWaiting, Writing, CommandStep, ClientStep

\* The steps of the runner and of its client keep the types, and so does a logon.
LEMMA RunnerNextTyped ==
  ASSUME SessionTyped, RunnerInv, RunnerInv', RunnerNext \/ \E accepted \in BOOLEAN : Logon(accepted)
  PROVE  SessionTyped'
<1> DEFINE m == command.made
<1>a. /\ m \in Nat /\ scenario.chunks \in Nat /\ command \in AnyCommand
      /\ InputCap \in Nat \ {0} /\ StdinCap \in Nat \ {0}
      /\ PipeCap \in Nat /\ BroadcastCap \in Nat
  BY CapsAssumption DEF SessionTyped, CommandTyped, AnyCommand, CapsAssumption
<1>b. /\ chan \in AnyChan(m) /\ client \in AnyClient(m, scenario.writes)
      /\ chan.pipe \in Seq(1..m) /\ chan.bcast \in Seq(Numbers(m))
      /\ chan.queue \in Seq(Numbers(m)) /\ 1..m \subseteq Numbers(m)
      /\ chan.input \in 0..InputCap
      /\ Len(chan.pipe) <= PipeCap /\ Len(chan.bcast) <= BroadcastCap /\ Len(chan.queue) <= QueueCap
      /\ outbox \in Seq(FromRunner(m))
  BY DEF SessionTyped, ChanTyped, AnyChan, ClientTyped, OutboxTyped, Numbers
<1>c. /\ task \in AnyTask /\ exit \in AnyExit /\ stdin \in AnyStdin /\ waiter \in WaiterAt
      /\ inbox \in Seq(ToRunner)
      /\ link \in {"logon", "pipe-in", "pipe-out", "request", "await", "up", "failed"}
  BY DEF SessionTyped, TasksTyped
<1>d. /\ runner \in AnyRunner /\ runner' \in AnyRunner /\ runner.opened \in Nat /\ runner.opened <= 2
      /\ runner.at = "starting" => runner.opened <= 1
      /\ runner.at = "none" => runner.opened = 0
  BY DEF SessionTyped, RunnerTyped, RunnerInv, AnyRunner
<1>e. CASE RunnerSpawns
  <2>1. command' \in AnyCommand /\ command'.made = m
    BY <1>e, <1>a DEF RunnerSpawns, AnyCommand
  <2>2. runner'.opened = runner.opened /\ runner'.at = "spawned"
    BY <1>e, <1>d DEF RunnerSpawns, AnyRunner
  <2>3. RunnerTyped'
    BY <1>d, <2>2 DEF RunnerTyped
  <2> QED BY <1>e, <2>1, <2>3
          DEF RunnerSpawns, SessionTyped, CommandTyped, ChanTyped, OutboxTyped, ClientTyped, TasksTyped
<1>f. ASSUME ~RunnerSpawns
      PROVE  /\ CommandTyped' /\ command'.made = m /\ scenario' = scenario /\ waiter' = waiter
             /\ chan' = chan => ChanTyped'
             /\ outbox' = outbox => OutboxTyped'
             /\ client' = client => ClientTyped'
             /\ runner' = runner => RunnerTyped'
             /\ UNCHANGED <<task, exit, stdin, link, inbox>> => TasksTyped'
  <2>1. scenario' = scenario /\ waiter' = waiter
    BY DEF RunnerNext, RunnerMain, RunnerOpens, RunnerReadsRequest, RunnerRefuses, RunnerSpawns,
         RunnerAssigns, RunnerReady, RunnerSeesEnd, RunnerTimesOut, Finished, RunnerDies, RunnerFork, Fork,
         RunnerExits, RunnerReads, RunnerInput, RunnerTakes, RunnerInputEnds, Handshake,
         ClientConnects, ClientRequests, ClientIsUp, StartFails, FrameReader, StdinWriter,
         RunnerClientStep, RunnerRequestTerminate, RunnerTerminate, sessionVars, Logon
  <2>2. EndsAs(command, command')
    <3>1. CASE \E accepted \in BOOLEAN : Logon(accepted)
      <4>1. command' = command
        BY <3>1 DEF Logon, sessionVars
      <4> QED BY <1>a, <4>1 DEF EndsAs
    <3>2. CASE RunnerNext
      BY <1>a, <1>f, <3>2, StepEndsAs
    <3> QED BY <3>1, <3>2
  <2> QED BY <2>1, <2>2, TypesOfOthers DEF EndsAs
<1> SUFFICES ASSUME ~RunnerSpawns
             PROVE  ChanTyped' /\ OutboxTyped' /\ ClientTyped' /\ TasksTyped' /\ RunnerTyped'
  BY <1>e, <1>f DEF SessionTyped
<1>g. /\ command'.made = m /\ scenario' = scenario /\ waiter' = waiter
      /\ chan' = chan => ChanTyped'
      /\ outbox' = outbox => OutboxTyped'
      /\ client' = client => ClientTyped'
      /\ runner' = runner => RunnerTyped'
      /\ UNCHANGED <<task, exit, stdin, link, inbox>> => TasksTyped'
  BY <1>f
\* what is to be shown of a new value of each variable
<1>h. ASSUME chan' \in AnyChan(m), Len(chan'.pipe) <= PipeCap, Len(chan'.bcast) <= BroadcastCap,
             chan'.queue = chan.queue
      PROVE  ChanTyped'
  BY <1>b, <1>g, <1>h DEF ChanTyped
<1>i. ASSUME client' \in AnyClient(m, scenario.writes) PROVE ClientTyped'
  BY <1>g, <1>i DEF ClientTyped
<1>j. ASSUME task' \in AnyTask, exit' \in AnyExit, stdin' \in AnyStdin, inbox' \in Seq(ToRunner),
             link' \in {"logon", "pipe-in", "pipe-out", "request", "await", "up", "failed"}
      PROVE  TasksTyped'
  BY <1>c, <1>g, <1>j DEF TasksTyped
<1>k. ASSUME outbox' \in Seq(FromRunner(m)) PROVE OutboxTyped'
  BY <1>g, <1>k DEF OutboxTyped
<1>l. ASSUME runner'.opened = runner.opened, runner'.at \notin {"none", "starting"}
      PROVE  RunnerTyped'
  BY <1>d, <1>l DEF RunnerTyped
<1> HIDE DEF m
<1>m. \A kind \in {"request", "data", "close", "terminate"} :
        Append(inbox, Signal(kind)) \in Seq(ToRunner)
  <2> SUFFICES ASSUME NEW kind \in {"request", "data", "close", "terminate"}
               PROVE  Append(inbox, Signal(kind)) \in Seq(ToRunner)
    OBVIOUS
  <2>1. Signal(kind) \in ToRunner
    BY DEF Signal, Frame, ToRunner
  <2> QED BY <1>c, <2>1, AppendProperties
<1>n. ASSUME NEW f \in FromRunner(m), outbox' = Append(outbox, f) PROVE OutboxTyped'
  BY <1>b, <1>k, <1>n, AppendProperties
<1>o. ASSUME outbox # <<>>, outbox' = Tail(outbox) PROVE OutboxTyped'
  BY <1>b, <1>k, <1>o, HeadTailProperties
<1>p. ASSUME inbox # <<>>, inbox' = Tail(inbox) PROVE inbox' \in Seq(ToRunner)
  BY <1>c, <1>p, HeadTailProperties
<1>1. CASE \E accepted \in BOOLEAN : Logon(accepted)
  <2> PICK accepted \in BOOLEAN : Logon(accepted)
    BY <1>1
  <2>1. RunnerTyped'
    <3>1. runner.at = "none"
      BY DEF Logon, RunnerInv, Elevated, backend, LinkMatches
    <3>2. runner'.opened = 0 /\ runner'.at \in {"none", "starting"}
      BY <1>d, <3>1 DEF Logon, AnyRunner
    <3> QED BY <1>d, <3>2 DEF RunnerTyped
  <2> QED BY <1>c, <1>g, <1>j, <2>1 DEF Logon, sessionVars
<1>2. CASE RunnerOpens
  <2>1. RunnerTyped'
    BY <1>2, <1>d DEF RunnerOpens, RunnerTyped, AnyRunner
  <2> QED BY <1>2, <1>g, <2>1 DEF RunnerOpens, sessionVars
<1>3. CASE RunnerReadsRequest
  <2>1. RunnerTyped'
    BY <1>3, <1>d, <1>l DEF RunnerReadsRequest, AnyRunner
  <2> QED BY <1>3, <1>c, <1>g, <1>j, <1>p, <2>1 DEF RunnerReadsRequest, sessionVars
<1>4. CASE RunnerRefuses \/ RunnerReady
  <2>1. RunnerTyped'
    BY <1>4, <1>d, <1>l DEF RunnerRefuses, RunnerReady, AnyRunner
  <2>2. Signal("error") \in FromRunner(m) /\ Signal("ready") \in FromRunner(m)
    BY <1>a DEF Signal, Frame, FromRunner, CodeOrNone
  <2> QED BY <1>4, <1>g, <1>n, <2>1, <2>2 DEF RunnerRefuses, RunnerReady, sessionVars
<1>5. CASE RunnerAssigns
  <2>1. RunnerTyped'
    BY <1>5, <1>d, <1>l DEF RunnerAssigns, AnyRunner
  <2> QED BY <1>5, <1>g, <2>1 DEF RunnerAssigns, sessionVars
<1>6. CASE RunnerSeesEnd \/ RunnerTimesOut
  <2>1. RunnerTyped'
    BY <1>6, <1>d, <1>l DEF RunnerSeesEnd, RunnerTimesOut, Finished, AnyRunner
  <2> QED BY <1>6, <1>g, <2>1 DEF RunnerSeesEnd, RunnerTimesOut, Finished
<1>7. CASE RunnerExits
  <2>1. RunnerTyped'
    BY <1>7, <1>d, <1>l DEF RunnerExits, AnyRunner
  <2>2. Frame("exit", 0, runner.code) \in FromRunner(m)
    BY <1>a, <1>d DEF Frame, FromRunner, AnyRunner
  <2> QED BY <1>7, <1>g, <1>n, <2>1, <2>2 DEF RunnerExits, sessionVars
<1>8. CASE RunnerReads
  <2>1. /\ Tail(chan.pipe) \in Seq(1..m) /\ Len(Tail(chan.pipe)) <= PipeCap
        /\ Head(chan.pipe) \in 1..m
    BY <1>8, <1>a, <1>b, HeadLeaves DEF RunnerReads
  <2>2. /\ chan' \in AnyChan(m) /\ chan'.pipe = Tail(chan.pipe) /\ chan'.bcast = chan.bcast
        /\ chan'.queue = chan.queue
    BY <1>8, <1>b, <2>1 DEF RunnerReads, AnyChan
  <2>3. Frame("chunk", Head(chan.pipe), NoCode) \in FromRunner(m)
    BY <1>a, <2>1 DEF Frame, FromRunner, CodeOrNone
  <2> QED BY <1>8, <1>b, <1>g, <1>h, <1>n, <2>1, <2>2, <2>3 DEF RunnerReads
<1>9. CASE RunnerTakes
  <2>1. stdin' \in AnyStdin
    <3> DEFINE writes == Head(inbox).kind = "data" /\ stdin.open
    <3> DEFINE level == IF writes /\ Running THEN stdin.level + 1 ELSE stdin.level
    <3> DEFINE open == stdin.open /\ Head(inbox).kind # "close" /\ (writes => Running)
    <3>1. level \in 0..StdinCap /\ open \in BOOLEAN
      BY <1>9, <1>a, <1>c DEF RunnerTakes, AnyStdin
    <3>2. stdin' = [level |-> level, open |-> open]
      BY <1>9 DEF RunnerTakes
    <3> HIDE DEF level, open
    <3> QED BY <3>1, <3>2 DEF AnyStdin
  <2> QED BY <1>9, <1>c, <1>g, <1>j, <1>p, <2>1 DEF RunnerTakes
<1>10. CASE RunnerInputEnds
  <2>1. stdin' \in AnyStdin
    BY <1>10, <1>c DEF RunnerInputEnds, AnyStdin
  <2> QED BY <1>10, <1>c, <1>g, <1>j, <2>1 DEF RunnerInputEnds, runnerVars
<1>11. CASE RunnerDies \/ StartFails
  <2>1. RunnerTyped'
    <3>1. CASE runner' = runner
      BY <1>g, <3>1
    <3>2. CASE RunnerDead
      BY <1>d, <1>l, <3>2 DEF RunnerDead, AnyRunner
    <3> QED BY <1>11, <3>1, <3>2 DEF RunnerDies, StartFails
  <2> QED BY <1>11, <1>c, <1>g, <1>j, <2>1 DEF RunnerDies, StartFails
<1>12. CASE RunnerFork
  BY <1>12, <1>g DEF RunnerFork, Fork, runnerVars
<1>13. CASE ClientConnects
  BY <1>13, <1>c, <1>g, <1>j DEF ClientConnects, sessionVars
<1>14. CASE ClientRequests
  BY <1>14, <1>c, <1>g, <1>j, <1>m DEF ClientRequests, sessionVars
<1>15. CASE ClientIsUp
  <2>1. task' \in AnyTask
    BY <1>15, <1>c DEF ClientIsUp, AnyTask, ReaderAt
  <2>2. client' \in AnyClient(m, scenario.writes)
    BY <1>15, <1>b DEF ClientIsUp, AnyClient
  <2> QED BY <1>15, <1>c, <1>g, <1>i, <1>j, <1>o, <2>1, <2>2 DEF ClientIsUp
<1>16. CASE FrameReader
  <2>a. Elevated /\ task.reader = "running" /\ task' \in {task, [task EXCEPT !.reader = "done"]}
        /\ UNCHANGED <<stdin, client, link, runner, inbox>>
    BY <1>16 DEF FrameReader
  <2>b. task' \in AnyTask
    BY <1>c, <2>a DEF AnyTask, ReaderAt
  <2>1. CASE outbox # <<>> /\ Head(outbox).kind = "chunk"
    <3>1. Head(outbox) \in FromRunner(m)
      BY <1>b, <2>1, HeadTailProperties
    <3>2. Head(outbox).n \in 1..m
      BY <1>a, <2>1, <3>1 DEF FromRunner
    <3> DEFINE b == Broadcast(chan.bcast, Head(outbox).n)
    <3>3. b \in Seq(Numbers(m)) /\ Len(b) <= BroadcastCap
      BY <1>b, <3>2, BroadcastTyped
    <3>4. /\ chan' = [chan EXCEPT !.bcast = b] /\ outbox' = Tail(outbox)
          /\ UNCHANGED <<task, exit>>
      BY <1>16, <2>1 DEF FrameReader
    <3> HIDE DEF b
    <3>5. /\ chan' \in AnyChan(m) /\ chan'.pipe = chan.pipe /\ chan'.bcast = b
          /\ chan'.queue = chan.queue
      BY <1>b, <3>3, <3>4 DEF AnyChan
    <3> QED BY <1>b, <1>g, <1>h, <1>o, <2>1, <2>a, <3>3, <3>4, <3>5
  <2>2. CASE outbox # <<>> /\ Head(outbox).kind # "chunk"
    <3>1. Head(outbox).code \in CodeOrNone
      BY <1>b, <2>2, HeadTailProperties DEF FromRunner
    <3>2. outbox' = Tail(outbox) /\ exit' = [exit EXCEPT !.ch = Head(outbox).code] /\ chan' = chan
      BY <1>16, <2>2 DEF FrameReader
    <3>3. exit' \in AnyExit
      BY <1>c, <3>1, <3>2 DEF AnyExit
    <3> QED BY <1>c, <1>g, <1>j, <1>o, <2>2, <2>a, <2>b, <3>2, <3>3
  <2>3. CASE outbox = <<>>
    <3>1. "lost" \in CodeOrNone
      BY DEF CodeOrNone, Codes
    <3> DEFINE b == Broadcast(chan.bcast, Notice)
    <3>2. /\ exit' = [exit EXCEPT !.ch = "lost"] /\ outbox' = outbox
          /\ chan' = [chan EXCEPT !.bcast = b]
      BY <1>16, <2>3 DEF FrameReader
    <3>3. exit' \in AnyExit
      BY <1>c, <3>1, <3>2 DEF AnyExit
    <3>4. b \in Seq(Numbers(m)) /\ Len(b) <= BroadcastCap
      BY <1>b, BroadcastTyped DEF Numbers
    <3> HIDE DEF b
    <3>5. /\ chan' \in AnyChan(m) /\ chan'.pipe = chan.pipe /\ chan'.bcast = b
          /\ chan'.queue = chan.queue
      BY <1>b, <3>2, <3>4 DEF AnyChan
    <3>6. ChanTyped'
      BY <1>b, <1>h, <3>4, <3>5
    <3> QED BY <1>c, <1>g, <1>j, <2>a, <2>b, <3>2, <3>3, <3>6
  <2> QED BY <2>1, <2>2, <2>3
<1>17. CASE StdinWriter
  <2>1. CASE chan.input > 0 /\ chan' = [chan EXCEPT !.input = @ - 1] /\ UNCHANGED task
             /\ inbox' = Append(inbox, Signal("data"))
    <3>0. chan.input \in 0..InputCap /\ InputCap \in Nat
      BY <1>a, <1>b
    <3>1. chan.input - 1 \in 0..InputCap
      BY <2>1, <3>0
    <3>2. /\ chan' \in AnyChan(m) /\ chan'.pipe = chan.pipe /\ chan'.bcast = chan.bcast
          /\ chan'.queue = chan.queue
      BY <1>b, <2>1, <3>1 DEF AnyChan
    <3> QED BY <1>17, <1>b, <1>c, <1>g, <1>h, <1>j, <1>m, <2>1, <3>2 DEF StdinWriter
  <2>2. CASE task' = [task EXCEPT !.writer = "done"] /\ inbox' = Append(inbox, Signal("close"))
             /\ UNCHANGED chan
    <3>1. task' \in AnyTask
      BY <1>c, <2>2 DEF AnyTask, ReaderAt
    <3> QED BY <1>17, <1>c, <1>g, <1>j, <1>m, <2>2, <3>1 DEF StdinWriter
  <2> QED BY <1>17, <2>1, <2>2 DEF StdinWriter
<1>18. CASE RunnerRequestTerminate \/ RunnerTerminate
  <2>1. client' \in AnyClient(m, scenario.writes)
    BY <1>18, <1>b DEF RunnerRequestTerminate, RunnerTerminate, AnyClient
  <2>2. task' \in AnyTask /\ stdin' \in AnyStdin
    BY <1>18, <1>c, AbortStops DEF RunnerRequestTerminate, RunnerTerminate
  <2>3. inbox' \in Seq(ToRunner)
    BY <1>18, <1>c, <1>m DEF RunnerRequestTerminate, RunnerTerminate, AskRunner
  <2> QED BY <1>18, <1>c, <1>g, <1>i, <1>j, <2>1, <2>2, <2>3
          DEF RunnerRequestTerminate, RunnerTerminate
<1> QED BY <1>1, <1>2, <1>3, <1>4, <1>5, <1>6, <1>7, <1>8, <1>9, <1>10, <1>11, <1>12, <1>13, <1>14,
           <1>15, <1>16, <1>17, <1>18
        DEF RunnerNext, RunnerMain, RunnerInput, Handshake, RunnerClientStep

-----------------------------------------------------------------------------
(* Ends: what has ended stays so.                                          *)

\* The pipe of the command changes when something is written to it or read.
LEMMA PipeMoves ==
  ASSUME SessionTyped, SessionsNext
  PROVE  chan'.pipe = chan.pipe \/ Produce \/ ReadDirect \/ ReadLegacy \/ RunnerReads
<1>a. chan \in AnyChan(command.made)
  BY DEF SessionTyped, ChanTyped
<1>1. CASE SessionNext /\ ~(Produce \/ ReadDirect \/ ReadLegacy)
  BY <1>1, <1>a
     DEF SessionNext, Reading, ReadEof, Streaming, StreamForwards, StreamEnds, Waiting, WaitSees,
         WaitTells, LegacyWaiting, WaiterTerminates, WaiterReadsCode, WaiterJoins, WaiterTimesOut,
         Writing, WriterWrites, WriterEnds, CommandStep, ChildEnds, CommandEnds, CommandReads,
         LocalFork, Fork, ClientStep, Write, CloseStdin, Receive, ReceiveEnd, StopListening,
         RequestTerminate, Terminate, AnyChan
<1>2. CASE RunnerNext /\ ~RunnerReads
  BY <1>2, <1>a
     DEF RunnerNext, RunnerMain, RunnerOpens, RunnerReadsRequest, RunnerRefuses, RunnerSpawns,
         RunnerAssigns, RunnerReady, RunnerSeesEnd, RunnerTimesOut, Finished, RunnerDies,
         RunnerFork, Fork, RunnerExits, RunnerInput, RunnerTakes, RunnerInputEnds, Handshake,
         ClientConnects, ClientRequests, ClientIsUp, StartFails, FrameReader, StdinWriter,
         RunnerClientStep, RunnerRequestTerminate, RunnerTerminate, sessionVars, AnyChan
<1> QED BY <1>1, <1>2 DEF SessionsNext

\* A step of a session that leaves the pipe alone is not the command's writing.
LEMMA QuietStepEndsAs ==
  ASSUME SessionTyped, SessionNext, chan'.pipe = chan.pipe
  PROVE  EndsAs(command, command')
<1>a. command \in AnyCommand /\ chan \in AnyChan(command.made)
  BY DEF SessionTyped, CommandTyped, ChanTyped
<1>1. Produce => chan'.pipe = Append(chan.pipe, command.made + 1)
  BY <1>a DEF Produce, AnyChan
<1>2. Len(Append(chan.pipe, command.made + 1)) # Len(chan.pipe)
  BY <1>a, LenProperties DEF AnyChan
<1> QED BY <1>a, <1>1, <1>2, StepEndsAs

\* A command that has ended keeps its code, and once nobody is left to write,
\* nobody will be.
LEMMA EndStays ==
  ASSUME SessionTyped, RunnerInv, SessionsNext
  PROVE  /\ Ended => Ended' /\ command'.code = command.code
         /\ Quiet => Quiet' /\ command'.made = command.made
         /\ AtEof => AtEof'
<1>a. command \in AnyCommand
  BY DEF RunnerInv
<1>1. /\ Ended => Ended' /\ command'.code = command.code
      /\ Quiet => Quiet' /\ command'.made = command.made
  <2>1. CASE Produce
    BY <1>a, <2>1 DEF Produce, Ended, Running, Quiet, AnyCommand
  <2>2. CASE RunnerSpawns
    <3>1. runner.at = "spawning"
      BY <2>2 DEF RunnerSpawns
    <3>2. command.is = "none"
      BY <3>1 DEF RunnerInv, JobMatches
    <3> QED BY <3>2 DEF Ended, Quiet
  <2>3. CASE ~Produce /\ ~RunnerSpawns
    <3>1. EndsAs(command, command')
      BY <1>a, <2>3, StepEndsAs DEF SessionsNext
    <3> QED BY <3>1 DEF EndsAs, Ended, Quiet
  <2> QED BY <2>1, <2>2, <2>3
<1>2. AtEof => chan'.pipe = chan.pipe
  BY PipeMoves DEF AtEof, Produce, ReadDirect, ReadLegacy, RunnerReads, Ended, Running
<1> QED BY <1>1, <1>2 DEF AtEof, Quiet, Ended

\* The frames fit as before when nobody sends or takes one.
LEMMA FramesStay ==
  ASSUME FramesFit, UNCHANGED <<outbox, runner>>, link' = "up" => link = "up",
         task'.reader = "off" <=> task.reader = "off",
         task'.reader # "done" => task.reader # "done",
         AtEof => AtEof', Ended => command'.code = command.code
  PROVE  FramesFit'
<1>1. ASSUME NEW i \in 1..Len(outbox) PROVE FrameFits(i)'
  BY <1>1 DEF FramesFit, FrameFits, AtEof
<1> QED BY <1>1 DEF FramesFit

\* What the ends of a session depend on, besides the command
endsVars ==
    <<scenario, chan.bcast, chan.queue, outbox, runner, waiter, exit.ch, exit.told,
      client.got, client.eof, client.listening, client.aborted,
      task.reader, task.stream, task.wait>>

\* A step that concerns none of these keeps the ends fitting.
LEMMA EndsStay ==
  ASSUME EndsFit, SessionTyped, UNCHANGED endsVars, link' = "up" <=> link = "up",
         EndsAs(command, command'), AtEof => AtEof'
  PROVE  EndsFit'
<1>a. /\ UNCHANGED <<scenario, chan.bcast, chan.queue, outbox, runner, waiter, exit.ch, exit.told>>
      /\ UNCHANGED <<client.got, client.eof, client.listening, client.aborted>>
      /\ UNCHANGED <<task.reader, task.stream, task.wait>>
  BY DEF endsVars
<1>b. /\ Ended => Ended' /\ command'.code = command.code
      /\ Quiet => Quiet'
      /\ Ended' => Ended \/ command'.code # NoCode
      /\ command'.is = "none" <=> command.is = "none"
  BY DEF EndsAs, Ended, Quiet
<1>1. OwnParts'
  BY <1>a DEF EndsFit, OwnParts, Elevated, Direct, OnPty, backend
<1>2. FramesFit'
  BY <1>a, <1>b, FramesStay DEF EndsFit
<1>3. RunnerFits'
  BY <1>a, <1>b DEF EndsFit, RunnerFits
<1>4. ReaderFits'
  BY <1>a DEF EndsFit, ReaderFits, Dead
<1>5. WaiterFits'
  BY <1>a, <1>b DEF EndsFit, WaiterFits
<1>6. ExitFits'
  BY <1>a, <1>b DEF EndsFit, ExitFits, Dead, Direct, OnPty, backend, Quiet
<1>7. WaitFits'
  BY <1>a, <1>b DEF EndsFit, WaitFits, ExitKnown, Direct, OnPty, backend
<1>8. ClientFits'
  BY <1>a, <1>b DEF EndsFit, ClientFits, Feeder, Dead, Direct, OnPty, backend
<1> QED BY <1>1, <1>2, <1>3, <1>4, <1>5, <1>6, <1>7, <1>8 DEF EndsFit

\* The steps of PtySession keep the ends fitting.
LEMMA SessionEndsFit ==
  ASSUME EndsFit, SessionTyped, RunnerInv, SessionNext, UNCHANGED runnerVars
  PROVE  EndsFit'
<1> USE DEF Elevated, Direct, OnPty, backend, Feeder, Dead, Quiet, AtEof, Ended, ExitKnown
<1>a. UNCHANGED <<link, runner, inbox, outbox>>
  BY DEF runnerVars
<1>b. /\ command \in AnyCommand /\ chan \in AnyChan(command.made)
      /\ client \in AnyClient(command.made, scenario.writes)
      /\ task \in AnyTask /\ exit \in AnyExit /\ stdin \in AnyStdin /\ waiter \in WaiterAt
  BY DEF SessionTyped, CommandTyped, ChanTyped, ClientTyped, TasksTyped
<1>c. /\ Ended => Ended' /\ command'.code = command.code
      /\ Quiet => Quiet'
      /\ AtEof => AtEof'
  BY EndStays DEF SessionsNext
<1>d. /\ OwnParts /\ FramesFit /\ RunnerFits /\ ReaderFits /\ WaiterFits
      /\ ExitFits /\ WaitFits /\ ClientFits
  BY DEF EndsFit
<1>e. chan'.pipe = chan.pipe => EndsAs(command, command')
  BY QuietStepEndsAs
<1>f. ASSUME NEW r, task'.reader = r, r # "off", task.reader # "off", r # "done" => task.reader # "done",
             Ended => command'.code = command.code
      PROVE  FramesFit'
  BY <1>a, <1>c, <1>d, <1>f, FramesStay
<1>g. ASSUME task'.reader = task.reader, Ended => command'.code = command.code
      PROVE  FramesFit'
  BY <1>a, <1>c, <1>d, <1>g, FramesStay
<1>1. CASE ReadDirect
  <2>1. /\ chan'.bcast = chan.bcast /\ task.reader = "running" /\ ~Elevated /\ Direct
        /\ UNCHANGED <<scenario, command, task, exit, waiter, client>>
    BY <1>1, <1>b DEF ReadDirect, AnyChan
  <2>2. FramesFit'
    BY <1>g, <2>1
  <2>3. ClientFits'
    BY <1>a, <1>d, <2>1 DEF ClientFits
  <2>4. OwnParts' /\ RunnerFits' /\ ReaderFits' /\ WaiterFits' /\ ExitFits' /\ WaitFits'
    BY <1>a, <1>c, <1>d, <2>1 DEF OwnParts, RunnerFits, ReaderFits, WaiterFits, ExitFits, WaitFits
  <2> QED BY <2>2, <2>3, <2>4 DEF EndsFit
<1>2. CASE ReadLegacy
  <2>1. /\ chan'.queue = chan.queue /\ task.reader = "running" /\ ~Elevated /\ ~Direct
        /\ UNCHANGED <<scenario, command, task, exit, waiter, client>>
    BY <1>2, <1>b DEF ReadLegacy, AnyChan
  <2>2. FramesFit'
    BY <1>g, <2>1
  <2>3. ClientFits'
    BY <1>a, <1>d, <2>1 DEF ClientFits
  <2>4. OwnParts' /\ RunnerFits' /\ ReaderFits' /\ WaiterFits' /\ ExitFits' /\ WaitFits'
    BY <1>a, <1>c, <1>d, <2>1 DEF OwnParts, RunnerFits, ReaderFits, WaiterFits, ExitFits, WaitFits
  <2> QED BY <2>2, <2>3, <2>4 DEF EndsFit
<1>3. CASE ReadEof
  <2>1. /\ task'.reader = "done" /\ task'.stream = task.stream /\ task'.wait = task.wait
        /\ task.reader = "running" /\ ~Elevated /\ AtEof
        /\ UNCHANGED <<scenario, command, chan, exit, waiter, client>>
    BY <1>3, <1>b DEF ReadEof, AnyTask
  <2>2. FramesFit'
    BY <1>f, <2>1
  <2>3. ClientFits' /\ ReaderFits'
    BY <1>a, <1>c, <1>d, <2>1 DEF ClientFits, ReaderFits, RunnerInv, OwnParts
  <2>4. OwnParts' /\ RunnerFits' /\ WaiterFits' /\ ExitFits' /\ WaitFits'
    BY <1>a, <1>c, <1>d, <2>1 DEF OwnParts, RunnerFits, ReaderFits, WaiterFits, ExitFits, WaitFits
  <2> QED BY <2>2, <2>3, <2>4 DEF EndsFit
<1>4. CASE StreamForwards \/ StreamEnds
  <2>1. /\ task'.reader = task.reader /\ task'.wait = task.wait /\ task.stream = "running"
        /\ \/ task'.stream = "running" /\ chan.bcast # <<>>
           \/ task'.stream = "done" /\ ~client.listening /\ chan'.queue = chan.queue
                /\ chan.bcast # <<>>
           \/ task'.stream = "done" /\ chan.bcast = <<>> /\ task.reader = "done" /\ chan' = chan
        /\ chan'.pipe = chan.pipe
        /\ UNCHANGED <<scenario, command, exit, waiter, client>>
    BY <1>4, <1>b DEF StreamForwards, StreamEnds, AnyTask, AnyChan
  <2>2. FramesFit'
    BY <1>g, <2>1
  <2>3. ClientFits'
    BY <1>a, <1>c, <1>d, <2>1 DEF ClientFits, OwnParts
  <2>4. OwnParts' /\ RunnerFits' /\ ReaderFits' /\ WaiterFits' /\ ExitFits' /\ WaitFits'
    BY <1>a, <1>c, <1>d, <2>1 DEF OwnParts, RunnerFits, ReaderFits, WaiterFits, ExitFits, WaitFits
  <2> QED BY <2>2, <2>3, <2>4 DEF EndsFit
<1>5. CASE WaitSees \/ WaitTells
  <2>1. /\ task'.reader = task.reader /\ task'.stream = task.stream
        /\ exit'.ch = exit.ch
        /\ \/ task'.wait = "storing" /\ ExitKnown /\ exit'.told = exit.told /\ task.wait = "waiting"
           \/ task'.wait = "done" /\ task.wait = "storing"
        /\ UNCHANGED <<scenario, command, chan, waiter, client>>
    BY <1>5, <1>b DEF WaitSees, WaitTells, AnyTask, AnyExit
  <2>2. FramesFit'
    BY <1>g, <2>1
  <2>3. WaitFits'
    BY <1>a, <1>d, <2>1 DEF WaitFits
  <2>4. OwnParts' /\ RunnerFits' /\ ReaderFits' /\ WaiterFits' /\ ExitFits' /\ ClientFits'
    BY <1>a, <1>c, <1>d, <2>1 DEF OwnParts, RunnerFits, ReaderFits, WaiterFits, ExitFits, ClientFits
  <2> QED BY <2>2, <2>3, <2>4 DEF EndsFit
<1>6. CASE WaiterTimesOut \/ WaiterTerminates \/ WaiterReadsCode
  <2>1. /\ waiter' \in {"expired", "finishing"} \/ (waiter' = "joining" /\ Ended)
        /\ waiter # "off"
        /\ UNCHANGED <<scenario, chan, task, exit, client>>
    BY <1>6 DEF WaiterTimesOut, WaiterTerminates, WaiterReadsCode
  <2>e. EndsAs(command, command')
    BY <1>e, <2>1
  <2>2. FramesFit'
    BY <1>c, <1>g, <2>1
  <2>3. WaiterFits' /\ OwnParts'
    BY <1>a, <1>c, <1>d, <2>1 DEF WaiterFits, OwnParts
  <2>4. RunnerFits'
    BY <1>a, <1>c, <1>d, <2>e DEF RunnerFits, EndsAs
  <2>5. ReaderFits' /\ ExitFits' /\ WaitFits' /\ ClientFits'
    BY <1>a, <1>c, <1>d, <2>1 DEF ReaderFits, ExitFits, WaitFits, ClientFits
  <2> QED BY <2>2, <2>3, <2>4, <2>5 DEF EndsFit
<1>7. CASE WaiterJoins
  <2>1. /\ waiter' = "done" /\ waiter = "joining" /\ task.reader = "done" /\ Ended
        /\ exit'.ch = command.code /\ exit'.told = exit.told
        /\ backend = "legacy" /\ ~Elevated /\ ~Direct /\ command.code # NoCode
        /\ UNCHANGED <<scenario, command, chan, task, client>>
    BY <1>7, <1>b, <1>d DEF WaiterJoins, AnyExit, WaiterFits, OwnParts, RunnerFits
  <2>2. FramesFit'
    BY <1>g, <2>1
  <2>3. Quiet
    BY <1>d, <2>1 DEF ReaderFits, RunnerInv
  <2>4. ExitFits' /\ WaitFits'
    BY <1>a, <1>c, <1>d, <2>1, <2>3 DEF ExitFits, WaitFits
  <2>5. OwnParts' /\ RunnerFits' /\ ReaderFits' /\ WaiterFits' /\ ClientFits'
    BY <1>a, <1>c, <1>d, <2>1 DEF OwnParts, RunnerFits, ReaderFits, WaiterFits, ClientFits
  <2> QED BY <2>2, <2>4, <2>5 DEF EndsFit
<1>8. CASE Receive
  <2>1. /\ chan.queue # <<>> /\ client.listening /\ client'.eof = client.eof
        /\ client'.listening = client.listening /\ client'.aborted = client.aborted
        /\ chan'.pipe = chan.pipe /\ chan'.bcast = chan.bcast
        /\ UNCHANGED <<scenario, command, task, exit, waiter>>
    BY <1>8, <1>b DEF Receive, AnyClient, AnyChan
  <2>2. FramesFit'
    BY <1>g, <2>1
  <2>3. ClientFits' /\ OwnParts'
    BY <1>a, <1>d, <2>1 DEF ClientFits, OwnParts
  <2>4. RunnerFits' /\ ReaderFits' /\ WaiterFits' /\ ExitFits' /\ WaitFits'
    BY <1>a, <1>c, <1>d, <2>1 DEF RunnerFits, ReaderFits, WaiterFits, ExitFits, WaitFits
  <2> QED BY <2>2, <2>3, <2>4 DEF EndsFit
<1>9. CASE ReceiveEnd
  <2>1. /\ chan.queue = <<>> /\ client.listening /\ client'.eof = TRUE
        /\ client'.listening = client.listening /\ client'.aborted = client.aborted
        /\ client'.got = client.got /\ Feeder \in {"done", "aborted"}
        /\ UNCHANGED <<scenario, command, chan, task, exit, waiter>>
    BY <1>9, <1>b DEF ReceiveEnd, AnyClient
  <2>2. FramesFit'
    BY <1>g, <2>1
  <2>3. client.aborted \/ Dead \/ Quiet
    BY <1>d, <2>1 DEF ClientFits, ReaderFits, OwnParts
  <2>4. ClientFits' /\ OwnParts'
    BY <1>a, <1>d, <2>1, <2>3 DEF ClientFits, OwnParts
  <2>5. RunnerFits' /\ ReaderFits' /\ WaiterFits' /\ ExitFits' /\ WaitFits'
    BY <1>a, <1>c, <1>d, <2>1 DEF RunnerFits, ReaderFits, WaiterFits, ExitFits, WaitFits
  <2> QED BY <2>2, <2>4, <2>5 DEF EndsFit
<1>10. CASE StopListening
  <2>1. /\ client.listening /\ client'.eof = client.eof /\ client'.listening = FALSE
        /\ client'.aborted = client.aborted /\ client'.got = client.got
        /\ chan'.pipe = chan.pipe /\ chan'.bcast = chan.bcast /\ chan'.queue = <<>>
        /\ UNCHANGED <<scenario, command, task, exit, waiter>>
    BY <1>10, <1>b DEF StopListening, AnyClient, AnyChan
  <2>2. FramesFit'
    BY <1>g, <2>1
  <2>3. ClientFits' /\ OwnParts'
    BY <1>a, <1>d, <2>1 DEF ClientFits, OwnParts
  <2>4. RunnerFits' /\ ReaderFits' /\ WaiterFits' /\ ExitFits' /\ WaitFits'
    BY <1>a, <1>c, <1>d, <2>1 DEF RunnerFits, ReaderFits, WaiterFits, ExitFits, WaitFits
  <2> QED BY <2>2, <2>3, <2>4 DEF EndsFit
<1>11. CASE Terminate
  <2>1. /\ client'.aborted = TRUE /\ client'.eof = client.eof /\ client'.got = client.got
        /\ client'.listening = client.listening /\ ~Elevated
        /\ UNCHANGED <<scenario, chan, exit, waiter>>
    BY <1>11, <1>b DEF Terminate, AnyClient
  <2>e. EndsAs(command, command')
    BY <1>e, <2>1
  <2>2. /\ task'.reader = task.reader \/ (task'.reader = "aborted" /\ task.reader = "running")
        /\ task'.stream = task.stream
             \/ (task'.stream = "aborted" /\ task.stream = "running" /\ ~Direct)
        /\ task'.wait = task.wait \/ (task'.wait = "aborted" /\ task.wait = "waiting")
    BY <1>11, <1>b, AbortStops DEF Terminate
  <2>3. FramesFit'
    BY <1>c, <1>d, <1>f, <1>g, <2>1, <2>2 DEF OwnParts
  <2>4. OwnParts' /\ WaitFits'
    BY <1>a, <1>c, <1>d, <2>1, <2>2 DEF OwnParts, WaitFits
  <2>5. ClientFits'
    BY <1>a, <1>c, <1>d, <2>1, <2>2 DEF ClientFits
  <2>6. RunnerFits'
    BY <1>a, <1>c, <1>d, <2>e DEF RunnerFits, EndsAs
  <2>7. ReaderFits' /\ WaiterFits' /\ ExitFits'
    BY <1>a, <1>c, <1>d, <2>1, <2>2 DEF ReaderFits, WaiterFits, ExitFits
  <2> QED BY <2>3, <2>4, <2>5, <2>6, <2>7 DEF EndsFit
<1>12. CASE Produce
  <2>1. /\ command'.is = command.is /\ command'.code = command.code /\ command'.child = command.child
        /\ chan'.bcast = chan.bcast /\ chan'.queue = chan.queue /\ ~Quiet
        /\ UNCHANGED <<scenario, task, exit, waiter, client>>
    BY <1>12, <1>b DEF Produce, AnyCommand, AnyChan, Running
  <2>2. FramesFit'
    BY <1>g, <2>1
  <2>3. OwnParts' /\ RunnerFits' /\ ReaderFits' /\ WaiterFits' /\ ExitFits' /\ WaitFits' /\ ClientFits'
    BY <1>a, <1>c, <1>d, <2>1
       DEF OwnParts, RunnerFits, ReaderFits, WaiterFits, ExitFits, WaitFits, ClientFits
  <2> QED BY <2>2, <2>3 DEF EndsFit
<1>13. CASE ChildEnds \/ CommandEnds \/ CommandReads \/ LocalFork \/ Write \/ CloseStdin
              \/ WriterWrites \/ WriterEnds \/ RequestTerminate
  <2>1. UNCHANGED endsVars
    BY <1>13, <1>a, <1>b
       DEF endsVars, ChildEnds, CommandEnds, CommandReads, LocalFork, Fork, Write, CloseStdin,
           WriterWrites, WriterEnds, RequestTerminate, AnyChan, AnyTask, AnyClient
  <2>2. chan'.pipe = chan.pipe
    BY <1>13, <1>b
       DEF ChildEnds, CommandEnds, CommandReads, LocalFork, Fork, Write, CloseStdin,
           WriterWrites, WriterEnds, RequestTerminate, AnyChan
  <2> QED BY <1>a, <1>c, <1>e, <2>1, <2>2, EndsStay
<1> QED BY <1>1, <1>2, <1>3, <1>4, <1>5, <1>6, <1>7, <1>8, <1>9, <1>10, <1>11, <1>12, <1>13
        DEF SessionNext, Reading, Streaming, Waiting, LegacyWaiting, Writing, CommandStep, ClientStep

\* The frames of a runner that has not finished are chunks, or its first one is Ready.
LEMMA FramesOfMany ==
  ASSUME FramesFit, runner.at # "exited"
  PROVE  \A i \in 1..Len(outbox) : outbox[i].kind \notin {"error", "exit"}
BY DEF FramesFit, FrameFits

\* The steps of a runner keep the ends fitting.
LEMMA RunnerMainEndsFit ==
  ASSUME EndsFit, SessionTyped, RunnerInv, RunnerInv', RunnerNext,
         RunnerMain \/ RunnerReads \/ RunnerTimesOut \/ RunnerDies
  PROVE  EndsFit'
<1> USE DEF Elevated, Direct, OnPty, backend, Feeder, Dead, Quiet, AtEof, Ended, ExitKnown
<1>b. /\ command \in AnyCommand /\ chan \in AnyChan(command.made) /\ runner \in AnyRunner
      /\ outbox \in Seq(FromRunner(command.made))
  BY DEF SessionTyped, CommandTyped, ChanTyped, OutboxTyped, RunnerInv
<1>c. /\ Ended => Ended' /\ command'.code = command.code
      /\ Quiet => Quiet'
      /\ AtEof => AtEof'
  BY EndStays DEF SessionsNext
<1>d. /\ OwnParts /\ FramesFit /\ RunnerFits /\ ReaderFits /\ WaiterFits
      /\ ExitFits /\ WaitFits /\ ClientFits
  BY DEF EndsFit
<1>e. ~RunnerSpawns => EndsAs(command, command')
  BY <1>b, StepEndsAs
<1>f. Elevated /\ JobMatches /\ JobMatches' /\ UNCHANGED <<scenario, task, exit, waiter, client, link>>
  <2>1. UNCHANGED <<scenario, task, exit, waiter, client, link>>
    BY DEF RunnerMain, RunnerOpens, RunnerReadsRequest, RunnerRefuses, RunnerSpawns,
       RunnerAssigns, RunnerReady, RunnerSeesEnd, RunnerExits, RunnerReads, RunnerTimesOut,
       RunnerDies, Finished, sessionVars
  <2> QED BY <2>1, RunnerIsElevated DEF RunnerInv
<1>1. CASE RunnerOpens \/ RunnerReadsRequest \/ RunnerSpawns \/ RunnerAssigns
  <2> DEFINE Early == {"starting", "request", "spawning", "spawned", "assigned"}
  <2>1. /\ runner.at \in Early \ {"assigned"} /\ runner'.at \in Early
        /\ chan' = chan /\ outbox' = outbox
        /\ command' = command \/ (command'.is = "running" /\ runner.at = "spawning")
    BY <1>1, <1>b DEF RunnerOpens, RunnerReadsRequest, RunnerSpawns, RunnerAssigns, AnyCommand,
       AnyRunner, sessionVars
  <2>2. outbox = <<>> /\ link # "up" /\ task.reader = "off"
    BY <1>d, <1>f, <2>1 DEF FramesFit, OwnParts
  <2>3. runner'.at \in {"spawned", "assigned"} => command'.is # "none"
    BY <1>1, <1>b, <1>d DEF RunnerOpens, RunnerReadsRequest, RunnerSpawns, RunnerAssigns, RunnerFits,
       AnyCommand, AnyRunner, sessionVars
  <2>4. runner.at = "spawning" => ~Ended
    BY <1>f DEF JobMatches
  <2>5. OwnParts' /\ FramesFit' /\ RunnerFits' /\ ReaderFits'
    BY <1>d, <1>f, <2>1, <2>2, <2>3, <2>4 DEF OwnParts, FramesFit, RunnerFits, ReaderFits
  <2>6. WaiterFits' /\ ExitFits' /\ WaitFits' /\ ClientFits'
    BY <1>d, <1>f, <2>1, <2>2, <2>4 DEF OwnParts, WaiterFits, ExitFits, WaitFits, ClientFits
  <2> QED BY <2>5, <2>6 DEF EndsFit
<1>2. CASE RunnerRefuses \/ RunnerReady
  <2>1. /\ chan' = chan /\ command' = command
        /\ \/ runner.at = "spawning" /\ runner'.at = "exited" /\ outbox' = Append(outbox, Signal("error"))
           \/ runner.at = "assigned" /\ runner'.at = "running" /\ outbox' = Append(outbox, Signal("ready"))
    BY <1>2, <1>b DEF RunnerRefuses, RunnerReady, AnyRunner, sessionVars
  <2>2. outbox = <<>> /\ link # "up" /\ task.reader = "off"
    BY <1>d, <1>f, <2>1 DEF FramesFit, OwnParts
  <2>3. /\ Len(outbox') = 1 /\ outbox'[1] \in {Signal("error"), Signal("ready")}
        /\ outbox'[1] = Signal("error") => runner'.at = "exited"
        /\ runner'.at = "exited" => outbox'[1] = Signal("error")
    BY <2>1, <2>2 DEF Signal, Frame
  <2>4. FramesFit'
    BY <1>f, <2>1, <2>2, <2>3, SMTT(30) DEF FramesFit, FrameFits, Signal, Frame
  <2>5. OwnParts' /\ RunnerFits' /\ ReaderFits'
    BY <1>d, <1>f, <2>1, <2>2 DEF OwnParts, RunnerFits, ReaderFits
  <2>6. WaiterFits' /\ ExitFits' /\ WaitFits' /\ ClientFits'
    BY <1>d, <1>f, <2>1, <2>2 DEF OwnParts, WaiterFits, ExitFits, WaitFits, ClientFits
  <2> QED BY <2>4, <2>5, <2>6 DEF EndsFit
<1>3. CASE RunnerSeesEnd \/ RunnerTimesOut
  <2>1. /\ chan' = chan /\ outbox' = outbox
        /\ runner.at = "running" /\ runner'.at = "joining"
        /\ runner'.code = "timeout" \/ (Ended /\ runner'.code = command.code)
    BY <1>3, <1>b DEF RunnerSeesEnd, RunnerTimesOut, Finished, AnyRunner
  <2>2. Ended' /\ command'.code # NoCode
    <3>e. EndsAs(command, command')
      BY <1>3, <1>b, StepEndsAs DEF RunnerNext, RunnerMain, RunnerSeesEnd, RunnerTimesOut, RunnerSpawns
    <3>1. command'.is # "running"
      BY <1>f, <2>1 DEF JobMatches, Running
    <3>2. command.is # "none" /\ (Ended => command.code # NoCode)
      BY <1>d, <2>1 DEF RunnerFits
    <3> QED BY <1>b, <3>e, <3>1, <3>2 DEF EndsAs, AnyCommand
  <2>3. FramesFit'
    BY <1>d, <1>f, <2>1, FramesOfMany DEF FramesFit, FrameFits
  <2>4. OwnParts' /\ RunnerFits' /\ ReaderFits'
    BY <1>c, <1>d, <1>f, <2>1, <2>2 DEF OwnParts, RunnerFits, ReaderFits
  <2>5. WaiterFits' /\ ExitFits' /\ WaitFits' /\ ClientFits'
    BY <1>c, <1>d, <1>f, <2>1 DEF OwnParts, WaiterFits, ExitFits, WaitFits, ClientFits
  <2> QED BY <2>3, <2>4, <2>5 DEF EndsFit
<1>4. CASE RunnerExits
  <2> DEFINE f == Frame("exit", 0, runner.code)
  <2>1. /\ chan' = chan /\ command' = command /\ AtEof
        /\ runner.at = "joining" /\ runner'.at = "exited" /\ outbox' = Append(outbox, f)
    BY <1>4, <1>b DEF RunnerExits, OutputJoined, AnyRunner, sessionVars
  <2>2. f.kind = "exit" /\ f.code \in {command.code, "timeout"}
    BY <1>d, <2>1 DEF RunnerFits, Frame
  <2> HIDE DEF f
  <2>3. /\ Len(outbox) \in Nat /\ Len(outbox') = Len(outbox) + 1 /\ outbox'[Len(outbox')] = f
        /\ \A i \in 1..Len(outbox) : outbox'[i] = outbox[i]
    BY <1>b, <2>1, LenProperties
  <2>4. ASSUME NEW i \in 1..Len(outbox') PROVE FrameFits(i)'
    <3>1. CASE i = Len(outbox')
      BY <1>f, <2>1, <2>2, <2>3, <3>1 DEF FrameFits
    <3>2. CASE i # Len(outbox')
      <4>1. i \in 1..Len(outbox) /\ outbox'[i] = outbox[i]
        BY <2>3, <3>2
      <4>2. outbox[i].kind \notin {"error", "exit"} /\ FrameFits(i)
        BY <1>d, <2>1, <4>1, FramesOfMany DEF FramesFit
      <4> QED BY <1>f, <4>1, <4>2 DEF FrameFits
    <3> QED BY <3>1, <3>2
  <2>5. FramesFit'
    BY <2>1, <2>2, <2>3, <2>4 DEF FramesFit
  <2>6. ~Dead /\ task.reader # "done"
    BY <1>d, <2>1 DEF ReaderFits
  <2>7. OwnParts' /\ RunnerFits' /\ ReaderFits' /\ WaiterFits' /\ ExitFits' /\ WaitFits' /\ ClientFits'
    BY <1>d, <1>f, <2>1, <2>6
       DEF OwnParts, RunnerFits, ReaderFits, WaiterFits, ExitFits, WaitFits, ClientFits
  <2> QED BY <2>5, <2>7 DEF EndsFit
<1>5. CASE RunnerReads
  <2> DEFINE f == Frame("chunk", Head(chan.pipe), NoCode)
  <2>1. /\ chan'.bcast = chan.bcast /\ chan'.queue = chan.queue /\ command' = command /\ ~AtEof
        /\ runner' = runner /\ runner.at \in {"running", "joining"} /\ outbox' = Append(outbox, f)
    BY <1>5, <1>b DEF RunnerReads, AnyChan
  <2>2. f.kind = "chunk"
    BY DEF Frame
  <2> HIDE DEF f
  <2>3. /\ Len(outbox) \in Nat /\ Len(outbox') = Len(outbox) + 1 /\ outbox'[Len(outbox')] = f
        /\ \A i \in 1..Len(outbox) : outbox'[i] = outbox[i]
    BY <1>b, <2>1, LenProperties
  <2>4. ASSUME NEW i \in 1..Len(outbox') PROVE FrameFits(i)'
    <3>1. CASE i = Len(outbox')
      BY <2>2, <2>3, <3>1 DEF FrameFits
    <3>2. CASE i # Len(outbox')
      <4>1. i \in 1..Len(outbox) /\ outbox'[i] = outbox[i]
        BY <2>3, <3>2
      <4>2. outbox[i].kind \notin {"error", "exit"} /\ FrameFits(i)
        BY <1>d, <2>1, <4>1, FramesOfMany DEF FramesFit
      <4> QED BY <1>f, <4>1, <4>2 DEF FrameFits
    <3> QED BY <3>1, <3>2
  <2>5. FramesFit'
    BY <2>1, <2>4 DEF FramesFit
  <2>6. ~Dead /\ task.reader # "done"
    BY <1>d, <2>1 DEF ReaderFits
  <2>7. OwnParts' /\ RunnerFits' /\ ReaderFits' /\ WaiterFits' /\ ExitFits' /\ WaitFits' /\ ClientFits'
    BY <1>d, <1>f, <2>1, <2>6
       DEF OwnParts, RunnerFits, ReaderFits, WaiterFits, ExitFits, WaitFits, ClientFits
  <2> QED BY <2>5, <2>7 DEF EndsFit
<1>6. CASE RunnerDies
  <2>1. /\ chan' = chan /\ outbox' = outbox /\ runner'.at = "dead"
        /\ runner.at \notin {"none", "exited", "dead"}
    BY <1>6, <1>b DEF RunnerDies, RunnerDead, Gone, AnyRunner
  <2>e. EndsAs(command, command')
    <3>1. command' = JobEnds(command)
      BY <1>6 DEF RunnerDies, RunnerDead
    <3> QED BY <1>b, <3>1, JobEndsAs
  <2>2. FramesFit'
    BY <1>d, <1>f, <2>1, FramesOfMany DEF FramesFit, FrameFits
  <2>3. OwnParts' /\ RunnerFits' /\ ReaderFits' /\ WaiterFits'
    BY <1>c, <1>d, <1>f, <2>1, <2>e DEF OwnParts, RunnerFits, ReaderFits, WaiterFits, EndsAs
  <2>4. ExitFits' /\ WaitFits' /\ ClientFits'
    BY <1>c, <1>d, <1>f, <2>1 DEF OwnParts, ExitFits, WaitFits, ClientFits
  <2> QED BY <2>2, <2>3, <2>4 DEF EndsFit
<1> QED BY <1>1, <1>2, <1>3, <1>4, <1>5, <1>6 DEF RunnerMain

\* The frames that are left when one was taken (read_frame).
LEMMA FramesLeft ==
  ASSUME NEW m, outbox \in Seq(FromRunner(m)), outbox # <<>>, outbox' = Tail(outbox)
  PROVE  /\ Len(outbox) \in Nat \ {0} /\ Len(outbox') = Len(outbox) - 1
         /\ \A i \in 1..Len(outbox') : i + 1 \in 1..Len(outbox) /\ outbox'[i] = outbox[i + 1]
         /\ Head(outbox) = outbox[1]
         /\ outbox' = <<>> => Len(outbox) = 1
         /\ outbox' # <<>> => outbox'[Len(outbox')] = outbox[Len(outbox)]
<1>1. /\ Len(outbox) \in Nat \ {0} /\ Len(outbox') = Len(outbox) - 1
      /\ \A i \in 1..Len(outbox') : outbox'[i] = outbox[i + 1]
      /\ Head(outbox) = outbox[1] /\ outbox' \in Seq(FromRunner(m))
  BY HeadTailProperties, EmptySeq, LenProperties
<1>2. outbox' # <<>> => Len(outbox') \in Nat \ {0}
  BY <1>1, EmptySeq, LenProperties
<1>3. outbox' # <<>> => outbox'[Len(outbox')] = outbox[Len(outbox)]
  <2>1. SUFFICES ASSUME outbox' # <<>> PROVE outbox'[Len(outbox')] = outbox[Len(outbox') + 1]
    BY <1>1
  <2>2. Len(outbox') \in 1..Len(outbox')
    BY <1>2, <2>1
  <2> QED BY <1>1, <2>2
<1>4. outbox' = <<>> => Len(outbox) = 1
  <2>1. outbox' = <<>> => Len(outbox') = 0
    BY EmptySeq
  <2> QED BY <1>1, <2>1
<1> QED BY <1>1, <1>3, <1>4

\* The steps of the client keep the ends fitting.
LEMMA RunnerClientEndsFit ==
  ASSUME EndsFit, SessionTyped, RunnerInv, RunnerInv', RunnerNext,
         Handshake \/ FrameReader \/ RunnerTerminate
  PROVE  EndsFit'
<1> USE DEF Elevated, Direct, OnPty, backend, Feeder, Dead, Quiet, AtEof, Ended, ExitKnown
<1>b. /\ command \in AnyCommand /\ chan \in AnyChan(command.made) /\ runner \in AnyRunner
      /\ outbox \in Seq(FromRunner(command.made)) /\ task \in AnyTask /\ exit \in AnyExit
      /\ client \in AnyClient(command.made, scenario.writes) /\ stdin \in AnyStdin
  BY DEF SessionTyped, CommandTyped, ChanTyped, OutboxTyped, ClientTyped, TasksTyped, RunnerInv
<1>c. /\ Ended => Ended' /\ command'.code = command.code
      /\ Quiet => Quiet'
      /\ AtEof => AtEof'
  BY EndStays DEF SessionsNext
<1>d. /\ OwnParts /\ FramesFit /\ RunnerFits /\ ReaderFits /\ WaiterFits
      /\ ExitFits /\ WaitFits /\ ClientFits
  BY DEF EndsFit
<1>f. Elevated /\ JobMatches /\ JobMatches' /\ UNCHANGED scenario
  <2>1. UNCHANGED scenario
    BY DEF Handshake, ClientConnects, ClientRequests, ClientIsUp, StartFails, FrameReader,
       RunnerTerminate, sessionVars
  <2> QED BY <2>1, RunnerIsElevated DEF RunnerInv
<1>1. CASE ClientConnects \/ ClientRequests
  <2>1. UNCHANGED <<sessionVars, runner, outbox>> /\ link # "up" /\ link' # "up"
    BY <1>1 DEF ClientConnects, ClientRequests, Connected
  <2>2. UNCHANGED endsVars /\ command' = command
    BY <2>1 DEF endsVars, sessionVars
  <2>3. EndsAs(command, command')
    BY <1>b, <2>2 DEF EndsAs
  <2> QED BY <1>c, <2>1, <2>2, <2>3, EndsStay
<1>2. CASE ClientIsUp
  <2>1. /\ outbox # <<>> /\ Head(outbox).kind = "ready" /\ outbox' = Tail(outbox)
        /\ link = "await" /\ link' = "up" /\ runner' = runner
        /\ task'.reader = "running" /\ task'.stream = task.stream /\ task'.wait = task.wait
        /\ client'.listening = TRUE /\ client'.eof = client.eof /\ client'.got = client.got
        /\ client'.aborted = client.aborted
        /\ UNCHANGED <<scenario, command, chan, exit, waiter>>
    BY <1>2, <1>b DEF ClientIsUp, AnyTask, AnyClient
  <2>2. task.reader = "off" /\ task.stream = "running"
    BY <1>d, <1>f, <2>1 DEF OwnParts
  <2>3. /\ Len(outbox) \in Nat \ {0} /\ Len(outbox') = Len(outbox) - 1
        /\ \A i \in 1..Len(outbox') : i + 1 \in 1..Len(outbox) /\ outbox'[i] = outbox[i + 1]
        /\ Head(outbox) = outbox[1]
        /\ outbox' = <<>> => Len(outbox) = 1
        /\ outbox' # <<>> => outbox'[Len(outbox')] = outbox[Len(outbox)]
    BY <1>b, <2>1, FramesLeft
  <2>4. ASSUME NEW i \in 1..Len(outbox') PROVE FrameFits(i)'
    <3>1. FrameFits(i + 1) /\ i + 1 # 1 /\ outbox'[i] = outbox[i + 1]
      BY <1>d, <2>3, <2>4 DEF FramesFit
    <3>2. i + 1 = Len(outbox) => i = Len(outbox')
      BY <2>3, <2>4
    <3> QED BY <2>1, <3>1, <3>2 DEF FrameFits
  <2>5. FramesFit'
    BY <1>d, <2>1, <2>2, <2>3, <2>4 DEF FramesFit
  <2>6. OwnParts' /\ RunnerFits' /\ ReaderFits' /\ WaiterFits'
    BY <1>d, <1>f, <2>1, <2>2 DEF OwnParts, RunnerFits, ReaderFits, WaiterFits
  <2>7. ExitFits' /\ WaitFits' /\ ClientFits'
    BY <1>d, <1>f, <2>1, <2>2 DEF OwnParts, ExitFits, WaitFits, ClientFits
  <2> QED BY <2>5, <2>6, <2>7 DEF EndsFit
<1>3. CASE StartFails
  <2>1. /\ link # "up" /\ link' # "up"
        /\ UNCHANGED <<scenario, chan, task, exit, waiter, client, outbox>>
    BY <1>3 DEF StartFails, WaitsForRunner
  <2>2. task.reader = "off" /\ task.stream = "running"
    BY <1>d, <1>f, <2>1 DEF OwnParts
  <2>3. CASE UNCHANGED <<command, runner>>
    <3>1. UNCHANGED endsVars
      BY <2>1, <2>3 DEF endsVars
    <3>2. EndsAs(command, command')
      BY <1>b, <2>3 DEF EndsAs
    <3> QED BY <1>c, <2>1, <3>1, <3>2, EndsStay
  <2>4. CASE ~Gone /\ RunnerDead
    <3>1. runner'.at = "dead" /\ runner.at \notin {"none", "exited", "dead"}
      BY <1>b, <2>4 DEF RunnerDead, Gone, AnyRunner
    <3>e. EndsAs(command, command')
      BY <1>b, <2>4, JobEndsAs DEF RunnerDead
    <3>2. FramesFit'
      BY <1>d, <2>1, <2>2, <3>1, FramesOfMany DEF FramesFit, FrameFits
    <3>3. OwnParts' /\ RunnerFits' /\ ReaderFits' /\ WaiterFits'
      BY <1>c, <1>d, <1>f, <2>1, <3>1, <3>e
         DEF OwnParts, RunnerFits, ReaderFits, WaiterFits, EndsAs
    <3>4. ExitFits' /\ WaitFits' /\ ClientFits'
      BY <1>c, <1>d, <1>f, <2>1, <3>1 DEF OwnParts, ExitFits, WaitFits, ClientFits
    <3> QED BY <3>2, <3>3, <3>4 DEF EndsFit
  <2> QED BY <1>3, <2>3, <2>4 DEF StartFails
<1>4. CASE FrameReader
  <2>1. /\ task.reader = "running" /\ link = "up" /\ task'.stream = task.stream
        /\ task'.wait = task.wait /\ chan'.pipe = chan.pipe /\ chan'.queue = chan.queue
        /\ exit'.told = exit.told
        /\ UNCHANGED <<command, client, waiter, link, runner>>
    <3>1. task.reader = "running" /\ UNCHANGED <<command, client, waiter, link, runner>>
      BY <1>4 DEF FrameReader
    <3>2. /\ task'.stream = task.stream /\ task'.wait = task.wait
          /\ chan'.pipe = chan.pipe /\ chan'.queue = chan.queue /\ exit'.told = exit.told
      BY <1>4, <1>b DEF FrameReader, AnyTask, AnyChan, AnyExit
    <3> QED BY <1>d, <1>f, <3>1, <3>2 DEF OwnParts
  <2>2. \/ /\ outbox # <<>> /\ outbox' = Tail(outbox) /\ Head(outbox).kind = "chunk"
           /\ task'.reader = "running" /\ exit'.ch = exit.ch
        \/ /\ outbox # <<>> /\ outbox' = Tail(outbox) /\ Head(outbox).kind # "chunk"
           /\ task'.reader = "done" /\ exit'.ch = Head(outbox).code /\ chan' = chan
        \/ /\ outbox = <<>> /\ outbox' = <<>> /\ Gone
           /\ task'.reader = "done" /\ exit'.ch = "lost"
    BY <1>4, <1>b, <2>1 DEF FrameReader, AnyTask, AnyExit
  <2>3. ~(task.stream = "done" /\ client.listening)
    BY <1>d, <2>1 DEF ClientFits
  <2>4. OwnParts' /\ RunnerFits' /\ WaiterFits'
    BY <1>d, <1>f, <2>1, <2>2 DEF OwnParts, RunnerFits, WaiterFits
  <2>5. ClientFits'
    BY <1>d, <1>f, <2>1, <2>2, <2>3 DEF ClientFits, OwnParts
  <2>6. outbox # <<>> /\ outbox' = Tail(outbox) =>
          /\ Len(outbox) \in Nat \ {0} /\ Len(outbox') = Len(outbox) - 1
          /\ \A i \in 1..Len(outbox') : i + 1 \in 1..Len(outbox) /\ outbox'[i] = outbox[i + 1]
          /\ Head(outbox) = outbox[1]
          /\ outbox' = <<>> => Len(outbox) = 1
          /\ outbox' # <<>> => outbox'[Len(outbox')] = outbox[Len(outbox)]
    BY <1>b, FramesLeft
  <2>7. CASE /\ outbox # <<>> /\ outbox' = Tail(outbox) /\ Head(outbox).kind = "chunk"
             /\ task'.reader = "running" /\ exit'.ch = exit.ch
    <3>1. ASSUME NEW i \in 1..Len(outbox') PROVE FrameFits(i)'
      BY <1>d, <2>1, <2>6, <2>7, <3>1 DEF FramesFit, FrameFits
    <3>2. FramesFit'
      BY <1>d, <2>1, <2>6, <2>7, <3>1 DEF FramesFit
    <3>3. ReaderFits' /\ ExitFits' /\ WaitFits'
      BY <1>d, <1>f, <2>1, <2>7 DEF ReaderFits, ExitFits, WaitFits
    <3> QED BY <2>4, <2>5, <3>2, <3>3 DEF EndsFit
  <2>8. CASE /\ outbox # <<>> /\ outbox' = Tail(outbox) /\ Head(outbox).kind # "chunk"
             /\ task'.reader = "done" /\ exit'.ch = Head(outbox).code /\ chan' = chan
    <3>1. Head(outbox).kind \in {"ready", "error", "chunk", "exit"} /\ 1 \in 1..Len(outbox)
      BY <1>b, <2>6, <2>8 DEF FromRunner
    <3>2. /\ Head(outbox).kind = "exit" /\ 1 = Len(outbox) /\ runner.at = "exited" /\ AtEof
          /\ exit'.ch \in {command.code, "timeout"}
      BY <1>d, <2>1, <2>6, <2>8, <3>1 DEF FramesFit, FrameFits
    <3>3. outbox' = <<>>
      BY <2>6, <2>8, <3>2, <1>b
    <3>4. FramesFit'
      <4>1. 1..Len(outbox') = {}
        BY <3>3, EmptySeq
      <4>2. ASSUME NEW i \in 1..Len(outbox') PROVE FrameFits(i)'
        BY <4>1, <4>2
      <4> QED BY <2>1, <2>8, <3>2, <3>3, <4>2 DEF FramesFit
    <3>5. command.code # NoCode /\ exit'.ch # NoCode
      BY <1>d, <3>2 DEF RunnerFits, NoCode
    <3>6. ReaderFits' /\ ExitFits' /\ WaitFits'
      BY <1>d, <1>f, <2>1, <2>8, <3>2, <3>3, <3>5 DEF ReaderFits, ExitFits, WaitFits
    <3> QED BY <2>4, <2>5, <3>4, <3>6 DEF EndsFit
  <2>9. CASE /\ outbox = <<>> /\ outbox' = <<>> /\ Gone
             /\ task'.reader = "done" /\ exit'.ch = "lost"
    <3>1. Dead
      BY <1>d, <2>1, <2>9 DEF FramesFit, Gone
    <3>2. FramesFit'
      <4>1. 1..Len(outbox') = {}
        BY <2>9, EmptySeq
      <4>2. ASSUME NEW i \in 1..Len(outbox') PROVE FrameFits(i)'
        BY <4>1, <4>2
      <4>3. runner'.at = "dead"
        BY <2>1, <3>1
      <4> QED BY <2>9, <4>2, <4>3 DEF FramesFit
    <3>3. ReaderFits' /\ ExitFits' /\ WaitFits'
      BY <1>d, <1>f, <2>1, <2>9, <3>1 DEF ReaderFits, ExitFits, WaitFits, NoCode
    <3> QED BY <2>4, <2>5, <3>2, <3>3 DEF EndsFit
  <2> QED BY <2>2, <2>7, <2>8, <2>9
<1>5. CASE RunnerTerminate
  <2>1. /\ client'.aborted = TRUE /\ client'.eof = client.eof /\ client'.got = client.got
        /\ client'.listening = client.listening /\ link = "up"
        /\ UNCHANGED <<command, chan, exit, waiter, link, runner, outbox>>
    BY <1>5, <1>b DEF RunnerTerminate, AnyClient
  <2>2. /\ task'.reader = task.reader
        /\ task'.stream = task.stream \/ (task'.stream = "aborted" /\ task.stream = "running")
        /\ task'.wait = task.wait \/ (task'.wait = "aborted" /\ task.wait = "waiting")
    BY <1>5, <1>b, <1>f, AbortStops DEF RunnerTerminate
  <2>3. FramesFit'
    BY <1>c, <1>d, <2>1, <2>2, FramesStay
  <2>4. OwnParts' /\ RunnerFits' /\ ReaderFits' /\ WaiterFits'
    BY <1>d, <1>f, <2>1, <2>2 DEF OwnParts, RunnerFits, ReaderFits, WaiterFits
  <2>5. ExitFits' /\ WaitFits' /\ ClientFits'
    BY <1>d, <1>f, <2>1, <2>2 DEF OwnParts, ExitFits, WaitFits, ClientFits
  <2> QED BY <2>3, <2>4, <2>5 DEF EndsFit
<1> QED BY <1>1, <1>2, <1>3, <1>4, <1>5 DEF Handshake

\* The steps of RunnerSession keep the ends fitting.
LEMMA RunnerEndsFit ==
  ASSUME EndsFit, SessionTyped, RunnerInv, RunnerInv', RunnerNext
  PROVE  EndsFit'
<1>1. CASE RunnerMain \/ RunnerReads \/ RunnerTimesOut \/ RunnerDies
  BY <1>1, RunnerMainEndsFit
<1>2. CASE Handshake \/ FrameReader \/ RunnerTerminate
  BY <1>2, RunnerClientEndsFit
<1>3. CASE RunnerInput \/ StdinWriter \/ RunnerRequestTerminate \/ RunnerFork
  <2>b. /\ command \in AnyCommand /\ chan \in AnyChan(command.made) /\ runner \in AnyRunner
        /\ task \in AnyTask /\ client \in AnyClient(command.made, scenario.writes)
    BY DEF SessionTyped, CommandTyped, ChanTyped, ClientTyped, TasksTyped, RunnerInv
  <2>1. UNCHANGED <<endsVars, link>>
    BY <1>3, <2>b DEF endsVars, runnerVars, RunnerInput, RunnerTakes, RunnerInputEnds, StdinWriter,
       RunnerRequestTerminate, RunnerFork, Fork, AnyChan, AnyTask, AnyClient
  <2>2. runner.at = "spawning" /\ RunnerSpawns => runner' # runner
    BY <2>b DEF RunnerSpawns, AnyRunner
  <2>3. EndsAs(command, command')
    BY <2>b, <2>1, <2>2, StepEndsAs DEF RunnerSpawns, endsVars
  <2>4. AtEof => AtEof'
    BY EndStays DEF SessionsNext
  <2> QED BY <2>1, <2>3, <2>4, EndsStay
<1> QED BY <1>1, <1>2, <1>3 DEF RunnerNext, RunnerClientStep

\* So does the logon, which comes before anything has run.
LEMMA LogonEndsFit ==
  ASSUME EndsFit, SessionTyped, RunnerInv, NEW accepted \in BOOLEAN, Logon(accepted)
  PROVE  EndsFit'
<1> USE DEF Elevated, Direct, OnPty, backend, Feeder, Dead, Quiet, AtEof, Ended, ExitKnown
<1>b. command \in AnyCommand /\ runner \in AnyRunner
  BY DEF RunnerInv
<1>1. UNCHANGED <<sessionVars, outbox>> /\ link # "up" /\ link' # "up"
  BY DEF Logon
<1>2. runner.at = "none" /\ runner'.at \in {"none", "starting"}
  BY <1>b DEF Logon, RunnerInv, LinkMatches, AnyRunner
<1>d. /\ OwnParts /\ FramesFit /\ RunnerFits /\ ReaderFits /\ WaiterFits
      /\ ExitFits /\ WaitFits /\ ClientFits
  BY DEF EndsFit
<1>f. Elevated
  BY DEF Logon
<1>3. outbox = <<>> /\ task.reader = "off"
  BY <1>1, <1>2, <1>d, <1>f DEF FramesFit, OwnParts
<1>4. OwnParts' /\ FramesFit' /\ RunnerFits' /\ ReaderFits' /\ WaiterFits'
  BY <1>1, <1>2, <1>3, <1>d, <1>f
     DEF OwnParts, FramesFit, RunnerFits, ReaderFits, WaiterFits, sessionVars
<1>5. ExitFits' /\ WaitFits' /\ ClientFits'
  BY <1>1, <1>2, <1>3, <1>d, <1>f DEF ExitFits, WaitFits, ClientFits, sessionVars
<1> QED BY <1>4, <1>5 DEF EndsFit

-----------------------------------------------------------------------------
(* The flow of the chunks, from the command to the client.                 *)

\* What is under way, and where its chains end, is numbered by chunks made.
LEMMA FlowTyped ==
  ASSUME SessionTyped, Flow
  PROVE  /\ command.made \in Nat /\ 1..command.made \subseteq Nat /\ 0..command.made \subseteq Nat
         /\ chan.pipe \in Seq(1..command.made) /\ chan.bcast \in Seq(1..command.made)
         /\ chan.queue \in Seq(1..command.made) /\ client.got \in Seq(1..command.made)
         /\ chan.pipe \in Seq(Nat) /\ chan.bcast \in Seq(Nat)
         /\ chan.queue \in Seq(Nat) /\ client.got \in Seq(Nat)
         /\ chan.pipe \in Seq(Int) /\ chan.bcast \in Seq(Int) /\ chan.queue \in Seq(Int)
         /\ outbox \in Seq(FromRunner(command.made))
         /\ {Seen, Queued, Kept, Sent} \subseteq 0..command.made
         /\ Len(chan.bcast) <= BroadcastCap
<1> DEFINE m == command.made
<1>1. /\ m \in Nat /\ outbox \in Seq(FromRunner(m)) /\ Len(chan.bcast) <= BroadcastCap
      /\ \A s \in {chan.pipe, chan.bcast, chan.queue, client.got} : s \in Seq(1..m)
  BY DEF SessionTyped, CommandTyped, AnyCommand, ChanTyped, AnyChan, OutboxTyped, Flow
<1> HIDE DEF m
<1>2. /\ 1..m \subseteq Nat /\ 0..m \subseteq Nat /\ 0 \in 0..m
      /\ 1..m \subseteq 0..m /\ 1..m \subseteq Int
  BY <1>1
<1>3. \A s \in {chan.pipe, chan.bcast, chan.queue, client.got} :
        s \in Seq(Nat) /\ s \in Seq(Int) /\ s \in Seq(0..m)
  BY <1>1, <1>2, SeqMonotonic
<1>4. Seen \in 0..m
  BY <1>2, <1>3, EndTyped DEF Seen
<1>5. Queued \in 0..m
  BY <1>3, <1>4, EndTyped DEF Queued
<1>6. Kept \in 0..m
  BY <1>3, <1>5, EndTyped DEF Kept
<1>7. Sent \in 0..m
  BY <1>1, <1>6, FramesEndTyped DEF Sent, m
<1> QED BY <1>1, <1>2, <1>3, <1>4, <1>5, <1>6, <1>7 DEF m

\* The same with the notice among it
LEMMA LossTyped ==
  ASSUME SessionTyped
  PROVE  /\ command.made \in Nat
         /\ chan.bcast \in Seq(Numbers(command.made)) /\ chan.queue \in Seq(Numbers(command.made))
         /\ chan.bcast \in Seq(Int) /\ chan.queue \in Seq(Int) /\ client.got \in Seq(Int)
         /\ {Seen, Queued, Kept} \subseteq Int
         /\ Seen \in Numbers(command.made) \cup {0}
<1> DEFINE m == command.made
<1>1. /\ m \in Nat
      /\ \A s \in {chan.bcast, chan.queue, client.got} : s \in Seq(Numbers(m))
  BY DEF SessionTyped, CommandTyped, AnyCommand, ChanTyped, AnyChan, ClientTyped, AnyClient
<1> HIDE DEF m
<1>2. Numbers(m) \subseteq Int /\ Numbers(m) \subseteq Numbers(m) \cup {0}
      /\ 0 \in Numbers(m) \cup {0} /\ 0 \in Int
  BY <1>1 DEF Numbers, Notice
<1>3. \A s \in {chan.bcast, chan.queue, client.got} :
        s \in Seq(Int) /\ s \in Seq(Numbers(m) \cup {0})
  BY <1>1, <1>2, SeqMonotonic
<1>4. Seen \in Int /\ Seen \in Numbers(m) \cup {0}
  BY <1>2, <1>3, EndTyped DEF Seen
<1>5. Queued \in Int
  BY <1>3, <1>4, EndTyped DEF Queued
<1>6. Kept \in Int
  BY <1>3, <1>5, EndTyped DEF Kept
<1> QED BY <1>1, <1>3, <1>4, <1>5, <1>6 DEF m

\* Whether the notice has been sent changes only with its sending: a runner that
\* is still there to die has a client that reads (RunnerDead).
LEMMA NoticedStays ==
  ASSUME EndsFit, scenario' = scenario, task'.reader = "done" <=> task.reader = "done",
         Dead => Dead', Gone => (Dead' => Dead)
  PROVE  Noticed' <=> Noticed
<1>1. task.reader = "done" => Gone
  BY DEF EndsFit, ReaderFits, Dead, Gone
<1> QED BY <1>1 DEF Noticed, Dead, Elevated, backend

\* Who attends, and what has been sent, decides what there is to show.
LEMMA FlowKeptBy ==
  ASSUME FlowKept, Attached' => Attached, Noticed' <=> Noticed,
         ~Noticed /\ Flow => Flow', Noticed /\ LossFlow => LossFlow'
  PROVE  FlowKept'
BY DEF FlowKept

\* The flow depends on nothing but what is under way.
LEMMA FlowStays ==
  ASSUME FlowKept, Attached' => Attached, Noticed' <=> Noticed, scenario' = scenario,
         command'.made = command.made, chan'.pipe = chan.pipe, chan'.bcast = chan.bcast,
         chan'.queue = chan.queue, outbox' = outbox, client'.got = client.got
  PROVE  FlowKept'
<1>1. Seen' = Seen
  BY DEF Seen
<1>2. Queued' = Queued
  BY <1>1 DEF Queued
<1>3. Kept' = Kept
  BY <1>2 DEF Kept
<1>4. Sent' = Sent
  BY <1>3 DEF Sent
<1>5. Flow => Flow'
  BY <1>1, <1>2, <1>3, <1>4 DEF Flow, backend
<1>6. LossFlow => LossFlow'
  BY <1>1, <1>2, <1>3 DEF LossFlow
<1> QED BY <1>5, <1>6, FlowKeptBy

\* The command writes the next chunk (Produce): nothing has been sent after its
\* end, so that no exit is under way.
LEMMA ProduceFlow ==
  ASSUME SessionTyped, EndsFit, Flow, Produce, outbox' = outbox
  PROVE  Flow'
<1> DEFINE m == command.made
<1>a. /\ chan'.pipe = Append(chan.pipe, m + 1) /\ chan'.bcast = chan.bcast
      /\ chan'.queue = chan.queue /\ command'.made = m + 1
      /\ UNCHANGED <<scenario, client, task>>
  BY DEF Produce, SessionTyped, ChanTyped, AnyChan, CommandTyped, AnyCommand
<1>b. /\ m \in Nat /\ m + 1 \in Nat /\ m <= m + 1
      /\ chan.pipe \in Seq(Nat) /\ chan.pipe \in Seq(Int) /\ chan.bcast \in Seq(Int)
      /\ chan.queue \in Seq(Int) /\ 1..m \subseteq 1..(m + 1)
      /\ \A s \in {client.got, chan.queue, chan.bcast} : s \in Seq(1..m)
      /\ outbox \in Seq(FromRunner(m)) /\ {Seen, Queued, Kept, Sent} \subseteq Nat
  BY FlowTyped, SMTT(30)
<1>c. Unfinished(outbox)
  BY DEF Unfinished, Produce, EndsFit, FramesFit, FrameFits, AtEof, Ended, Running
<1> HIDE DEF m
<1>1. Seen' = Seen
  BY <1>a DEF Seen
<1>2. Queued' = Queued
  BY <1>1, <1>a DEF Queued
<1>3. Kept' = Kept
  BY <1>2, <1>a DEF Kept
<1>4. FramesChained(backend, m, Kept, outbox) /\ Chained(backend, m, Sent, chan.pipe)
      /\ EndOf(Sent, chan.pipe) = m
      /\ Chained(backend, m, Seen, chan.queue) /\ Chained(backend, m, Queued, chan.bcast)
  BY DEF Flow, m
<1>5. FramesChained(backend, m + 1, Kept, outbox) /\ FramesEnd(m + 1, Kept, outbox) = Sent
  <2>1. Sent = FramesEnd(m, Kept, outbox) /\ Kept \in Nat
    BY <1>b DEF Sent, m
  <2>2. FramesChained(backend, m + 1, Kept, outbox)
    BY <1>b, <1>c, <1>4, <2>1, FramesLonger
  <2>3. FramesEnd(m + 1, Kept, outbox) = FramesEnd(m, Kept, outbox)
    BY <1>b, <1>c, FramesEndLonger
  <2> QED BY <2>1, <2>2, <2>3
<1>6. Sent' = Sent
  BY <1>3, <1>5, <1>a DEF Sent
<1>7. /\ Chained(backend, m + 1, Seen, chan.queue) /\ Chained(backend, m + 1, Queued, chan.bcast)
      /\ Chained(backend, m + 1, Sent, chan.pipe)
  BY <1>b, <1>4, ChainedLonger, SMTT(30)
<1>8. /\ Chained(backend, m + 1, Sent, Append(chan.pipe, m + 1))
      /\ EndOf(Sent, Append(chan.pipe, m + 1)) = m + 1
  <2>1. Follows(backend, m + 1, EndOf(Sent, chan.pipe), m + 1)
    BY <1>b, <1>4 DEF Follows
  <2> QED BY <1>b, <1>7, <2>1, ChainedAppend
<1>9. \A s \in {client.got, chan.queue, chan.bcast} : s \in Seq(1..(m + 1))
  BY <1>b, SeqMonotonic
<1> QED BY <1>1, <1>2, <1>3, <1>5, <1>6, <1>7, <1>8, <1>9, <1>a DEF Flow, backend, m

\* A descendant may go on when the notice has been sent.
LEMMA ProduceLossFlow ==
  ASSUME SessionTyped, LossFlow, Produce
  PROVE  LossFlow'
<1> DEFINE m == command.made
<1>a. /\ chan'.bcast = chan.bcast /\ chan'.queue = chan.queue /\ command'.made = m + 1
      /\ client' = client
  BY DEF Produce, SessionTyped, ChanTyped, AnyChan, CommandTyped, AnyCommand
<1>b. /\ m \in Nat /\ m + 1 \in Nat /\ m <= m + 1 /\ chan.bcast \in Seq(Int)
      /\ chan.queue \in Seq(Int) /\ {Seen, Queued, Kept} \subseteq Int
  BY LossTyped
<1>1. /\ Chained("lost", m, Seen, chan.queue) /\ Chained("lost", m, Queued, chan.bcast)
      /\ Kept = Notice
  BY DEF LossFlow
<1> HIDE DEF m
<1>2. Seen' = Seen
  BY <1>a DEF Seen
<1>3. Queued' = Queued
  BY <1>2, <1>a DEF Queued
<1>4. Kept' = Kept
  BY <1>3, <1>a DEF Kept
<1>5. Chained("lost", m + 1, Seen, chan.queue) /\ Chained("lost", m + 1, Queued, chan.bcast)
  BY <1>b, <1>1, ChainedLonger
<1> QED BY <1>a, <1>1, <1>2, <1>3, <1>4, <1>5 DEF LossFlow

\* A direct backend hands a chunk to the channel of the client, and the legacy
\* backend to the broadcast channel (read_output_stream, the legacy reader).
LEMMA ReadFlow ==
  ASSUME SessionTyped, EndsFit, Flow, client.listening, ReadDirect \/ ReadLegacy,
         outbox' = outbox
  PROVE  Flow'
<1> DEFINE m == command.made
           c == Head(chan.pipe)
<1>a. /\ chan.pipe # <<>> /\ chan'.pipe = Tail(chan.pipe) /\ task.reader = "running"
      /\ UNCHANGED <<scenario, client, task, command>>
  BY DEF ReadDirect, ReadLegacy, SessionTyped, ChanTyped, AnyChan
<1>b. /\ m \in Nat /\ chan.pipe \in Seq(1..m) /\ chan.bcast \in Seq(1..m) /\ chan.pipe \in Seq(Nat)
      /\ chan.queue \in Seq(1..m) /\ client.got \in Seq(1..m)
      /\ chan.bcast \in Seq(Nat) /\ chan.queue \in Seq(Nat)
      /\ {Seen, Queued, Kept, Sent} \subseteq Nat /\ Len(chan.bcast) <= BroadcastCap
  BY FlowTyped
<1>c. ~Elevated /\ outbox = <<>>
  BY DEF ReadDirect, ReadLegacy, Direct, OnPty, Elevated, EndsFit, OwnParts
<1>d. c \in 1..m /\ c \in Nat
  BY <1>a, <1>b, HeadTailProperties
<1>1. /\ Chained(backend, m, Seen, chan.queue) /\ Chained(backend, m, Queued, chan.bcast)
      /\ Spread(chan.bcast) /\ Chained(backend, m, Sent, chan.pipe) /\ EndOf(Sent, chan.pipe) = m
  BY DEF Flow
<1>2. Sent = Kept
  BY <1>c DEF Sent, FramesEnd
<1>3. /\ Follows(backend, m, Kept, c) /\ Chained(backend, m, c, Tail(chan.pipe))
      /\ EndOf(c, Tail(chan.pipe)) = m
  BY <1>1, <1>2, <1>a, <1>b, ChainedTail
<1> HIDE DEF c, m
<1>4. Seen' = Seen
  BY <1>a DEF Seen
<1>5. /\ chan'.queue \in Seq(1..m) /\ chan'.bcast \in Seq(1..m)
      /\ Kept' = c /\ Chained(backend, m, Seen, chan'.queue)
      /\ Chained(backend, m, Queued', chan'.bcast) /\ Spread(chan'.bcast)
  <2>1. CASE ReadDirect
    <3>1. chan'.bcast = <<>> /\ chan'.queue = Append(chan.queue, c) /\ chan.bcast = <<>>
      BY <2>1 DEF ReadDirect, SessionTyped, ChanTyped, AnyChan, EndsFit, OwnParts, c
    <3>2. Kept = Queued
      BY <3>1 DEF Kept, EndOf
    <3>3. Chained(backend, m, Seen, Append(chan.queue, c)) /\ EndOf(Seen, Append(chan.queue, c)) = c
      BY <1>1, <1>3, <1>b, <1>d, <3>2, ChainedAppend DEF Queued
    <3>4. Queued' = c
      BY <1>4, <3>1, <3>3 DEF Queued
    <3>5. chan'.queue \in Seq(1..m) /\ chan'.bcast \in Seq(1..m)
      BY <1>b, <1>d, <3>1, AppendProperties
    <3> QED BY <3>1, <3>3, <3>4, <3>5 DEF Kept, EndOf, Chained, Spread
  <2>2. CASE ReadLegacy
    <3>1. chan'.bcast = Broadcast(chan.bcast, c) /\ chan'.queue = chan.queue /\ backend = "legacy"
      BY <2>2 DEF ReadLegacy, SessionTyped, ChanTyped, AnyChan, c
    <3>2. Queued' = Queued
      BY <1>4, <3>1 DEF Queued
    <3>3. backend \in Lossy
      BY <3>1 DEF Lossy
    <3>4. /\ Chained(backend, m, Queued, Broadcast(chan.bcast, c)) /\ Spread(Broadcast(chan.bcast, c))
          /\ EndOf(Queued, Broadcast(chan.bcast, c)) = c
          /\ Broadcast(chan.bcast, c) \in Seq(1..m)
      BY <1>1, <1>3, <1>b, <1>d, <3>3, BroadcastChained DEF Kept
    <3> QED BY <1>1, <1>b, <3>1, <3>2, <3>4 DEF Kept
  <2> QED BY <2>1, <2>2
<1>6. Sent' = c /\ FramesChained(backend, m, c, outbox')
  BY <1>5, <1>c DEF Sent, FramesEnd, FramesChained
<1> QED BY <1>3, <1>4, <1>5, <1>6, <1>a, <1>b DEF Flow, backend, m

\* The stream task moves a chunk or the notice on, and the client receives one, to
\* whom things follow each other as before (spawn_from_driver).
LEMMA ForwardChained ==
  ASSUME SessionTyped, NEW by, StreamForwards \/ Receive, client.listening,
         Chained(by, command.made, Seen, chan.queue), Chained(by, command.made, Queued, chan.bcast)
  PROVE  /\ Chained(by, command.made, Seen', chan'.queue)
         /\ Chained(by, command.made, Queued', chan'.bcast)
         /\ Kept' = Kept
         /\ \/ chan'.bcast = chan.bcast
            \/ chan.bcast # <<>> /\ chan'.bcast = Tail(chan.bcast)
<1> DEFINE m == command.made
<1>b. /\ m \in Nat /\ chan.bcast \in Seq(Int) /\ chan.queue \in Seq(Int) /\ client.got \in Seq(Int)
      /\ {Seen, Queued, Kept} \subseteq Int
  BY LossTyped
<1>1. Chained(by, m, Seen, chan.queue) /\ Chained(by, m, Queued, chan.bcast)
  OBVIOUS
<1> HIDE DEF m
<1>2. CASE StreamForwards
  <2> DEFINE c == Head(chan.bcast)
  <2>1. /\ chan.bcast # <<>> /\ chan'.bcast = Tail(chan.bcast)
        /\ chan'.queue = Append(chan.queue, c) /\ client' = client
    BY <1>2 DEF StreamForwards, SessionTyped, ChanTyped, AnyChan
  <2>2. /\ Follows(by, m, Queued, c) /\ Chained(by, m, c, Tail(chan.bcast))
        /\ EndOf(c, Tail(chan.bcast)) = Kept /\ c \in Int
    BY <1>1, <1>b, <2>1, ChainedTail, HeadTailProperties DEF Kept
  <2> HIDE DEF c
  <2>3. Chained(by, m, Seen, Append(chan.queue, c)) /\ EndOf(Seen, Append(chan.queue, c)) = c
    BY <1>1, <1>b, <2>2, ChainedAppend DEF Queued
  <2>4. Seen' = Seen
    BY <2>1 DEF Seen
  <2>5. Queued' = c
    BY <2>1, <2>3, <2>4 DEF Queued
  <2> QED BY <2>1, <2>2, <2>3, <2>4, <2>5 DEF Kept, m
<1>3. CASE Receive
  <2> DEFINE c == Head(chan.queue)
  <2>1. /\ chan.queue # <<>> /\ chan'.queue = Tail(chan.queue) /\ chan'.bcast = chan.bcast
        /\ client'.got = Append(client.got, c)
    BY <1>3 DEF Receive, SessionTyped, ChanTyped, AnyChan, ClientTyped, AnyClient
  <2>2. /\ Chained(by, m, c, Tail(chan.queue)) /\ EndOf(c, Tail(chan.queue)) = Queued
        /\ c \in Int
    BY <1>1, <1>b, <2>1, ChainedTail, HeadTailProperties DEF Queued
  <2> HIDE DEF c
  <2>3. Seen' = c
    <3>1. client.got \in Seq(Int) /\ c \in Int
      BY <1>b, <2>2
    <3>2. EndOf(0, Append(client.got, c)) = c
      BY <3>1, EndAppended, ZenonT(60)
    <3> QED BY <2>1, <3>2 DEF Seen
  <2>4. Queued' = Queued
    BY <2>1, <2>2, <2>3 DEF Queued
  <2> QED BY <1>1, <2>1, <2>2, <2>3, <2>4 DEF Kept, m
<1> QED BY <1>2, <1>3

\* So the flow goes on, and what is chunks stays so.
LEMMA ForwardFlow ==
  ASSUME SessionTyped, EndsFit, FlowKept, StreamForwards \/ Receive, UNCHANGED runnerVars
  PROVE  FlowKept'
<1> DEFINE m == command.made
<1>a. /\ chan'.pipe = chan.pipe /\ UNCHANGED <<scenario, command, outbox, runner>>
      /\ client'.listening = client.listening /\ task'.reader = task.reader
  BY DEF StreamForwards, Receive, SessionTyped, ChanTyped, AnyChan, ClientTyped, AnyClient,
     TasksTyped, AnyTask, runnerVars
<1>c. (Attached' => Attached) /\ (Noticed' <=> Noticed)
  BY <1>a DEF Attached, Noticed, Elevated, backend
<1>d. ~client.listening => ~Attached'
  BY <1>a DEF StreamForwards, Receive, EndsFit, OwnParts, Attached
<1> SUFFICES ASSUME client.listening PROVE (Flow => Flow') /\ (LossFlow => LossFlow')
  BY <1>c, <1>d, FlowKeptBy DEF FlowKept
<1>1. ASSUME Flow PROVE Flow'
  <2>1. /\ Chained(backend, m, Seen, chan.queue) /\ Chained(backend, m, Queued, chan.bcast)
        /\ Spread(chan.bcast) /\ FramesChained(backend, m, Kept, outbox)
        /\ Chained(backend, m, Sent, chan.pipe) /\ EndOf(Sent, chan.pipe) = m
    BY <1>1 DEF Flow
  <2>2. /\ Chained(backend, m, Seen', chan'.queue) /\ Chained(backend, m, Queued', chan'.bcast)
        /\ Kept' = Kept
        /\ \/ chan'.bcast = chan.bcast
           \/ chan.bcast # <<>> /\ chan'.bcast = Tail(chan.bcast)
    BY <2>1, ForwardChained
  <2>3. /\ chan.bcast \in Seq(Nat) /\ chan.bcast \in Seq(1..m) /\ chan.queue \in Seq(1..m)
        /\ client.got \in Seq(1..m)
    BY <1>1, FlowTyped
  <2> HIDE DEF m
  <2>4. Spread(chan'.bcast)
    BY <2>1, <2>2, <2>3, SpreadTail
  <2>5. \A s \in {client'.got, chan'.queue, chan'.bcast} : s \in Seq(1..m)
    <3>1. CASE StreamForwards
      <4>1. /\ chan.bcast # <<>> /\ chan'.bcast = Tail(chan.bcast)
            /\ chan'.queue = Append(chan.queue, Head(chan.bcast)) /\ client' = client
        BY <3>1 DEF StreamForwards, SessionTyped, ChanTyped, AnyChan
      <4>2. Tail(chan.bcast) \in Seq(1..m) /\ Append(chan.queue, Head(chan.bcast)) \in Seq(1..m)
        BY <2>3, <4>1, HeadTailProperties, AppendProperties
      <4> QED BY <2>3, <4>1, <4>2
    <3>2. CASE Receive
      <4>1. /\ chan.queue # <<>> /\ chan'.queue = Tail(chan.queue) /\ chan'.bcast = chan.bcast
            /\ client'.got = Append(client.got, Head(chan.queue))
        BY <3>2 DEF Receive, SessionTyped, ChanTyped, AnyChan, ClientTyped, AnyClient
      <4>2. Tail(chan.queue) \in Seq(1..m) /\ Append(client.got, Head(chan.queue)) \in Seq(1..m)
        BY <2>3, <4>1, HeadTailProperties, AppendProperties
      <4> QED BY <2>3, <4>1, <4>2
    <3> QED BY <3>1, <3>2
  <2>6. Sent' = Sent
    BY <2>2, <1>a DEF Sent
  <2> QED BY <2>1, <2>2, <2>4, <2>5, <2>6, <1>a DEF Flow, backend, m
<1>2. ASSUME LossFlow PROVE LossFlow'
  <2>1. Chained("lost", m, Seen, chan.queue) /\ Chained("lost", m, Queued, chan.bcast)
        /\ Kept = Notice
    BY <1>2 DEF LossFlow
  <2>2. /\ Chained("lost", m, Seen', chan'.queue) /\ Chained("lost", m, Queued', chan'.bcast)
        /\ Kept' = Kept
    BY <2>1, ForwardChained
  <2> QED BY <2>1, <2>2, <1>a DEF LossFlow
<1> QED BY <1>1, <1>2

\* The steps of PtySession keep the flow.
LEMMA SessionFlow ==
  ASSUME SessionTyped, EndsFit, FlowKept, SessionNext, UNCHANGED runnerVars
  PROVE  FlowKept'
<1>a. /\ command \in AnyCommand /\ chan \in AnyChan(command.made) /\ task \in AnyTask
      /\ client \in AnyClient(command.made, scenario.writes) /\ stdin \in AnyStdin
  BY DEF SessionTyped, CommandTyped, ChanTyped, ClientTyped, TasksTyped
<1>b. outbox' = outbox /\ runner' = runner
  BY DEF runnerVars
<1>c. ASSUME scenario' = scenario, task'.reader = "done" <=> task.reader = "done"
      PROVE  Noticed' <=> Noticed
  BY <1>b, <1>c DEF Noticed, Elevated, backend
<1>1. CASE Produce
  <2>1. UNCHANGED <<scenario, client, task>>
    BY <1>1 DEF Produce
  <2> QED BY <1>b, <1>c, <1>1, <2>1, ProduceFlow, ProduceLossFlow, FlowKeptBy DEF Attached
<1>2. CASE ReadDirect \/ ReadLegacy
  <2>1. UNCHANGED <<scenario, client, task>> /\ ~Elevated /\ task.reader = "running"
    BY <1>2 DEF ReadDirect, ReadLegacy, Direct, OnPty, Elevated
  <2>2. Flow /\ client.listening => Flow'
    BY <1>b, <1>2, ReadFlow
  <2> QED BY <1>c, <2>1, <2>2, FlowKeptBy DEF Attached, FlowKept, Noticed
<1>3. CASE StreamForwards \/ Receive
  BY <1>3, ForwardFlow
<1>4. CASE StopListening
  <2>1. client.listening /\ ~client'.listening /\ task' = task
    BY <1>4, <1>a DEF StopListening, AnyClient
  <2> QED BY <2>1 DEF EndsFit, OwnParts, Attached, FlowKept
<1>5. CASE ReadEof \/ StreamEnds \/ Waiting
  <2>1. /\ UNCHANGED <<scenario, command, chan, client>> /\ (task'.reader = "off" => task.reader = "off")
        /\ task'.reader = task.reader \/ ~Elevated
    BY <1>5, <1>a DEF ReadEof, StreamEnds, Waiting, WaitSees, WaitTells, AnyTask, Elevated
  <2>2. Noticed' <=> Noticed
    BY <1>b, <2>1 DEF Noticed, Elevated, backend
  <2> QED BY <1>b, <2>1, <2>2, FlowStays DEF Attached
<1>6. CASE Terminate
  <2>1. /\ UNCHANGED <<scenario, chan>> /\ client'.got = client.got
        /\ client'.listening = client.listening
    BY <1>6, <1>a DEF Terminate, AnyClient
  <2>2. task'.reader # task.reader => task'.reader = "aborted" /\ task.reader = "running"
    BY <1>6, <1>a, AbortStops DEF Terminate
  <2>3. EndsAs(command, command')
    BY <2>1, QuietStepEndsAs
  <2>4. Noticed' <=> Noticed
    BY <1>c, <2>1, <2>2
  <2> QED BY <1>b, <2>1, <2>2, <2>3, <2>4, FlowStays DEF Attached, EndsAs
<1>7. CASE LegacyWaiting \/ WaiterTimesOut \/ Writing \/ ChildEnds \/ CommandEnds \/ CommandReads
             \/ LocalFork \/ Write \/ CloseStdin \/ ReceiveEnd \/ RequestTerminate
  <2>1. /\ scenario' = scenario /\ client'.got = client.got /\ task'.reader = task.reader
        /\ client'.listening = client.listening
        /\ chan'.pipe = chan.pipe /\ chan'.bcast = chan.bcast /\ chan'.queue = chan.queue
    BY <1>7, <1>a
       DEF LegacyWaiting, WaiterTerminates, WaiterReadsCode, WaiterJoins, WaiterTimesOut, Writing,
           WriterWrites, WriterEnds, ChildEnds, CommandEnds, CommandReads, LocalFork, Fork, Write,
           CloseStdin, ReceiveEnd, RequestTerminate, AnyChan, AnyTask, AnyClient
  <2>3. EndsAs(command, command')
    BY <2>1, QuietStepEndsAs
  <2> QED BY <1>b, <1>c, <2>1, <2>3, FlowStays DEF Attached, EndsAs
<1> QED BY <1>1, <1>2, <1>3, <1>4, <1>5, <1>6, <1>7
        DEF SessionNext, Reading, Streaming, CommandStep, ClientStep

\* A runner appends a frame: Ready or Error before anything was made, then the
\* chunks it reads, and the exit once it has read everything.
LEMMA SendFlow ==
  ASSUME SessionTyped, EndsFit, RunnerInv, Flow, Elevated,
         RunnerRefuses \/ RunnerReady \/ RunnerReads \/ RunnerExits
  PROVE  Flow'
<1> DEFINE m == command.made
           F == FromRunner(m)
<1>a. /\ chan'.bcast = chan.bcast /\ chan'.queue = chan.queue
      /\ UNCHANGED <<scenario, client, task, command>>
  BY DEF RunnerRefuses, RunnerReady, RunnerReads, RunnerExits, sessionVars, SessionTyped, ChanTyped,
     AnyChan
<1>b. /\ m \in Nat /\ chan.pipe \in Seq(1..m) /\ chan.pipe \in Seq(Nat) /\ outbox \in Seq(F)
      /\ chan.bcast \in Seq(1..m) /\ chan.queue \in Seq(1..m) /\ client.got \in Seq(1..m)
      /\ {Seen, Queued, Kept, Sent} \subseteq Nat /\ runner \in AnyRunner /\ 1..m \subseteq Nat
  BY FlowTyped DEF RunnerInv
<1>1. /\ Chained(backend, m, Seen, chan.queue) /\ Chained(backend, m, Queued, chan.bcast)
      /\ Spread(chan.bcast) /\ FramesChained(backend, m, Kept, outbox)
      /\ Chained(backend, m, Sent, chan.pipe) /\ EndOf(Sent, chan.pipe) = m
      /\ Sent = FramesEnd(m, Kept, outbox)
  BY DEF Flow, Sent
<1>2. Seen' = Seen /\ Queued' = Queued /\ Kept' = Kept
  <2>1. Seen' = Seen
    BY <1>a DEF Seen
  <2>2. Queued' = Queued
    BY <1>a, <2>1 DEF Queued
  <2> QED BY <1>a, <2>1, <2>2 DEF Kept
<1>3. PICK f \in F : /\ outbox' = Append(outbox, f) /\ Links(backend, m, Sent, f)
                     /\ Chained(backend, m, Number(m, f), chan'.pipe)
                     /\ EndOf(Number(m, f), chan'.pipe) = m
  <2>1. CASE RunnerRefuses \/ RunnerReady
    <3>1. PICK kind \in {"ready", "error"} : outbox' = Append(outbox, Signal(kind))
      BY <2>1 DEF RunnerRefuses, RunnerReady
    <3>2. runner.at \in {"spawning", "assigned"} /\ chan' = chan
      BY <2>1 DEF RunnerRefuses, RunnerReady, sessionVars
    <3>3. outbox = <<>> /\ task.reader = "off"
      BY <3>2 DEF EndsFit, FramesFit, OwnParts
    <3>4. client.got = <<>> /\ chan.queue = <<>> /\ chan.bcast = <<>>
      BY <3>3 DEF EndsFit, OwnParts
    <3>5. Sent = 0
      BY <3>3, <3>4 DEF Sent, Kept, Queued, Seen, EndOf, FramesEnd
    <3>6. Signal(kind) \in F
      BY <1>b DEF Signal, Frame, FromRunner, CodeOrNone, NoCode
    <3>7. Number(m, Signal(kind)) = 0 /\ Links(backend, m, Sent, Signal(kind))
      BY <3>5 DEF Number, Links, Signal, Frame
    <3> QED BY <1>1, <3>1, <3>2, <3>5, <3>6, <3>7
  <2>2. CASE RunnerReads
    <3> DEFINE c == Head(chan.pipe)
               f == Frame("chunk", c, NoCode)
    <3>1. chan.pipe # <<>> /\ outbox' = Append(outbox, f) /\ chan'.pipe = Tail(chan.pipe)
      BY <2>2 DEF RunnerReads, SessionTyped, ChanTyped, AnyChan
    <3>2. c \in 1..m
      BY <1>b, <3>1, HeadTailProperties
    <3>3. f \in F
      BY <1>b, <3>2, SMTT(30) DEF Frame, FromRunner, CodeOrNone, NoCode
    <3>4. /\ Follows(backend, m, Sent, c) /\ Chained(backend, m, c, Tail(chan.pipe))
          /\ EndOf(c, Tail(chan.pipe)) = m
      BY <1>1, <1>b, <3>1, ChainedTail, SMTT(30)
    <3>5. f.kind = "chunk" /\ f.n = c
      BY DEF Frame
    <3> HIDE DEF c, f
    <3>6. Number(m, f) = c /\ Links(backend, m, Sent, f)
      BY <3>4, <3>5 DEF Number, Links
    <3> QED BY <3>1, <3>3, <3>4, <3>6
  <2>3. CASE RunnerExits
    <3> DEFINE f == Frame("exit", 0, runner.code)
    <3>1. chan.pipe = <<>> /\ outbox' = Append(outbox, f) /\ chan' = chan
      BY <2>3 DEF RunnerExits, OutputJoined, AtEof, sessionVars
    <3>2. Sent = m
      BY <1>1, <3>1 DEF EndOf
    <3>3. f \in F /\ f.kind = "exit"
      BY <1>b DEF Frame, FromRunner, AnyRunner
    <3> HIDE DEF f
    <3>4. Number(m, f) = m /\ Links(backend, m, Sent, f)
      BY <3>2, <3>3 DEF Number, Links
    <3> QED BY <1>1, <3>1, <3>2, <3>3, <3>4
  <2> QED BY <2>1, <2>2, <2>3
<1> HIDE DEF F
<1>4. /\ FramesChained(backend, m, Kept, Append(outbox, f))
      /\ FramesEnd(m, Kept, Append(outbox, f)) = Number(m, f)
  <2>1. Links(backend, m, FramesEnd(m, Kept, outbox), f)
    BY <1>1, <1>3
  <2> QED BY <1>1, <1>b, <2>1, FramesAppend
<1>5. Sent' = Number(m, f)
  BY <1>2, <1>3, <1>4, <1>a DEF Sent
<1> QED BY <1>1, <1>2, <1>3, <1>4, <1>5, <1>a, <1>b DEF Flow, backend

\* The client takes a frame: its Ready, when it begins to listen, and then in
\* start_runner_stdout_reader the chunks for the broadcast channel, and the exit.
LEMMA TakeFlow ==
  ASSUME SessionTyped, EndsFit, Flow, Elevated, outbox # <<>>, ClientIsUp \/ FrameReader
  PROVE  Flow'
<1> DEFINE m == command.made
           f == Head(outbox)
<1>a. /\ chan'.pipe = chan.pipe /\ chan'.queue = chan.queue /\ client'.got = client.got
      /\ UNCHANGED <<scenario, command>>
  BY DEF ClientIsUp, FrameReader, SessionTyped, ChanTyped, AnyChan, ClientTyped, AnyClient
<1>c. /\ m \in Nat /\ outbox \in Seq(FromRunner(m)) /\ chan.bcast \in Seq(1..m)
      /\ chan.queue \in Seq(1..m) /\ client.got \in Seq(1..m)
      /\ {Seen, Queued, Kept, Sent} \subseteq Nat /\ Len(chan.bcast) <= BroadcastCap
  BY FlowTyped
<1>d. backend \in Lossy
  BY DEF Elevated, Lossy
<1>1. /\ Chained(backend, m, Seen, chan.queue) /\ Chained(backend, m, Queued, chan.bcast)
      /\ Spread(chan.bcast) /\ FramesChained(backend, m, Kept, outbox)
      /\ Chained(backend, m, Sent, chan.pipe) /\ EndOf(Sent, chan.pipe) = m
      /\ Sent = FramesEnd(m, Kept, outbox)
  BY DEF Flow, Sent
<1>2. Seen' = Seen /\ Queued' = Queued
  <2>1. Seen' = Seen
    BY <1>a DEF Seen
  <2> QED BY <1>a, <2>1 DEF Queued
<1>3. Flow'
  <2>1. /\ outbox # <<>> /\ outbox' = Tail(outbox)
        /\ \/ f.kind = "chunk" /\ chan'.bcast = Broadcast(chan.bcast, f.n)
           \/ f.kind # "chunk" /\ chan'.bcast = chan.bcast
    BY DEF ClientIsUp, FrameReader, SessionTyped, ChanTyped, AnyChan
  <2>2. f \in FromRunner(m)
    BY <1>c, <2>1, HeadTailProperties
  <2>3. /\ Links(backend, m, Kept, f) /\ FramesChained(backend, m, Number(m, f), Tail(outbox))
        /\ FramesEnd(m, Number(m, f), Tail(outbox)) = Sent
    BY <1>1, <1>c, <2>1, FramesTail
  <2> HIDE DEF f, m
  <2>4. /\ Chained(backend, m, Queued, chan'.bcast) /\ Spread(chan'.bcast)
        /\ EndOf(Queued, chan'.bcast) = Number(m, f) /\ chan'.bcast \in Seq(1..m)
    <3>1. CASE f.kind = "chunk"
      <4>1. f.n \in 1..m
        BY <1>c, <2>2, <3>1 DEF FromRunner
      <4>2. Follows(backend, m, EndOf(Queued, chan.bcast), f.n) /\ Number(m, f) = f.n
        BY <2>3, <3>1 DEF Links, Number, Kept
      <4>3. /\ Chained(backend, m, Queued, Broadcast(chan.bcast, f.n))
            /\ Spread(Broadcast(chan.bcast, f.n)) /\ EndOf(Queued, Broadcast(chan.bcast, f.n)) = f.n
            /\ Broadcast(chan.bcast, f.n) \in Seq(1..m)
        BY <1>1, <1>c, <1>d, <4>1, <4>2, BroadcastChained, SMTT(30)
      <4> QED BY <2>1, <3>1, <4>2, <4>3
    <3>2. CASE f.kind # "chunk"
      BY <1>1, <1>c, <2>1, <2>3, <3>2 DEF Links, Kept
    <3> QED BY <3>1, <3>2
  <2>5. Kept' = Number(m, f)
    BY <1>2, <2>4 DEF Kept
  <2>6. Sent' = Sent
    BY <1>a, <2>1, <2>3, <2>5 DEF Sent, m
  <2> QED BY <1>1, <1>2, <1>a, <1>c, <2>1, <2>3, <2>4, <2>5, <2>6 DEF Flow, backend, m
<1> QED BY <1>3

\* The pipe of a runner is at its end without an exit frame: the runner is dead,
\* and the notice is the last thing sent (send_runner_error).
LEMMA LossBegins ==
  ASSUME SessionTyped, EndsFit, Flow, FrameReader, outbox = <<>>
  PROVE  LossFlow' /\ Noticed'
<1> DEFINE m == command.made
<1>a. /\ Elevated /\ task.reader = "running" /\ Gone /\ chan'.queue = chan.queue
      /\ chan'.bcast = Broadcast(chan.bcast, Notice) /\ task'.reader = "done"
      /\ UNCHANGED <<scenario, command, client, runner>>
  BY DEF FrameReader, SessionTyped, ChanTyped, AnyChan, TasksTyped, AnyTask
<1>b. Dead
  <2>1. link = "up"
    BY <1>a DEF EndsFit, OwnParts
  <2> QED BY <1>a, <2>1 DEF EndsFit, FramesFit, Gone, Dead
<1>c. /\ m \in Nat /\ chan.bcast \in Seq(1..m) /\ chan.queue \in Seq(Nat)
      /\ {Seen, Queued} \subseteq Nat /\ Len(chan.bcast) <= BroadcastCap
      /\ backend \in Lossy
  BY <1>a, FlowTyped DEF Elevated, Lossy
<1>1. /\ Chained(backend, m, Seen, chan.queue) /\ Chained(backend, m, Queued, chan.bcast)
      /\ Spread(chan.bcast)
  BY DEF Flow
<1> HIDE DEF m
<1>2. Chained("lost", m, Seen, chan.queue)
  BY <1>c, <1>1, ChainedLost
<1>3. /\ Chained("lost", m, Queued, Broadcast(chan.bcast, Notice))
      /\ EndOf(Queued, Broadcast(chan.bcast, Notice)) = Notice
  BY <1>c, <1>1, NoticeChained
<1>4. Seen' = Seen
  BY <1>a DEF Seen
<1>5. Queued' = Queued
  BY <1>4, <1>a DEF Queued
<1>6. LossFlow'
  BY <1>a, <1>2, <1>3, <1>4, <1>5 DEF LossFlow, Kept, m
<1>7. Noticed'
  BY <1>a, <1>b DEF Noticed, Dead, Elevated, backend
<1> QED BY <1>6, <1>7

\* What the client takes, or misses, keeps the flow.
LEMMA TakeFlowKept ==
  ASSUME SessionTyped, EndsFit, FlowKept, Elevated, ClientIsUp \/ FrameReader
  PROVE  FlowKept'
<1>a. task.reader # "done"
  BY DEF ClientIsUp, FrameReader, EndsFit, OwnParts
<1>b. ~Noticed
  BY <1>a DEF Noticed
<1>c. Attached' => Attached
  <2>1. link = "await" => task.reader = "off"
    BY DEF EndsFit, OwnParts
  <2>2. FrameReader => UNCHANGED client /\ task'.reader # "off"
    BY DEF FrameReader, SessionTyped, TasksTyped, AnyTask
  <2> QED BY <2>1, <2>2 DEF Attached, ClientIsUp
<1>1. CASE outbox = <<>>
  <2>1. FrameReader
    BY <1>1 DEF ClientIsUp
  <2> QED BY <1>1, <1>b, <1>c, <2>1, LossBegins DEF FlowKept
<1>2. CASE outbox # <<>>
  <2>1. ~Noticed'
    <3>1. CASE ClientIsUp
      BY <3>1 DEF ClientIsUp, SessionTyped, TasksTyped, AnyTask, Noticed
    <3>2. CASE FrameReader /\ Head(outbox).kind = "chunk"
      BY <1>2, <1>a, <3>2 DEF FrameReader, Noticed
    <3>3. CASE FrameReader /\ Head(outbox).kind # "chunk"
      <4>1. Head(outbox) = outbox[1] /\ 1 \in 1..Len(outbox)
        BY <1>2, HeadTailProperties, EmptySeq DEF SessionTyped, OutboxTyped
      <4>2. Head(outbox).kind \in {"ready", "error", "chunk", "exit"}
        BY <1>2, HeadTailProperties DEF SessionTyped, OutboxTyped, FromRunner
      <4>3. task.reader = "running" /\ runner' = runner
        BY <3>3 DEF FrameReader
      <4>4. FrameFits(1)
        BY <4>1 DEF EndsFit, FramesFit
      <4>5. runner.at = "exited"
        BY <3>3, <4>1, <4>2, <4>3, <4>4 DEF FrameFits
      <4> QED BY <4>3, <4>5 DEF Noticed
    <3> QED BY <3>1, <3>2, <3>3
  <2> QED BY <1>2, <1>b, <1>c, <2>1, TakeFlow DEF FlowKept
<1> QED BY <1>1, <1>2

\* The steps of RunnerSession keep the flow.
LEMMA RunnerFlow ==
  ASSUME SessionTyped, EndsFit, RunnerInv, FlowKept, RunnerNext
  PROVE  FlowKept'
<1>a. /\ command \in AnyCommand /\ chan \in AnyChan(command.made) /\ task \in AnyTask
      /\ client \in AnyClient(command.made, scenario.writes) /\ stdin \in AnyStdin
      /\ runner \in AnyRunner
  BY DEF SessionTyped, CommandTyped, ChanTyped, ClientTyped, TasksTyped, RunnerInv
<1>b. Elevated
  BY RunnerIsElevated
<1>c. ASSUME scenario' = scenario, task'.reader = task.reader, Dead => Dead', Gone => (Dead' => Dead)
      PROVE  Noticed' <=> Noticed
  BY <1>c, NoticedStays
<1>1. CASE RunnerRefuses \/ RunnerReady \/ RunnerReads \/ RunnerExits
  <2>1. UNCHANGED <<scenario, task, client>> /\ ~Dead /\ ~Dead'
    BY <1>1, <1>a DEF RunnerRefuses, RunnerReady, RunnerReads, RunnerExits, sessionVars, AnyRunner, Dead
  <2>2. Noticed' <=> Noticed
    BY <1>c, <2>1
  <2>3. ~Noticed
    BY <2>1 DEF Noticed, Dead
  <2>4. Flow => Flow'
    BY <1>1, <1>b, SendFlow
  <2> QED BY <2>1, <2>2, <2>3, <2>4, FlowKeptBy DEF Attached
<1>2. CASE ClientIsUp \/ FrameReader
  BY <1>2, <1>b, TakeFlowKept
<1>3. CASE RunnerSpawns
  <2>1. /\ UNCHANGED <<scenario, chan, client, task, outbox>> /\ command'.made = command.made
        /\ ~Dead /\ ~Dead'
    BY <1>3, <1>a DEF RunnerSpawns, AnyCommand, AnyRunner, Dead
  <2>2. Noticed' <=> Noticed
    BY <1>c, <2>1
  <2> QED BY <2>1, <2>2, FlowStays DEF Attached
<1>4. CASE RunnerNext /\ ~(RunnerRefuses \/ RunnerReady \/ RunnerReads \/ RunnerExits)
             /\ ~(ClientIsUp \/ FrameReader) /\ ~RunnerSpawns
  <2>1. EndsAs(command, command')
    BY <1>4, <1>a, StepEndsAs
  <2>2. /\ scenario' = scenario /\ client'.got = client.got
        /\ client'.listening = client.listening /\ outbox' = outbox
        /\ chan'.pipe = chan.pipe /\ chan'.bcast = chan.bcast /\ chan'.queue = chan.queue
    BY <1>4, <1>a
       DEF RunnerNext, RunnerMain, RunnerOpens, RunnerReadsRequest, RunnerAssigns, RunnerSeesEnd,
           RunnerTimesOut, Finished, RunnerDies, RunnerFork, Fork, RunnerInput, RunnerTakes,
           RunnerInputEnds, Handshake, ClientConnects, ClientRequests, StartFails, StdinWriter,
           RunnerClientStep, RunnerRequestTerminate, RunnerTerminate, sessionVars, runnerVars, AnyChan,
           AnyClient
  <2>3. task'.reader = task.reader
    <3>1. CASE RunnerTerminate
      BY <1>a, <1>b, <3>1, AbortStops DEF RunnerTerminate, Elevated
    <3>2. CASE ~RunnerTerminate
      BY <1>4, <1>a, <3>2
         DEF RunnerNext, RunnerMain, RunnerOpens, RunnerReadsRequest, RunnerAssigns, RunnerSeesEnd,
             RunnerTimesOut, Finished, RunnerDies, RunnerFork, Fork, RunnerInput, RunnerTakes,
             RunnerInputEnds, Handshake, ClientConnects, ClientRequests, StartFails, StdinWriter,
             RunnerClientStep, RunnerRequestTerminate, sessionVars, AnyTask
    <3> QED BY <3>1, <3>2
  <2>4. (Dead => Dead') /\ (Gone => (Dead' => Dead))
    BY <1>4, <1>a
       DEF RunnerNext, RunnerMain, RunnerOpens, RunnerReadsRequest, RunnerAssigns, RunnerSeesEnd,
           RunnerTimesOut, Finished, RunnerDies, RunnerDead, RunnerFork, Fork, RunnerInput,
           RunnerTakes, RunnerInputEnds, Handshake, ClientConnects, ClientRequests, StartFails,
           StdinWriter, RunnerClientStep, RunnerRequestTerminate, RunnerTerminate, runnerVars,
           AnyRunner, Dead, Gone
  <2>5. Noticed' <=> Noticed
    BY <1>c, <2>2, <2>3, <2>4
  <2> QED BY <2>1, <2>2, <2>3, <2>5, FlowStays DEF Attached, EndsAs
<1> QED BY <1>1, <1>2, <1>3, <1>4

-----------------------------------------------------------------------------
(* The invariant.                                                          *)

\* It holds before the first step.
LEMMA SessionInitInv == Init => SessionInv
<1> SUFFICES ASSUME Init PROVE SessionInv
  OBVIOUS
<1>a. SessionInit /\ RunnerInit
  BY DEF Init
<1>b. RunnerInv
  BY <1>a, RunnerInitInv
<1>c. /\ scenario \in Scenarios /\ scenario.chunks \in Nat /\ scenario.writes \in Nat
      /\ PipeCap \in Nat /\ BroadcastCap \in Nat /\ QueueCap \in Nat /\ InputCap \in Nat
      /\ StdinCap \in Nat
      /\ backend \in {"pipe", "pty", "fds", "legacy", "elevated"}
  BY <1>a, CapsAssumption DEF SessionInit, CapsAssumption, backend
<1>1. /\ command.made = 0 /\ command.code = NoCode /\ command.child = "no"
      /\ command.is = IF Elevated THEN "none" ELSE "running"
      /\ chan = [pipe |-> <<>>, bcast |-> <<>>, queue |-> <<>>, input |-> 0]
      /\ outbox = <<>> /\ inbox = <<>> /\ link = "logon" /\ runner.at = "none"
      /\ runner.opened = 0
      /\ exit = [ch |-> NoCode, seen |-> FALSE, code |-> NoCode, told |-> NoCode]
      /\ client.got = <<>> /\ client.eof = FALSE /\ client.aborted = FALSE
      /\ client.listening = ~Elevated
      /\ waiter = IF backend = "legacy" THEN "waiting" ELSE "off"
  BY <1>a DEF SessionInit, RunnerInit, Elevated
<1>2. /\ task \in AnyTask
      /\ task.reader = IF Elevated THEN "off" ELSE "running"
      /\ task.stream = IF Direct THEN "off" ELSE "running"
      /\ task.wait = "waiting"
  BY <1>a, <1>c DEF SessionInit, DirectTasks, LegacyTasks, AnyTask, WaitAt, ReaderAt, Elevated,
     Direct, OnPty
<1>3. SessionTyped
  <2>0. <<>> \in Seq(1..0) /\ <<>> \in Seq(Numbers(0)) /\ <<>> \in Seq(ToRunner) /\ <<>> \in Seq(FromRunner(0)) /\ Len(<<>>) = 0
    OBVIOUS
  <2>1. CommandTyped
    BY <1>b, <1>c, <1>1 DEF RunnerInv, CommandTyped
  <2>2. ChanTyped
    BY <1>c, <1>1, <2>0 DEF ChanTyped, AnyChan
  <2>3. OutboxTyped
    BY <1>1, <2>0 DEF OutboxTyped
  <2>4. client \in AnyClient(0, scenario.writes)
    BY <1>a, <1>c, <2>0 DEF SessionInit, AnyClient
  <2>5. TasksTyped
    BY <1>a, <1>c, <1>1, <1>2, <2>0
       DEF SessionInit, TasksTyped, AnyExit, AnyStdin, WaiterAt, CodeOrNone
  <2>6. RunnerTyped
    BY <1>b, <1>1 DEF RunnerInv, RunnerTyped
  <2> QED BY <1>1, <2>1, <2>2, <2>3, <2>4, <2>5, <2>6 DEF SessionTyped, ClientTyped
<1>4. Flow
  <2>1. Seen = 0 /\ Queued = 0 /\ Kept = 0 /\ Sent = 0
    BY <1>1 DEF Seen, Queued, Kept, Sent, EndOf, FramesEnd
  <2>2. <<>> \in Seq(1..0)
    OBVIOUS
  <2> QED BY <1>1, <2>1, <2>2 DEF Flow, Chained, FramesChained, Spread, EndOf
<1>5. OwnParts /\ FramesFit
  <2>1. chan.bcast = <<>> /\ chan.queue = <<>>
    BY <1>1
  <2>2. OwnParts
    BY <1>c, <1>1, <1>2, <2>1 DEF OwnParts, Elevated, Direct, OnPty
  <2>3. 1..Len(outbox) = {}
    BY <1>1, EmptySeq
  <2>4. ASSUME NEW i \in 1..Len(outbox) PROVE FrameFits(i)
    BY <2>3, <2>4
  <2> QED BY <1>1, <2>2, <2>4 DEF FramesFit
<1>6. RunnerFits /\ ReaderFits /\ WaiterFits /\ ExitFits /\ WaitFits
  BY <1>1, <1>2 DEF RunnerFits, ReaderFits, WaiterFits, ExitFits, WaitFits, Ended, NoCode
<1>7. ClientFits
  BY <1>1, <1>2 DEF ClientFits
<1>8. ~Noticed
  BY <1>1 DEF Noticed
<1> QED BY <1>b, <1>3, <1>4, <1>5, <1>6, <1>7, <1>8 DEF SessionInv, FlowKept, EndsFit

\* Nothing of a session changes.
SessionStands == UNCHANGED allSessionVars

\* The setup of the machine concerns no session.
LEMMA StandingInv ==
  ASSUME SessionInv, RunnerInv', SessionStands
  PROVE  SessionInv'
<1>a. UNCHANGED <<scenario, command, chan, stdin, task, exit, waiter, client, link, runner, inbox, outbox>>
  BY DEF SessionStands, allSessionVars, sessionVars, runnerVars
<1>1. SessionTyped'
  BY <1>a DEF SessionInv, SessionTyped, CommandTyped, ChanTyped, OutboxTyped, ClientTyped, TasksTyped,
     RunnerTyped
<1>2. FlowKept'
  BY <1>a, FlowStays DEF SessionInv, Attached, Noticed, Elevated, backend
<1>3. EndsFit'
  <2>1. EndsAs(command, command')
    BY <1>a DEF SessionInv, RunnerInv, EndsAs
  <2> QED BY <1>a, <2>1, EndsStay DEF SessionInv, endsVars, AtEof, Ended
<1> QED BY <1>1, <1>2, <1>3 DEF SessionInv

\* Every step of the sandbox keeps the invariant.
LEMMA SessionsKeepInv == SessionInv /\ [Next]_vars => SessionInv'
<1> SUFFICES ASSUME SessionInv, [Next]_vars PROVE SessionInv'
  OBVIOUS
<1>a. SessionTyped /\ FlowKept /\ EndsFit /\ RunnerInv
  BY DEF SessionInv
<1>b. RunnerInv'
  BY <1>a, RunnerInvKept
<1>1. CASE SessionNext /\ UNCHANGED runnerVars
  BY <1>1, <1>a, <1>b, SessionNextTyped, SessionFlow, SessionEndsFit DEF SessionInv
<1>2. CASE RunnerNext
  BY <1>2, <1>a, <1>b, RunnerNextTyped, RunnerFlow, RunnerEndsFit DEF SessionInv
<1>3. ASSUME NEW accepted \in BOOLEAN, Logon(accepted) PROVE SessionInv'
  <2>1. SessionTyped' /\ EndsFit'
    BY <1>3, <1>a, <1>b, RunnerNextTyped, LogonEndsFit
  <2>2. Noticed' <=> Noticed
    <3>1. runner.at = "none" /\ runner \in AnyRunner
      BY <1>3, <1>a DEF Logon, RunnerInv, LinkMatches
    <3> QED BY <1>3, <3>1 DEF Logon, Noticed, AnyRunner
  <2>3. FlowKept'
    BY <1>3, <1>a, <2>2, FlowStays DEF Logon, sessionVars, Attached
  <2> QED BY <1>b, <2>1, <2>3 DEF SessionInv
<1>4. CASE SessionStands
  BY <1>4, <1>b, StandingInv
<1>5. SessionsNext \/ SessionStands \/ \E accepted \in BOOLEAN : Logon(accepted)
  BY DEF Next, Prepare, LogonAs, vars, SessionStands
<1> QED BY <1>1, <1>2, <1>3, <1>4, <1>5 DEF SessionsNext

\* The invariant holds in every state of the sandbox: what is under way is one chain
\* of chunk numbers, which the notice of a lost runner ends (start_runner_stdout_reader,
\* spawn_from_driver), and every task, frame and exit fits the end that it reports.
THEOREM SessionAlwaysInv == Spec => []SessionInv
  BY SessionInitInv, SessionsKeepInv, PTL DEF Spec

\* Sessions and setup have their types in every state: no channel, pipe or outbox
\* holds more than it may, and nothing but chunks of the command and the notice of a
\* lost runner is on its way, whatever the capacities (process.rs, pipe.rs,
\* send_runner_error).
THEOREM SandboxTyped == Spec => []SandboxTypeOK
<1>1. SessionInv => RunnerTypeOK
  <2> SUFFICES ASSUME SessionInv PROVE RunnerTypeOK
    OBVIOUS
  <2> DEFINE m == command.made
  <2>a. /\ m \in Nat /\ scenario \in Scenarios /\ scenario.chunks \in Nat /\ m <= scenario.chunks
        /\ command \in AnyCommand /\ chan \in AnyChan(m) /\ outbox \in Seq(FromRunner(m))
        /\ client \in AnyClient(m, scenario.writes) /\ runner \in AnyRunner
    BY CapsAssumption
       DEF SessionInv, SessionTyped, CommandTyped, ChanTyped, OutboxTyped, ClientTyped, RunnerInv,
           AnyCommand, CapsAssumption
  <2>1. /\ chan.pipe \in Seq(1..scenario.chunks)
        /\ \A s \in {chan.bcast, chan.queue, client.got} :
             s \in Seq({Notice} \cup 1..scenario.chunks)
    <3>1. /\ 1..m \subseteq 1..scenario.chunks
          /\ Numbers(m) \subseteq {Notice} \cup 1..scenario.chunks
      BY <2>a DEF Numbers
    <3> HIDE DEF m
    <3>2. /\ chan.pipe \in Seq(1..m)
          /\ \A s \in {chan.bcast, chan.queue, client.got} : s \in Seq(Numbers(m))
      BY <2>a DEF AnyChan, AnyClient
    <3> QED BY <3>1, <3>2, SeqMonotonic
  <2>2. outbox \in Seq([kind : {"ready", "error", "chunk", "exit"}, n : 0..scenario.chunks,
                        code : CodeOrNone])
    <3>1. FromRunner(m) \subseteq [kind : {"ready", "error", "chunk", "exit"}, n : 0..scenario.chunks,
                                   code : CodeOrNone]
      BY <2>a DEF FromRunner
    <3> QED BY <2>a, <3>1, SeqMonotonic
  <2>3. /\ command \in [is : {"none", "running", "ended"}, code : CodeOrNone,
                        made : 0..scenario.chunks, child : {"no", "kin", "free"}]
        /\ runner \in [at : RunnerAt, opened : 0..2, job : {"none", "open", "closed"},
                       code : CodeOrNone]
    BY <2>a DEF AnyCommand, AnyRunner, SessionInv, SessionTyped, RunnerTyped
  <2>4. /\ Len(chan.pipe) <= PipeCap /\ Len(chan.bcast) <= BroadcastCap
        /\ Len(chan.queue) <= QueueCap /\ chan.input \in 0..InputCap
        /\ client.writes \in 0..scenario.writes
    BY <2>a DEF SessionInv, SessionTyped, ChanTyped, AnyChan, AnyClient
  <2>5. /\ stdin \in [level : 0..StdinCap, open : BOOLEAN]
        /\ \A t \in {task.reader, task.stream, task.writer} : t \in ReaderAt
        /\ task.wait \in {"waiting", "storing", "done", "aborted"}
        /\ exit \in [ch : CodeOrNone, seen : BOOLEAN, code : CodeOrNone, told : CodeOrNone]
        /\ waiter \in {"off", "waiting", "expired", "finishing", "joining", "done"}
        /\ link \in {"logon", "pipe-in", "pipe-out", "request", "await", "up", "failed"}
        /\ inbox \in Seq([kind : {"request", "data", "close", "terminate"}, n : {0}, code : {NoCode}])
    BY DEF SessionInv, SessionTyped, TasksTyped, AnyStdin, AnyTask, WaitAt, AnyExit, WaiterAt, ToRunner
  <2> QED BY <2>a, <2>1, <2>2, <2>3, <2>4, <2>5 DEF RunnerTypeOK, TypeOK
<1> QED BY <1>1, SessionAlwaysInv, SetupTyped, PTL DEF SandboxTypeOK

-----------------------------------------------------------------------------
(* The promise of a session is kept: each step maps to a step of            *)
(* SessionPromise or to none.                                              *)

Broken == client.aborted \/ Dead

\* A step that does no more than end the command, or break the session in one of its
\* ways, maps to End, to Break or to nothing.
LEMMA MapsAside ==
  ASSUME EndsAs(command, command'), scenario' = scenario, client'.got = client.got,
         exit'.told = exit.told, client'.eof = client.eof,
         client.aborted \in BOOLEAN, client'.aborted \in {client.aborted, TRUE}, Dead => Dead',
         client'.aborted = client.aborted \/ runner'.at = runner.at
  PROVE  [Promise!Next]_(Promise!vars)
<1>a. /\ Direct' = Direct /\ command'.made = command.made
      /\ command'.is = command.is => command'.code = command.code
      /\ command'.is # command.is => command.is = "running" /\ command'.is = "ended"
                                       /\ command'.code # NoCode
  BY DEF EndsAs, Direct, OnPty, backend
<1>b. \/ Ended' = Ended /\ command'.code = command.code
      \/ ~Ended /\ Ended' = TRUE /\ command'.code # NoCode
  BY <1>a DEF Ended
<1>1. CASE client'.aborted = client.aborted /\ (Dead' <=> Dead) /\ command'.is = command.is
  <2>1. UNCHANGED Promise!vars
    BY <1>1, <1>a DEF Promise!vars, Dead, Ended
  <2> QED BY <2>1
<1>2. CASE client'.aborted = client.aborted /\ (Dead' <=> Dead) /\ command'.is # command.is
  <2>1. Promise!End
    BY <1>2, <1>a DEF Promise!End, Promise!NoCode, NoCode, Dead, Ended
  <2> QED BY <2>1 DEF Promise!Next
<1>3. CASE client'.aborted # client.aborted
  <2>b. client'.aborted = TRUE
    BY <1>3
  <2>c. client.aborted = FALSE
    BY <1>3, <2>b
  <2>d. runner'.at = runner.at
    BY <1>3
  <2>1. ~client.aborted /\ client'.aborted = TRUE /\ runner'.at = runner.at
    BY <2>b, <2>c, <2>d
  <2>2. Promise!Break
    BY <2>1, <1>a, <1>b DEF Promise!Break, Promise!NoCode, NoCode, Ended
  <2> QED BY <2>2 DEF Promise!Next
<1>4. CASE client'.aborted = client.aborted /\ ~(Dead' <=> Dead)
  <2>1. runner.at # "dead" /\ runner'.at = "dead"
    BY <1>4 DEF Dead
  <2>2. Promise!Break
    BY <1>4, <2>1, <1>a, <1>b DEF Promise!Break, Promise!NoCode, NoCode, Ended
  <2> QED BY <2>2 DEF Promise!Next
<1> QED BY <1>1, <1>2, <1>3, <1>4

\* The command and its descendants write only to a session whose end has not
\* been told or seen, or that is broken.
LEMMA ProduceMaps ==
  ASSUME SessionInv, Produce, UNCHANGED runnerVars
  PROVE  Promise!Make
<1>a. /\ command'.is = command.is /\ command'.code = command.code
      /\ command'.made = command.made + 1 /\ UNCHANGED <<scenario, exit, client, runner>>
      /\ ~(Ended /\ command.child = "no")
  BY DEF SessionInv, RunnerInv, AnyCommand, Produce, Ended, Running, runnerVars
<1>1. ~Direct /\ exit.told # NoCode => Broken
  BY <1>a DEF SessionInv, EndsFit, WaitFits, ExitFits, ExitKnown, Quiet, Dead, Broken
<1>2. client.eof => Broken
  BY <1>a DEF SessionInv, EndsFit, ClientFits, Quiet, Dead, Broken
<1> QED BY <1>a, <1>1, <1>2
        DEF Promise!Make, Promise!broken, Promise!NoCode, NoCode, Broken, Dead, Ended, Direct,
            OnPty, backend

\* The client receives the next chunk, one that follows chunks which a broadcast
\* channel has dropped, or the notice.
LEMMA ReceiveMaps ==
  ASSUME SessionInv, Receive, UNCHANGED runnerVars
  PROVE  Promise!See \/ Promise!SeeNotice
<1> DEFINE c == Head(chan.queue)
           m == command.made
<1>a. /\ client'.got = Append(client.got, c) /\ client'.eof = client.eof
      /\ client'.aborted = client.aborted /\ chan.queue # <<>> /\ client.listening
      /\ UNCHANGED <<scenario, command, exit, runner>>
  BY DEF SessionInv, SessionTyped, ClientTyped, AnyClient, Receive, runnerVars
<1>b. /\ m \in Nat /\ chan.queue \in Seq(Numbers(m)) /\ Seen \in Numbers(m) \cup {0}
      /\ BroadcastCap \in Nat
  BY LossTyped, CapsAssumption DEF SessionInv, CapsAssumption
<1>1. ~client.eof
  BY <1>a DEF SessionInv, EndsFit, ClientFits, SessionTyped, ClientTyped, AnyClient
<1>2. Promise!LastSeen = Seen
  BY DEF Promise!LastSeen, Seen, EndOf
<1>3. ASSUME Seen # Notice, c \in Seen + 1 .. m, c # Seen + 1 => ~Direct /\ c <= m + 1 - Promise!Room
      PROVE  Promise!See
  BY <1>a, <1>1, <1>2, <1>3 DEF Promise!See, m, Direct, OnPty, backend, Ended
<1>4. CASE ~Noticed
  <2>1. Flow
    BY <1>a, <1>4 DEF SessionInv, FlowKept, Attached
  <2>2. /\ Chained(backend, m, Seen, chan.queue) /\ chan.queue \in Seq(1..m) /\ Seen \in Nat
    BY <2>1, FlowTyped DEF SessionInv, Flow
  <2>3. c \in 1..m
    BY <1>a, <2>2, HeadTailProperties
  <2>4. Follows(backend, m, Seen, c)
    BY <1>a, <2>2, ChainedTail
  <2>5. backend # "lost"
    BY CapsAssumption DEF SessionInv, SessionTyped, CommandTyped, CapsAssumption, backend
  <2>6. Promise!Room \in Int /\ Promise!Room <= BroadcastCap
    BY <1>b DEF Promise!Room
  <2> HIDE DEF c, m
  <2>7. c \in Seen + 1 .. m /\ (c # Seen + 1 => backend \in Lossy /\ c <= m + 1 - BroadcastCap)
    BY <1>b, <2>2, <2>3, <2>4, <2>5 DEF Follows
  <2>8. backend \in Lossy => ~Direct
    BY DEF Lossy, Direct, OnPty
  <2>9. Seen # Notice
    BY <2>2 DEF Notice
  <2>10. c # Seen + 1 => c <= m + 1 - Promise!Room
    BY <1>b, <2>3, <2>6, <2>7
  <2> QED BY <1>3, <2>7, <2>8, <2>9, <2>10
<1>5. CASE Noticed
  <2>1. LossFlow
    BY <1>a, <1>5 DEF SessionInv, FlowKept, Attached
  <2>2. Chained("lost", m, Seen, chan.queue)
    BY <2>1 DEF LossFlow
  <2>3. c \in Numbers(m)
    BY <1>a, <1>b, HeadTailProperties
  <2>4. Follows("lost", m, Seen, c)
    BY <1>a, <1>b, <2>2, ChainedTail
  <2>5. ~Direct /\ runner.at = "dead"
    BY <1>5 DEF Noticed, Elevated, Direct, OnPty
  <2>6. Promise!Room = BroadcastCap - 1
    BY <2>5 DEF Promise!Room
  <2> HIDE DEF c, m
  <2>7. Seen # Notice /\ (c = Notice \/ (c \in Seen + 1 .. m /\ (c # Seen + 1 => c + BroadcastCap <= m + 2)))
    BY <1>b, <2>3, <2>4 DEF Follows, Numbers, Notice, Lossy
  <2>8. CASE c = Notice
    <3>1. Promise!SeeNotice
      BY <1>a, <1>1, <1>2, <2>5, <2>7, <2>8 DEF Promise!SeeNotice, Direct, OnPty, backend, Ended
    <3> QED BY <3>1
  <2>9. CASE c # Notice
    <3>1. c \in Seen + 1 .. m /\ c \in Int /\ (c # Seen + 1 => c + BroadcastCap <= m + 2)
      BY <2>7, <2>9
    <3>2. c # Seen + 1 => c <= m + 1 - Promise!Room
      BY <1>b, <2>6, <3>1
    <3> QED BY <1>3, <2>5, <2>7, <3>1, <3>2
  <2> QED BY <2>8, <2>9
<1> QED BY <1>4, <1>5

\* The wait task tells the code of a command that has ended, "timeout" for one
\* that was out of time, or that its runner is lost.
LEMMA TellMaps ==
  ASSUME SessionInv, WaitTells, UNCHANGED runnerVars
  PROVE  Promise!Tell
<1>a. /\ exit'.told = KnownCode /\ task.wait = "storing"
      /\ UNCHANGED <<scenario, command, client, runner>>
  BY DEF SessionInv, SessionTyped, TasksTyped, AnyExit, WaitTells, runnerVars
<1>1. exit.told = NoCode /\ ExitKnown
  BY <1>a DEF SessionInv, EndsFit, WaitFits
<1>2. \/ Ended /\ exit'.told \in {command.code, "timeout"}
      \/ Dead /\ exit'.told = "lost"
  BY <1>1, <1>a DEF SessionInv, EndsFit, ExitFits, ExitKnown, KnownCode, Quiet, Dead
<1> QED BY <1>a, <1>1, <1>2
        DEF Promise!Tell, Promise!NoCode, NoCode, Dead, Direct, OnPty, backend, Ended

\* The client sees the end of the output after the last chunk, after the notice of
\* a lost runner, or of a session it has aborted.
LEMMA CloseMaps ==
  ASSUME SessionInv, ReceiveEnd, UNCHANGED runnerVars
  PROVE  Promise!Close
<1>a. /\ client'.eof = TRUE /\ client.eof = FALSE /\ client'.got = client.got
      /\ client'.aborted = client.aborted /\ client.listening
      /\ chan.queue = <<>> /\ Feeder \in {"done", "aborted"}
      /\ UNCHANGED <<scenario, command, exit, runner>>
  BY DEF SessionInv, SessionTyped, ClientTyped, AnyClient, ReceiveEnd, runnerVars
<1>1. Feeder = "aborted" => client.aborted
  BY DEF SessionInv, EndsFit, ClientFits, Feeder
<1>2. Feeder = "done" => chan.bcast = <<>> /\ task.reader = "done"
  BY <1>a DEF SessionInv, EndsFit, OwnParts, ClientFits, Feeder
<1>3. ASSUME Feeder = "done", ~Dead PROVE Ended /\ Seen = command.made
  <2>1. Ended /\ chan.pipe = <<>> /\ outbox = <<>> /\ chan.bcast = <<>>
    BY <1>2, <1>3 DEF SessionInv, EndsFit, ReaderFits, AtEof
  <2>2. EndOf(Sent, chan.pipe) = command.made
    BY <1>a, <1>3 DEF SessionInv, FlowKept, Attached, Flow, Noticed, Dead
  <2> QED BY <1>a, <2>1, <2>2 DEF Sent, Kept, Queued, EndOf, FramesEnd
<1>5. ASSUME Feeder = "done", Dead PROVE Dead /\ Seen = Notice
  <2>1. Noticed
    BY <1>2, <1>5 DEF SessionInv, RunnerInv, Noticed, Dead
  <2>2. Kept = Notice
    BY <1>a, <2>1 DEF SessionInv, FlowKept, Attached, LossFlow
  <2> QED BY <1>a, <1>2, <1>5, <2>2 DEF Kept, Queued, EndOf
<1>6. \/ client.aborted
      \/ Dead /\ Seen = Notice
      \/ Ended /\ Seen = command.made
  BY <1>a, <1>1, <1>3, <1>5
<1>4. Promise!LastSeen = Seen
  BY DEF Promise!LastSeen, Seen, EndOf
<1> QED BY <1>a, <1>4, <1>6
        DEF Promise!Close, Dead, Direct, OnPty, backend, Ended

\* Each step of PtySession maps to one of SessionPromise.
LEMMA SessionStepMaps ==
  ASSUME SessionInv, SessionNext, UNCHANGED runnerVars
  PROVE  [Promise!Next]_(Promise!vars)
<1>a. /\ SessionTyped /\ command \in AnyCommand /\ chan \in AnyChan(command.made)
      /\ client \in AnyClient(command.made, scenario.writes) /\ exit \in AnyExit
      /\ client.aborted \in BOOLEAN
  BY DEF SessionInv, SessionTyped, CommandTyped, ChanTyped, ClientTyped, TasksTyped, AnyClient
<1>1. CASE Produce
  BY <1>1, ProduceMaps DEF Promise!Next
<1>2. CASE Receive
  BY <1>2, ReceiveMaps DEF Promise!Next
<1>3. CASE WaitTells
  BY <1>3, TellMaps DEF Promise!Next
<1>4. CASE ReceiveEnd
  BY <1>4, CloseMaps DEF Promise!Next
<1>5. CASE ReadDirect \/ ReadLegacy
  <2>1. UNCHANGED <<scenario, command, client, exit>>
    BY <1>5 DEF ReadDirect, ReadLegacy
  <2>2. EndsAs(command, command')
    BY <1>a, <2>1 DEF EndsAs
  <2> QED BY <1>a, <2>1, <2>2, MapsAside DEF Dead, runnerVars
<1>6. CASE ReadEof \/ Streaming \/ WaitSees \/ LegacyWaiting \/ WaiterTimesOut \/ Writing
             \/ ChildEnds \/ CommandEnds \/ CommandReads \/ LocalFork
             \/ Write \/ CloseStdin \/ StopListening \/ RequestTerminate \/ Terminate
  <2>1. /\ scenario' = scenario /\ client'.got = client.got /\ client'.eof = client.eof
        /\ client'.aborted \in {client.aborted, TRUE}
        /\ exit'.told = exit.told /\ chan'.pipe = chan.pipe
    BY <1>6, <1>a
       DEF ReadEof, Streaming, StreamForwards, StreamEnds, WaitSees, LegacyWaiting, WaiterTerminates,
           WaiterReadsCode, WaiterJoins, WaiterTimesOut, Writing, WriterWrites, WriterEnds, ChildEnds,
           CommandEnds, CommandReads, LocalFork, Fork, Write, CloseStdin, StopListening,
           RequestTerminate, Terminate, AnyChan, AnyClient, AnyExit
  <2>2. EndsAs(command, command')
    BY <1>a, <2>1, QuietStepEndsAs
  <2> QED BY <1>a, <2>1, <2>2, MapsAside DEF Dead, runnerVars
<1> QED BY <1>1, <1>2, <1>3, <1>4, <1>5, <1>6
        DEF SessionNext, Reading, Waiting, CommandStep, ClientStep

\* Each step of RunnerSession maps to End, to Break or to nothing.
LEMMA RunnerStepMaps ==
  ASSUME SessionInv, RunnerNext
  PROVE  [Promise!Next]_(Promise!vars)
<1>a. /\ command \in AnyCommand /\ client \in AnyClient(command.made, scenario.writes)
      /\ exit \in AnyExit /\ runner \in AnyRunner /\ client.aborted \in BOOLEAN
  BY DEF SessionInv, SessionTyped, CommandTyped, ClientTyped, TasksTyped, RunnerInv, AnyClient
<1>1. CASE RunnerSpawns
  <2>1. /\ UNCHANGED <<scenario, client, exit>> /\ runner.at = "spawning" /\ runner'.at = "spawned"
        /\ command'.is = "running" /\ command'.made = command.made /\ command'.code = command.code
    BY <1>1, <1>a DEF RunnerSpawns, AnyCommand, AnyRunner
  <2>2. command.is = "none"
    BY <2>1, RunnerIsElevated DEF SessionInv, RunnerInv, JobMatches
  <2>3. UNCHANGED Promise!vars
    BY <2>1, <2>2 DEF Promise!vars, Direct, OnPty, backend, Ended
  <2> QED BY <2>3
<1>2. CASE ~RunnerSpawns
  <2>1. EndsAs(command, command')
    BY <1>2, <1>a, StepEndsAs
  <2>2. /\ scenario' = scenario /\ client'.got = client.got /\ client'.eof = client.eof
        /\ client'.aborted \in {client.aborted, TRUE}
        /\ client'.aborted = client.aborted \/ runner' = runner
    BY <1>2, <1>a
       DEF RunnerNext, RunnerMain, RunnerOpens, RunnerReadsRequest, RunnerRefuses, RunnerAssigns,
           RunnerReady, RunnerSeesEnd, RunnerExits, RunnerReads, RunnerTimesOut, Finished, RunnerDies,
           RunnerFork, Fork, RunnerInput, RunnerTakes, RunnerInputEnds, Handshake, ClientConnects,
           ClientRequests, ClientIsUp, StartFails, FrameReader, StdinWriter, RunnerClientStep,
           RunnerRequestTerminate, RunnerTerminate, sessionVars, AnyClient
  <2>3. exit'.told = exit.told
    BY <1>2, <1>a
       DEF RunnerNext, RunnerMain, RunnerOpens, RunnerReadsRequest, RunnerRefuses, RunnerAssigns,
           RunnerReady, RunnerSeesEnd, RunnerExits, RunnerReads, RunnerTimesOut, Finished, RunnerDies,
           RunnerFork, Fork, RunnerInput, RunnerTakes, RunnerInputEnds, Handshake, ClientConnects,
           ClientRequests, ClientIsUp, StartFails, FrameReader, StdinWriter, RunnerClientStep,
           RunnerRequestTerminate, RunnerTerminate, sessionVars, AnyExit
  <2>4. runner.at = "dead" => runner'.at = "dead"
    BY <1>2, <1>a
       DEF RunnerNext, RunnerMain, RunnerOpens, RunnerReadsRequest, RunnerRefuses, RunnerAssigns,
           RunnerReady, RunnerSeesEnd, RunnerExits, RunnerReads, RunnerTimesOut, Finished, RunnerDies,
           RunnerDead, RunnerFork, Fork, RunnerInput, RunnerTakes, RunnerInputEnds, Handshake,
           ClientConnects, ClientRequests, ClientIsUp, StartFails, Gone, FrameReader, StdinWriter,
           RunnerClientStep, RunnerRequestTerminate, RunnerTerminate, runnerVars, AnyRunner
  <2> QED BY <1>a, <2>1, <2>2, <2>3, <2>4, MapsAside DEF Dead
<1> QED BY <1>1, <1>2

\* Every step of the sandbox maps to one of SessionPromise.
LEMMA StepMaps == SessionInv /\ [Next]_vars => [Promise!Next]_(Promise!vars)
<1> SUFFICES ASSUME SessionInv, [Next]_vars PROVE [Promise!Next]_(Promise!vars)
  OBVIOUS
<1>1. CASE SessionsNext
  BY <1>1, SessionStepMaps, RunnerStepMaps DEF SessionsNext
<1>2. CASE UNCHANGED sessionVars /\ (runner.at = "dead" => runner'.at = "dead")
  <2>1. EndsAs(command, command')
    BY <1>2 DEF SessionInv, RunnerInv, EndsAs, sessionVars
  <2>2. client.aborted \in BOOLEAN
    BY DEF SessionInv, SessionTyped, ClientTyped, AnyClient
  <2> QED BY <1>2, <2>1, <2>2, MapsAside DEF sessionVars, Dead
<1>3. ASSUME NEW accepted \in BOOLEAN, Logon(accepted)
      PROVE  UNCHANGED sessionVars /\ (runner.at = "dead" => runner'.at = "dead")
  BY <1>3 DEF Logon, SessionInv, RunnerInv, LinkMatches
<1>4. SessionsNext \/ UNCHANGED allSessionVars \/ \E accepted \in BOOLEAN : Logon(accepted)
  BY DEF Next, Prepare, LogonAs, vars
<1>5. UNCHANGED allSessionVars => UNCHANGED sessionVars /\ (runner.at = "dead" => runner'.at = "dead")
  BY DEF allSessionVars, runnerVars
<1> QED BY <1>1, <1>2, <1>3, <1>4, <1>5

\* Every backend keeps the promise of a session, for every number of chunks and
\* writes and every capacity: its output in order, with gaps only behind a
\* broadcast channel and never in its newest chunks or before its end; one exit,
\* after the end and with its code; and the end of the output after its last chunk.
\* With a lost runner, it ends after a notice instead, which comes once, last, and
\* costs a client that lags at most one chunk more; whatever dies, lags or stops on the
\* way (SpawnedProcess, spawn_from_driver, start_runner_stdout_reader).
THEOREM SessionsKeepPromise == Spec => PromiseKept
<1>1. Init => Promise!Init
  BY DEF Init, SessionInit, RunnerInit, Promise!Init, Promise!NoCode, NoCode, Direct, OnPty, backend,
     Ended
<1>2. SessionInv /\ [Next]_vars => [Promise!Next]_(Promise!vars)
  BY StepMaps
<1> QED BY <1>1, <1>2, SessionAlwaysInv, PTL DEF Spec, PromiseKept, Promise!Spec
=============================================================================
