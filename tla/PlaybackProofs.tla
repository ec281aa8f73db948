--------------------------- MODULE PlaybackProofs ---------------------------
(***************************************************************************)
(* Theorems about Playback, for every set of files, every next-episode     *)
(* relation, every bound and every user default: its types, one player at  *)
(* a time, and how deep the run loop is nested.                            *)
(***************************************************************************)
EXTENDS Playback, TLAPS, SequenceTheorems

\* A frame put on a stack of frames, and one taken off it.
LEMMA StackOps ==
  ASSUME NEW s \in Seq(Frames), NEW f \in Frames
  PROVE  /\ <<f>> \o s \in Seq(Frames)
         /\ Len(<<f>> \o s) = Len(s) + 1
         /\ (<<f>> \o s)[1] = f
         /\ <<f>> \o s # <<>>
         /\ \A i \in 1 .. Len(s) : (<<f>> \o s)[i + 1] = s[i]
         /\ s # <<>> => /\ s[1] \in Frames
                        /\ Tail(s) \in Seq(Frames)
                        /\ Len(Tail(s)) = Len(s) - 1
                        /\ \A i \in 1 .. (Len(s) - 1) : Tail(s)[i] = s[i + 1]
<1>1. <<f>> \in Seq(Frames) /\ Len(<<f>>) = 1 /\ <<f>>[1] = f
  OBVIOUS
<1>2. <<f>> \o s \in Seq(Frames) /\ Len(<<f>> \o s) = Len(s) + 1
  BY <1>1
<1>3. \A i \in 1 .. Len(<<f>> \o s) :
        (<<f>> \o s)[i] = IF i <= 1 THEN <<f>>[i] ELSE s[i - 1]
  BY <1>1
<1>4. Len(s) \in Nat
  OBVIOUS
<1>5. s # <<>> => /\ s[1] \in Frames
                  /\ Tail(s) \in Seq(Frames)
                  /\ Len(Tail(s)) = Len(s) - 1
                  /\ \A i \in 1 .. (Len(s) - 1) : Tail(s)[i] = s[i + 1]
  OBVIOUS
<1>6. (<<f>> \o s)[1] = f /\ \A i \in 1 .. Len(s) : (<<f>> \o s)[i + 1] = s[i]
  BY <1>1, <1>2, <1>3, <1>4
<1>7. <<f>> \o s # <<>>
  BY <1>2, <1>4
<1>8. QED
  BY <1>2, <1>5, <1>6, <1>7

\* What a call that goes on finds on the stack.
LEMMA TopFrame ==
  ASSUME NEW s \in Seq(Frames), s # <<>>
  PROVE  /\ s[1] \in Frames /\ Tail(s) \in Seq(Frames)
         /\ Len(Tail(s)) = Len(s) - 1 /\ Len(s) \in Nat \ {0}
         /\ Len(s) = 2 => Tail(s)[1] = s[2]
<1>1. Len(s) \in Nat \ {0}
  BY EmptySeq
<1>2. /\ Tail(s) \in Seq(Frames) /\ Len(Tail(s)) = Len(s) - 1
      /\ \A i \in 1 .. Len(Tail(s)) : Tail(s)[i] = s[i + 1]
  BY HeadTailProperties
<1>3. s[1] \in Frames
  BY <1>1
<1>4. ASSUME Len(s) = 2 PROVE Tail(s)[1] = s[2]
  <2>1. Len(Tail(s)) = 1
    BY <1>2, <1>4
  <2>2. 1 \in 1 .. Len(Tail(s)) /\ 1 + 1 = 2
    BY <2>1
  <2>3. QED
    BY <1>2, <2>2
<1>5. QED
  BY <1>1, <1>2, <1>3, <1>4

LEMMA FrameType ==
  ASSUME NEW pc \in Calls,
         NEW m \in Media \cup {NoMedia}, NEW b \in BOOLEAN,
         NEW p \in Proc \cup {NoProc}
  PROVE  /\ Frame(pc, m, b, p) \in Frames
         /\ Frame(pc, m, b, p).pc = pc
         /\ Frame(pc, m, b, p).media = m
         /\ Frame(pc, m, b, p).wait = p
BY DEF Frame, Frames, Calls

LEMMA EmptyStack == <<>> \in Seq(Frames) /\ Len(<<>>) = 0
OBVIOUS

\* What terminate() leaves, called with a stack of frames under it.
LEMMA TerminateType ==
  ASSUME TypeOK,
         NEW pc \in Calls,
         NEW m \in Media \cup {NoMedia}, NEW b \in BOOLEAN,
         NEW rest \in Seq(Frames), Terminate(pc, m, b, rest)
  PROVE  /\ task' = NoProc /\ signalled' \subseteq Proc
         /\ stack' \in Seq(Frames) /\ stack' # <<>>
         /\ Len(stack') = Len(rest) + 1
         /\ stack'[1].pc = pc /\ stack'[1].media = m
         /\ stack'[1].wait = Waited
         /\ \A i \in 1 .. Len(rest) : stack'[i + 1] = rest[i]
<1> DEFINE f == Frame(pc, m, b, Waited)
<1>1. Waited \in Proc \cup {NoProc}
  BY DEF TypeOK, PlayerRunning, Waited
<1>2. f \in Frames /\ f.pc = pc /\ f.media = m /\ f.wait = Waited
  BY <1>1, FrameType
<1>3. task' = NoProc /\ signalled' \subseteq Proc
  BY DEF Terminate, TypeOK, PlayerRunning
<1>4. stack' = <<f>> \o rest
  BY DEF Terminate
<1>5. QED
  <2> HIDE DEF f
  <2> QED BY <1>2, <1>3, <1>4, StackOps

\* What PlayerController.playMedia leaves up to its first terminate().
LEMMA PlayMediaType ==
  ASSUME TypeOK, NEW m \in Media \cup {NoMedia}, NEW rest \in Seq(Frames),
         PlayMedia(m, rest)
  PROVE  /\ pauseAtStart' \in BOOLEAN /\ lastPlayedPathPre' = m
         /\ task' \in Proc \cup {NoProc} /\ signalled' \subseteq Proc
         /\ pollingTimer' \in Proc \cup {NoProc} /\ timers' \subseteq Proc
         /\ stack' \in Seq(Frames) /\ stack' # <<>>
         /\ Len(stack') = Len(rest) + 1
         /\ stack'[1].pc = "start" /\ stack'[1].media = m
         /\ \A i \in 1 .. Len(rest) : stack'[i + 1] = rest[i]
         /\ \/ /\ state # "stopped" /\ task' = NoProc
               /\ timers' = timers \ {pollingTimer} /\ pollingTimer' = NoProc
               /\ stack'[1].wait = Waited
            \/ /\ state = "stopped" /\ UNCHANGED <<task, timers, pollingTimer>>
               /\ stack'[1].wait = NoProc
<1>1. pauseAtStart' \in BOOLEAN /\ lastPlayedPathPre' = m
  BY ConstantsAssumption DEF PlayMedia
<1>2. CASE state # "stopped"
  <2>1. Terminate("start", m, FALSE, rest)
    BY <1>2 DEF PlayMedia, PerformStop
  <2>2. timers' = timers \ {pollingTimer} /\ pollingTimer' = NoProc
    BY <1>2 DEF PlayMedia, PerformStop, InvalidateTimer
  <2>3. QED
    BY <1>1, <1>2, <2>1, <2>2, TerminateType DEF TypeOK, Calls
<1>3. CASE state = "stopped"
  <2>1. stack' = <<Frame("start", m, FALSE, NoProc)>> \o rest
    BY <1>3 DEF PlayMedia
  <2> DEFINE f == Frame("start", m, FALSE, NoProc)
  <2>2. f \in Frames /\ f.pc = "start" /\ f.media = m /\ f.wait = NoProc
    BY DEF Frame, Frames, Calls
  <2>3. UNCHANGED <<task, signalled, timers, pollingTimer>>
    BY <1>3 DEF PlayMedia, taskVars, timerVars
  <2>4. stack' = <<f>> \o rest
    BY <2>1
  <2> HIDE DEF f
  <2>5. /\ stack' \in Seq(Frames) /\ stack' # <<>>
        /\ Len(stack') = Len(rest) + 1 /\ stack'[1] = f
        /\ \A i \in 1 .. Len(rest) : stack'[i + 1] = rest[i]
    BY <2>2, <2>4, StackOps
  <2>6. QED
    BY <1>1, <1>3, <2>2, <2>3, <2>5 DEF TypeOK
<1>4. QED
  BY <1>2, <1>3

-----------------------------------------------------------------------------
(* Type correctness.                                                       *)

LEMMA TypeInit == Init => TypeOK
<1> SUFFICES ASSUME Init PROVE TypeOK
  OBVIOUS
<1>1. launched \in 0 .. MaxProc
  BY ConstantsAssumption DEF Init
<1>2. stack \in Seq(Frames)
  BY EmptyStack DEF Init
<1>3. armed \in [Proc -> Nat] /\ pipe \in [Proc -> SUBSET Line]
  BY DEF Init
<1>4. /\ bookmarks \in [Media -> Proc \cup {NoProc, NoBookmark}]
      /\ saved \in [Media -> Proc \cup {NoProc, NoBookmark}]
  BY DEF Init
<1>5. QED
  BY <1>1, <1>2, <1>3, <1>4 DEF Init, TypeOK

LEMMA TypeUser == TypeOK /\ UserStep => TypeOK'
<1> SUFFICES ASSUME TypeOK, UserStep PROVE TypeOK'
  OBVIOUS
<1>1. ASSUME NEW m \in Media, Open(m) PROVE TypeOK'
  <2>1. PlayMedia(m, <<>>)
    BY <1>1 DEF Open
  <2>2. /\ pauseAtStart' \in BOOLEAN /\ lastPlayedPathPre' = m
        /\ task' \in Proc \cup {NoProc} /\ signalled' \subseteq Proc
        /\ pollingTimer' \in Proc \cup {NoProc} /\ timers' \subseteq Proc
        /\ stack' \in Seq(Frames)
    BY <2>1, PlayMediaType, EmptyStack
  <2>3. QED
    BY <1>1, <2>2
       DEF Open, TypeOK, procVars, readVars, logVars, autoVars, bookVars
<1>2. ASSUME NEW m \in Media, Skip(m) PROVE TypeOK'
  <2>1. Terminate("skip", m, FALSE, <<>>)
    BY <1>2 DEF Skip, PerformStop
  <2>2. timers' \subseteq Proc /\ pollingTimer' = NoProc
    BY <1>2 DEF Skip, PerformStop, InvalidateTimer, TypeOK
  <2>3. task' = NoProc /\ signalled' \subseteq Proc /\ stack' \in Seq(Frames)
    BY <2>1, TerminateType, EmptyStack DEF Calls
  <2>4. QED
    BY <1>2, <2>2, <2>3
       DEF Skip, TypeOK, procVars, readVars, logVars, pathVars, bookVars
<1>3. CASE Replay
  <2>1. PlayMedia(lastPlayedPath, <<>>) /\ lastPlayedPath \in Media \cup {NoMedia}
    BY <1>3 DEF Replay, TypeOK
  <2>2. /\ pauseAtStart' \in BOOLEAN /\ lastPlayedPathPre' \in Media \cup {NoMedia}
        /\ task' \in Proc \cup {NoProc} /\ signalled' \subseteq Proc
        /\ pollingTimer' \in Proc \cup {NoProc} /\ timers' \subseteq Proc
        /\ stack' \in Seq(Frames)
    BY <2>1, PlayMediaType, EmptyStack
  <2>3. QED
    BY <1>3, <2>2
       DEF Replay, TypeOK, procVars, readVars, logVars, autoVars, bookVars
<1>4. CASE TogglePlayPause
  <2>1. /\ state' \in {"stopped", "opened", "playing", "paused"}
        /\ power' \in BOOLEAN
    BY <1>4 DEF TogglePlayPause, TogglePause, TypeOK
  <2>2. QED
    BY <1>4, <2>1
       DEF TogglePlayPause, TypeOK, procVars, taskVars, readVars, logVars,
           timerVars, pathVars, autoVars, bookVars
<1>5. CASE FrameStep
  BY <1>5 DEF FrameStep, TogglePause, TypeOK, procVars, taskVars, readVars,
              logVars, timerVars, pathVars, autoVars, bookVars
<1>6. CASE Seek
  BY <1>6 DEF Seek, StopAnalyzer, PlayerRunning, TypeOK, procVars, taskVars,
              readVars, timerVars, pathVars, autoVars, bookVars
<1>7. CASE Close
  <2>1. Terminate("stop", NoMedia, FALSE, <<>>)
    BY <1>7 DEF Close, PerformStop
  <2>2. timers' \subseteq Proc /\ pollingTimer' = NoProc
    BY <1>7 DEF Close, PerformStop, InvalidateTimer, TypeOK
  <2>3. task' = NoProc /\ signalled' \subseteq Proc /\ stack' \in Seq(Frames)
    BY <2>1, TerminateType, EmptyStack DEF Calls
  <2>4. QED
    BY <1>7, <2>2, <2>3
       DEF Close, TypeOK, procVars, readVars, logVars, pathVars, autoVars, bookVars
<1>8. CASE Quit
  <2>1. Terminate("quit", NoMedia, FALSE, <<>>)
    BY <1>8 DEF Quit, PerformStop
  <2>2. timers' \subseteq Proc /\ pollingTimer' = NoProc
    BY <1>8 DEF Quit, PerformStop, InvalidateTimer, TypeOK
  <2>3. task' = NoProc /\ signalled' \subseteq Proc /\ stack' \in Seq(Frames)
    BY <2>1, TerminateType, EmptyStack DEF Calls
  <2>4. QED
    BY <1>8, <2>2, <2>3
       DEF Quit, TypeOK, procVars, readVars, logVars, pathVars, autoVars, bookVars
<1>9. QED
  BY <1>1, <1>2, <1>3, <1>4, <1>5, <1>6, <1>7, <1>8 DEF UserStep

LEMMA TypeReturn == TypeOK /\ ReturnStep => TypeOK'
<1> SUFFICES ASSUME TypeOK, ReturnStep PROVE TypeOK'
  OBVIOUS
<1>1. /\ stack # <<>> /\ stack[1] \in Frames /\ Tail(stack) \in Seq(Frames)
      /\ stack[1].media \in Media \cup {NoMedia} /\ stack[1].stpause \in BOOLEAN
  <2>1. stack # <<>> /\ stack \in Seq(Frames)
    BY DEF ReturnStep, StopReturns, QuitReturns, SkipReturns, Start, Launch,
           Resumes, TypeOK
  <2>2. stack[1] \in Frames /\ Tail(stack) \in Seq(Frames)
    BY <2>1
  <2>3. QED
    BY <2>1, <2>2 DEF Frames
<1>2. CASE StopReturns
  BY <1>1, <1>2 DEF StopReturns, TypeOK, procVars, taskVars, readVars, logVars,
                    timerVars, autoVars, bookVars
<1>3. CASE QuitReturns
  BY <1>1, <1>3 DEF QuitReturns, TypeOK, procVars, taskVars, readVars, logVars,
                    timerVars, autoVars
<1>4. CASE SkipReturns
  <2>1. PlayMedia(stack[1].media, Tail(stack)) /\ lastPlayedPath' = NoMedia
    BY <1>4 DEF SkipReturns
  <2>2. /\ pauseAtStart' \in BOOLEAN /\ lastPlayedPathPre' \in Media \cup {NoMedia}
        /\ task' \in Proc \cup {NoProc} /\ signalled' \subseteq Proc
        /\ pollingTimer' \in Proc \cup {NoProc} /\ timers' \subseteq Proc
        /\ stack' \in Seq(Frames)
    BY <1>1, <2>1, PlayMediaType
  <2>3. QED
    BY <1>1, <1>4, <2>1, <2>2
       DEF SkipReturns, TypeOK, procVars, readVars, logVars, autoVars, bookVars
<1>5. CASE Start
  <2> DEFINE b == pauseAtStart /\ HasStPause
  <2>1. Terminate("launch", stack[1].media, b, Tail(stack)) /\ b \in BOOLEAN
    BY <1>5, ConstantsAssumption DEF Start, TypeOK
  <2>2. task' = NoProc /\ signalled' \subseteq Proc /\ stack' \in Seq(Frames)
    <3> HIDE DEF b
    <3> QED BY <1>1, <2>1, TerminateType DEF Calls
  <2>3. QED
    BY <1>5, <2>2
       DEF Start, TypeOK, procVars, readVars, logVars, timerVars, pathVars,
           autoVars, bookVars
<1>6. CASE Launch
  <2>1. launched + 1 \in Proc
    BY <1>6, ConstantsAssumption DEF Launch, TypeOK, Proc
  <2>2. late' \subseteq {"launchBeforeEnd", "launchBeforeLine", "endBeforeLine"}
    BY <1>6 DEF Launch, Overtaken, TypeOK
  <2>3. QED
    BY <1>1, <1>6, <2>1, <2>2
       DEF Launch, Observe, TypeOK, Proc, logVars, bookVars
<1>7. QED
  BY <1>2, <1>3, <1>4, <1>5, <1>6 DEF ReturnStep

LEMMA TypeServe == TypeOK /\ ServeStep => TypeOK'
<1> SUFFICES ASSUME TypeOK, ServeStep PROVE TypeOK'
  OBVIOUS
<1>1. ASSUME NEW p \in Proc, Notice(p) PROVE TypeOK'
  <2>1. notice' \in [Proc -> {"none", "pending", "done"}]
    BY <1>1 DEF Notice, TypeOK
  <2>2. late' \subseteq {"launchBeforeEnd", "launchBeforeLine", "endBeforeLine"}
    BY <1>1 DEF Notice, TypeOK
  <2>3. CASE p \notin watched
    BY <1>1, <2>1, <2>3, <2>2
       DEF Notice, TypeOK, procVars, taskVars, readVars, logVars, timerVars,
           pathVars, autoVars, bookVars
  <2>4. CASE p \in watched
    <3>1. HasTerminated(p)
      BY <1>1, <2>4 DEF Notice
    <3>2. bookmarks' \in [Media -> Proc \cup {NoProc, NoBookmark}]
      BY <3>1 DEF HasTerminated, BookmarkAfter, TypeOK
    <3>3. /\ timers' \subseteq Proc /\ pollingTimer' \in Proc \cup {NoProc}
          /\ watched' \subseteq Proc /\ ops' \subseteq Proc \X Line
      BY <3>1 DEF HasTerminated, InvalidateTimer, RemoveObservers, StopAnalyzer,
                  TypeOK
    <3>4. /\ autoPlayState' \in {"invalid", "justFound", "playing"}
          /\ power' \in BOOLEAN /\ requesting' \in BOOLEAN
          /\ pauseAtStart' \in BOOLEAN
          /\ lastPlayedPathPre' \in Media \cup {NoMedia}
          /\ stack' \in Seq(Frames)
      <4>1. CASE FollowsUp(p)
        <5> DEFINE n == NextOf[lastPlayedPath]
                   f == Frame("start", n, FALSE, NoProc)
        <5>1. n \in Media
          BY <4>1, ConstantsAssumption DEF FollowsUp, TypeOK
        <5>2. f \in Frames
          BY <5>1 DEF Frame, Frames, Calls
        <5>3. PlayNextEpisode
          BY <3>1, <4>1 DEF HasTerminated
        <5>4. stack' \in Seq(Frames)
          <6>1. stack' = <<f>> \o stack
            BY <5>3 DEF PlayNextEpisode
          <6> HIDE DEF f
          <6>2. QED
            BY <5>2, <6>1, StackOps DEF TypeOK
        <5>5. QED
          BY <5>1, <5>3, <5>4 DEF PlayNextEpisode, TypeOK
      <4>2. CASE ~FollowsUp(p)
        BY <3>1, <4>2 DEF HasTerminated, Finalize, TypeOK
      <4>3. QED
        BY <4>1, <4>2
    <3>5. state' = "stopped" /\ UNCHANGED <<procVars, taskVars, armed, pipe,
            mainQ, currentTime, lastPlayedPath, saved, quitted>>
      BY <3>1 DEF HasTerminated
    <3>6. QED
      BY <2>1, <2>2, <3>2, <3>3, <3>4, <3>5 DEF TypeOK, procVars, taskVars
  <2>5. QED
    BY <2>3, <2>4
<1>2. ASSUME NEW p \in Proc, ReadOutput(p) PROVE TypeOK'
  <2>1. pipe' \in [Proc -> SUBSET Line] /\ {p} \X pipe[p] \subseteq Proc \X Line
    BY <1>2 DEF ReadOutput, TypeOK
  <2> DEFINE spent == [armed EXCEPT ![p] = @ - 1]
  <2>2. spent \in [Proc -> Nat]
    BY <1>2 DEF ReadOutput, TypeOK
  <2>3. ASSUME p \in watched /\ PlayerRunning
        PROVE  armed' \in [Proc -> Nat] /\ ops' \subseteq Proc \X Line
    <3>1. task \in Proc
      BY <2>3 DEF PlayerRunning, TypeOK
    <3>2. armed' = [spent EXCEPT ![task] = @ + 1] /\ ops' = ops \cup ({p} \X pipe[p])
      BY <1>2, <2>3 DEF ReadOutput
    <3> HIDE DEF spent
    <3>3. armed' \in [Proc -> Nat]
      BY <2>2, <3>1, <3>2
    <3>4. ops' \subseteq Proc \X Line
      BY <2>1, <3>2 DEF TypeOK
    <3>5. QED
      BY <3>3, <3>4
  <2>4. ASSUME ~(p \in watched /\ PlayerRunning)
        PROVE  armed' \in [Proc -> Nat] /\ ops' \subseteq Proc \X Line
    <3>1. armed' = spent /\ ops' = ops
      BY <1>2, <2>4 DEF ReadOutput
    <3>2. QED
      BY <2>2, <3>1 DEF TypeOK
  <2>5. armed' \in [Proc -> Nat] /\ ops' \subseteq Proc \X Line
    BY <2>3, <2>4
  <2>6. QED
    BY <1>2, <2>1, <2>5
       DEF ReadOutput, TypeOK, procVars, taskVars, timerVars, pathVars,
           autoVars, bookVars
<1>3. ASSUME NEW p \in Proc, Poll(p) PROVE TypeOK'
  <2>1. pipe' \in [Proc -> SUBSET Line]
    BY <1>3 DEF Poll, TypeOK, Line
  <2>2. QED
    BY <1>3, <2>1
       DEF Poll, TypeOK, procVars, taskVars, readVars, timerVars, pathVars,
           autoVars, bookVars
<1>4. ASSUME NEW p \in Proc, NEW line \in Line, Deliver(p, line) PROVE TypeOK'
  BY <1>4 DEF Deliver, TypeOK, procVars, taskVars, readVars, timerVars, pathVars,
              autoVars, bookVars
<1>5. QED
  BY <1>1, <1>2, <1>3, <1>4 DEF ServeStep

LEMMA TypeProc == TypeOK /\ ProcStep => TypeOK'
<1> SUFFICES ASSUME TypeOK, ProcStep PROVE TypeOK'
  OBVIOUS
<1>1. ASSUME NEW p \in Proc, Begin(p) PROVE TypeOK'
  <2>1. pipe' \in [Proc -> SUBSET Line] /\ begun' \subseteq Proc
    BY <1>1 DEF Begin, TypeOK, Line
  <2>2. QED
    BY <1>1, <2>1
       DEF Begin, TypeOK, taskVars, readVars, timerVars, pathVars, autoVars, bookVars
<1>2. ASSUME NEW p \in Proc, NEW status \in {0, 1}, Exit(p, status) PROVE TypeOK'
  BY <1>2 DEF Exit, TypeOK, taskVars, readVars, logVars, timerVars, pathVars,
              autoVars, bookVars
<1>3. ASSUME NEW p \in Proc, NEW line \in Line, Analyze(p, line) PROVE TypeOK'
  BY <1>3 DEF Analyze, TypeOK, procVars, taskVars, readVars, timerVars, pathVars,
              autoVars, bookVars
<1>4. QED
  BY <1>1, <1>2, <1>3 DEF ProcStep

LEMMA TypeStutter == TypeOK /\ UNCHANGED vars => TypeOK'
BY DEF TypeOK, vars, procVars, taskVars, readVars, logVars, timerVars, pathVars,
       autoVars, bookVars

\* Every variable keeps its type, whatever arrives when.
THEOREM TypeCorrect == Spec => []TypeOK
<1>1. TypeOK /\ [Next]_vars => TypeOK'
  BY TypeUser, TypeReturn, TypeServe, TypeProc, TypeStutter DEF Next, Ended
<1>2. QED
  BY <1>1, TypeInit, PTL DEF Spec

-----------------------------------------------------------------------------
(* One player at a time: with auto-play-next off, terminate(), the launch  *)
(* and the termination handler keep at most one process running, one timer *)
(* firing and the right path, however late a notice is served.             *)

\* The inductive invariant.
Settled == TypeOK /\ OneCall /\ OneProcess /\ TimersStopped /\ PathKnown

\* A step that touches none of the variables the invariant relates, other than
\* to stop a player or to leave or keep "stopped".
LEMMA SafeQuiet ==
  ASSUME Settled, TypeOK', ~AutoPlayNext,
         UNCHANGED <<media, task, timers, pollingTimer, lastPlayedPath,
                     lastPlayedPathPre, stack>>,
         \A p \in Proc : run'[p] = "running" => run[p] = "running",
         state' = "stopped" => state = "stopped" \/ timers = {}
  PROVE  Settled'
<1>1. OneCall' /\ TimersStopped'
  BY DEF Settled, OneCall, TimersStopped
<1>2. OneProcess'
  BY DEF Settled, OneProcess, Awaited
<1>3. PathKnown'
  BY DEF Settled, PathKnown, PlayerRunning, TypeOK
<1>4. QED
  BY <1>1, <1>2, <1>3 DEF Settled

\* Nothing runs but the task, at a user event and where a call goes on.
LEMMA OnlyTaskRuns ==
  ASSUME Settled, ~AutoPlayNext,
         stack = <<>> \/ \E pc \in Calls : Resumes(pc)
  PROVE  \A p \in Proc : run[p] = "running" => p = task
BY DEF Settled, OneProcess, Awaited, Resumes

\* A call that terminates the task, if it holds one, and waits for it.
LEMMA SafeTerminate ==
  ASSUME Settled, TypeOK', ~AutoPlayNext,
         NEW pc \in Calls, NEW m \in Media \cup {NoMedia}, NEW b \in BOOLEAN,
         NEW rest \in Seq(Frames), Len(rest) = 0, Terminate(pc, m, b, rest)
  PROVE  /\ \A p \in Proc : run[p] = "running" => p = task
         /\ UNCHANGED <<run, media, state>> /\ timers' = {}
         /\ pc \in {"start", "launch"} => lastPlayedPathPre' = m
         => Settled'
<1>1. /\ task' = NoProc /\ stack' # <<>> /\ Len(stack') = Len(rest) + 1
      /\ stack'[1].pc = pc /\ stack'[1].media = m /\ stack'[1].wait = Waited
  <2>1. TypeOK
    BY DEF Settled
  <2>2. QED
    BY <2>1, TerminateType, ZenonT(60)
<1>2. Len(stack') = 1
  BY <1>1
<1>3. SUFFICES ASSUME \A p \in Proc : run[p] = "running" => p = task,
                      UNCHANGED <<run, media, state>>, timers' = {},
                      pc \in {"start", "launch"} => lastPlayedPathPre' = m
               PROVE  Settled'
  OBVIOUS
<1>4. OneCall'
  BY <1>1, <1>2, <1>3 DEF OneCall, Calls
<1>5. OneProcess'
  BY <1>1, <1>3
     DEF OneProcess, Awaited, Waited, PlayerRunning, Settled, TypeOK, NoProc, Proc
<1>6. TimersStopped' /\ PathKnown'
  BY <1>1, <1>3 DEF TimersStopped, PathKnown, PlayerRunning
<1>7. QED
  BY <1>4, <1>5, <1>6 DEF Settled

\* Before a call no timer is left, whether or not there is a playback to stop.
LEMMA NoTimerLeft ==
  ASSUME Settled, ~AutoPlayNext, InvalidateTimer
  PROVE  timers' = {}
BY DEF Settled, TimersStopped, InvalidateTimer

\* PlayerController.playMedia, called with nothing under it.
LEMMA SafePlayMedia ==
  ASSUME Settled, TypeOK', ~AutoPlayNext,
         \A p \in Proc : run[p] = "running" => p = task,
         NEW m \in Media \cup {NoMedia}, NEW rest \in Seq(Frames), Len(rest) = 0,
         PlayMedia(m, rest), UNCHANGED <<run, media, state>>,
         lastPlayedPath' = lastPlayedPath \/ task = NoProc
  PROVE  Settled'
<1>1. lastPlayedPathPre' = m
  BY DEF PlayMedia
<1>2. CASE state # "stopped"
  <2>1. Terminate("start", m, FALSE, rest) /\ timers' = {}
    BY <1>2, NoTimerLeft DEF PlayMedia, PerformStop
  <2>2. QED
    BY <1>1, <2>1, SafeTerminate DEF Calls
<1>3. CASE state = "stopped"
  <2>1. /\ UNCHANGED <<task, timers, pollingTimer>>
        /\ stack' # <<>> /\ Len(stack') = 1 /\ stack'[1].pc = "start"
        /\ stack'[1].media = m /\ stack'[1].wait = NoProc
    <3>1. TypeOK
      BY DEF Settled
    <3>2. /\ UNCHANGED <<task, timers, pollingTimer>>
          /\ stack' # <<>> /\ Len(stack') = Len(rest) + 1
          /\ stack'[1].pc = "start"
          /\ stack'[1].media = m /\ stack'[1].wait = NoProc
      BY <1>3, <3>1, PlayMediaType
    <3>3. QED
      BY <3>2
  <2>2. timers = {}
    BY <1>3 DEF Settled, TimersStopped
  <2>3. OneCall'
    BY <1>1, <2>1, <2>2 DEF OneCall
  <2>4. OneProcess'
    BY <2>1 DEF OneProcess, Awaited
  <2>5. TimersStopped'
    BY <2>1, <2>2 DEF TimersStopped
  <2>6. PathKnown'
    BY <2>1 DEF Settled, PathKnown, PlayerRunning
  <2>7. QED
    BY <2>3, <2>4, <2>5, <2>6 DEF Settled
<1>4. QED
  BY <1>2, <1>3

-----------------------------------------------------------------------------
(* The steps.                                                              *)

LEMMA SafeUser == Settled /\ ~AutoPlayNext /\ UserStep => Settled'
<1> SUFFICES ASSUME Settled, ~AutoPlayNext, UserStep PROVE Settled'
  OBVIOUS
<1>1. TypeOK /\ TypeOK'
  BY TypeUser DEF Settled
<1>2. stack = <<>> /\ \A p \in Proc : run[p] = "running" => p = task
  <2>1. stack = <<>>
    BY DEF UserStep, Open, Skip, Replay, TogglePlayPause, FrameStep, Seek,
           Close, Quit, UserTurn
  <2>2. QED
    BY <2>1, OnlyTaskRuns
<1>3. ASSUME NEW m \in Media, Open(m) PROVE Settled'
  <2>1. PlayMedia(m, <<>>) /\ UNCHANGED <<run, media, state, lastPlayedPath>>
    BY <1>3 DEF Open, procVars
  <2>2. QED
    BY <1>1, <1>2, <2>1, SafePlayMedia, EmptyStack
<1>4. CASE Replay
  <2>1. /\ PlayMedia(lastPlayedPath, <<>>)
        /\ UNCHANGED <<run, media, state, lastPlayedPath>>
        /\ lastPlayedPath \in Media \cup {NoMedia}
    BY <1>1, <1>4 DEF Replay, procVars, TypeOK
  <2>2. QED
    BY <1>1, <1>2, <2>1, SafePlayMedia, EmptyStack
<1>5. ASSUME NEW pc \in {"stop", "quit", "skip"}, NEW m \in Media \cup {NoMedia},
             PerformStop(pc, m, <<>>), UNCHANGED <<run, media, state>>
      PROVE  Settled'
  <2>1. Terminate(pc, m, FALSE, <<>>) /\ timers' = {}
    BY <1>5, NoTimerLeft DEF PerformStop
  <2>2. QED
    BY <1>1, <1>2, <1>5, <2>1, SafeTerminate, EmptyStack DEF Calls
<1>6. ASSUME NEW m \in Media, Skip(m) PROVE Settled'
  BY <1>5, <1>6 DEF Skip, procVars
<1>7. CASE Close
  BY <1>5, <1>7 DEF Close, procVars
<1>8. CASE Quit
  BY <1>5, <1>8 DEF Quit, procVars
<1>9. CASE TogglePlayPause \/ FrameStep \/ Seek
  <2>1. /\ UNCHANGED <<run, media, task, timers, pollingTimer, lastPlayedPath,
                       lastPlayedPathPre, stack>>
        /\ state' = "stopped" => state = "stopped"
    BY <1>9 DEF TogglePlayPause, FrameStep, Seek, TogglePause, procVars,
                taskVars, timerVars, pathVars
  <2>2. QED
    BY <1>1, <2>1, SafeQuiet
<1>10. QED
  BY <1>3, <1>4, <1>6, <1>7, <1>8, <1>9 DEF UserStep

LEMMA SafeReturn == Settled /\ ~AutoPlayNext /\ ReturnStep => Settled'
<1> SUFFICES ASSUME Settled, ~AutoPlayNext, ReturnStep PROVE Settled'
  OBVIOUS
<1>1. TypeOK /\ TypeOK'
  BY TypeReturn DEF Settled
<1>2. /\ stack # <<>> /\ \A p \in Proc : run[p] = "running" => p = task
      /\ stack[1].media \in Media \cup {NoMedia}
      /\ Tail(stack) \in Seq(Frames) /\ Len(Tail(stack)) = 0
  <2>1. \E pc \in Calls : Resumes(pc)
    BY DEF ReturnStep, StopReturns, QuitReturns, SkipReturns, Start, Launch, Calls
  <2>2. stack # <<>> /\ stack \in Seq(Frames) /\ Len(stack) = 1
    BY <1>1, <2>1 DEF Settled, OneCall, Resumes, TypeOK
  <2>3. stack[1] \in Frames /\ Tail(stack) \in Seq(Frames) /\ Len(Tail(stack)) = 0
    BY <2>2
  <2>4. QED
    BY <2>1, <2>2, <2>3, OnlyTaskRuns DEF Frames
<1>3. Tail(stack) = <<>>
  BY <1>2, EmptySeq
<1>4. CASE StopReturns \/ QuitReturns
  <2>1. /\ UNCHANGED <<run, media, task, timers, pollingTimer, state>>
        /\ stack' = <<>> /\ task = NoProc
    BY <1>2, <1>3, <1>4 DEF StopReturns, QuitReturns, Resumes, procVars, taskVars,
         timerVars, Settled, OneCall
  <2>2. OneCall' /\ TimersStopped' /\ PathKnown'
    BY <2>1 DEF OneCall, TimersStopped, PathKnown, PlayerRunning, Settled
  <2>3. OneProcess'
    BY <1>2, <2>1 DEF OneProcess, Awaited
  <2>4. QED
    BY <1>1, <2>2, <2>3 DEF Settled
<1>5. CASE SkipReturns
  <2>1. /\ PlayMedia(stack[1].media, Tail(stack)) /\ UNCHANGED <<run, media, state>>
        /\ task = NoProc
    BY <1>2, <1>5 DEF SkipReturns, Resumes, procVars, Settled, OneCall
  <2>2. QED
    BY <1>1, <1>2, <2>1, SafePlayMedia
<1>6. CASE Start
  <2> DEFINE b == pauseAtStart /\ HasStPause
  <2>1. /\ Terminate("launch", stack[1].media, b, Tail(stack)) /\ b \in BOOLEAN
        /\ UNCHANGED <<run, media, state, timers, lastPlayedPathPre>>
        /\ timers = {} /\ lastPlayedPathPre = stack[1].media
    BY <1>1, <1>2, <1>6, ConstantsAssumption
       DEF Start, Resumes, procVars, timerVars, pathVars, TypeOK, Settled, OneCall
  <2> HIDE DEF b
  <2>2. QED
    BY <1>1, <1>2, <2>1, SafeTerminate DEF Calls
<1>7. CASE Launch
  <2> DEFINE p == launched + 1
  <2>1. /\ p \in Proc /\ task' = p /\ pollingTimer' = p /\ stack' = <<>>
        /\ timers' = timers \cup {p} /\ state' = "opened"
        /\ run' = [run EXCEPT ![p] = "running"]
        /\ media' = [media EXCEPT ![p] = stack[1].media]
        /\ lastPlayedPath' = lastPlayedPathPre
    BY <1>1, <1>3, <1>7, ConstantsAssumption DEF Launch, TypeOK, Proc
  <2>2. task = NoProc /\ timers = {} /\ lastPlayedPathPre = stack[1].media
    BY <1>2, <1>7 DEF Launch, Resumes, Settled, OneCall
  <2>3. \A q \in Proc : run[q] # "running"
    BY <1>2, <2>2 DEF Proc, NoProc
  <2> HIDE DEF p
  <2>4. OneProcess'
    BY <1>1, <2>1, <2>3 DEF OneProcess, Awaited, TypeOK
  <2>5. OneCall' /\ TimersStopped'
    BY <2>1, <2>2 DEF OneCall, TimersStopped
  <2>6. PathKnown'
    BY <1>1, <2>1, <2>2 DEF PathKnown, TypeOK
  <2>7. QED
    BY <1>1, <2>4, <2>5, <2>6 DEF Settled
<1>8. QED
  BY <1>4, <1>5, <1>6, <1>7 DEF ReturnStep

LEMMA SafeServe == Settled /\ ~AutoPlayNext /\ ServeStep => Settled'
<1> SUFFICES ASSUME Settled, ~AutoPlayNext, ServeStep PROVE Settled'
  OBVIOUS
<1>1. TypeOK /\ TypeOK'
  BY TypeServe DEF Settled
<1>2. ASSUME NEW p \in Proc, Notice(p), p \in watched PROVE Settled'
  <2>1. HasTerminated(p) /\ ~FollowsUp(p)
    BY <1>2 DEF Notice, FollowsUp
  <2>2. /\ UNCHANGED <<run, media, task, lastPlayedPath, lastPlayedPathPre, stack>>
        /\ InvalidateTimer
    BY <2>1 DEF HasTerminated, Finalize, procVars, taskVars
  <2>3. timers' = {}
    BY <2>2, NoTimerLeft
  <2>4. OneCall' /\ TimersStopped'
    BY <2>2, <2>3 DEF Settled, OneCall, TimersStopped
  <2>5. OneProcess' /\ PathKnown'
    BY <2>2 DEF Settled, OneProcess, PathKnown, Awaited, PlayerRunning
  <2>6. QED
    BY <1>1, <2>4, <2>5 DEF Settled
<1>3. ASSUME NEW p \in Proc, Notice(p), p \notin watched PROVE Settled'
  <2>1. UNCHANGED <<run, media, task, timers, pollingTimer, lastPlayedPath,
                    lastPlayedPathPre, stack, state>>
    BY <1>3 DEF Notice, procVars, taskVars, timerVars, pathVars
  <2>2. QED
    BY <1>1, <2>1, SafeQuiet
<1>4. ASSUME NEW p \in Proc, ReadOutput(p) \/ Poll(p) PROVE Settled'
  <2>1. UNCHANGED <<run, media, task, timers, pollingTimer, lastPlayedPath,
                    lastPlayedPathPre, stack, state>>
    BY <1>4 DEF ReadOutput, Poll, procVars, taskVars, timerVars, pathVars
  <2>2. QED
    BY <1>1, <2>1, SafeQuiet
<1>5. ASSUME NEW p \in Proc, NEW line \in Line, Deliver(p, line) PROVE Settled'
  <2>1. /\ UNCHANGED <<run, media, task, timers, pollingTimer, lastPlayedPath,
                       lastPlayedPathPre, stack>>
        /\ state' = "stopped" => state = "stopped"
    BY <1>5 DEF Deliver, procVars, taskVars, timerVars, pathVars
  <2>2. QED
    BY <1>1, <2>1, SafeQuiet
<1>6. QED
  BY <1>2, <1>3, <1>4, <1>5 DEF ServeStep

LEMMA SafeProc == Settled /\ ~AutoPlayNext /\ ProcStep => Settled'
<1> SUFFICES ASSUME Settled, ~AutoPlayNext, ProcStep PROVE Settled'
  OBVIOUS
<1>1. TypeOK /\ TypeOK'
  BY TypeProc DEF Settled
<1>2. UNCHANGED <<media, task, timers, pollingTimer, lastPlayedPath,
                  lastPlayedPathPre, stack, state>>
  BY DEF ProcStep, Begin, Exit, Analyze, procVars, taskVars, timerVars, pathVars
<1>3. \A p \in Proc : run'[p] = "running" => run[p] = "running"
  BY <1>1 DEF ProcStep, Begin, Exit, Analyze, procVars, TypeOK
<1>4. QED
  BY <1>1, <1>2, <1>3, SafeQuiet

LEMMA SafeInit == Init => Settled
<1> SUFFICES ASSUME Init PROVE Settled
  OBVIOUS
<1>1. OneProcess /\ PathKnown
  BY DEF Init, OneProcess, PathKnown, PlayerRunning
<1>2. OneCall /\ TimersStopped
  BY DEF Init, OneCall, TimersStopped
<1>3. QED
  BY <1>1, <1>2, TypeInit DEF Settled

\* The inductive step; with auto-play-next on, only the types are at stake.
LEMMA SafeStep == Settled /\ [Next]_vars => Settled'
<1> SUFFICES ASSUME Settled, [Next]_vars PROVE Settled'
  OBVIOUS
<1>1. TypeOK'
  BY TypeUser, TypeReturn, TypeServe, TypeProc, TypeStutter
     DEF Settled, Next, Ended
<1>2. CASE AutoPlayNext
  BY <1>1, <1>2 DEF Settled, OneCall, OneProcess, TimersStopped, PathKnown
<1>3. CASE ~AutoPlayNext /\ UNCHANGED vars
  <2>1. UNCHANGED <<run, media, task, timers, pollingTimer, lastPlayedPath,
                    lastPlayedPathPre, stack, state>>
    BY <1>3 DEF vars, procVars, taskVars, timerVars, pathVars
  <2>2. QED
    BY <1>1, <1>3, <2>1, SafeQuiet
<1>4. QED
  BY <1>2, <1>3, SafeUser, SafeReturn, SafeServe, SafeProc DEF Next, Ended

\* One process runs, the one that is held or waited for: terminate() and the
\* launch leave no player behind.
THEOREM OneProcessHolds == Spec => []OneProcess
BY SafeInit, SafeStep, PTL DEF Spec, Settled

\* No polling timer outlives its playback or is made beside another.
THEOREM TimersStoppedHolds == Spec => []TimersStopped
BY SafeInit, SafeStep, PTL DEF Spec, Settled

\* The path bookmarks are filed under is that of the player that runs.
THEOREM PathKnownHolds == Spec => []PathKnown
BY SafeInit, SafeStep, PTL DEF Spec, Settled

\* At most one call is suspended, and it has stopped what it replaces.
THEOREM OneCallHolds == Spec => []OneCall
BY SafeInit, SafeStep, PTL DEF Spec, Settled

-----------------------------------------------------------------------------
(* The nesting of the run loop: a wait in terminate() may launch the next  *)
(* episode, and that launch returns without waiting in its turn.           *)

\* The inductive invariant.
Nested == TypeOK /\ NestedOnce

\* A step that leaves the stack, task and observers alone and starts no process.
LEMMA NestQuiet ==
  ASSUME Nested, TypeOK', UNCHANGED <<launched, task, watched, stack>>,
         \A p \in Proc : run'[p] = run[p] \/ (run[p] = "running" /\ run'[p] = "exited"),
         \A p \in Proc : notice'[p] = "pending" =>
                           notice[p] = "pending" \/ run'[p] = "exited"
  PROVE  Nested'
<1>1. ~PlayerRunning => ~PlayerRunning'
  BY DEF PlayerRunning, Nested, TypeOK
<1>2. Awaited' = Awaited
  BY DEF Awaited
<1>3. \A p \in Proc : /\ p > launched' => run'[p] = "unborn"
                      /\ notice'[p] = "pending" => run'[p] = "exited"
  BY DEF Nested, NestedOnce
<1>4. QED
  BY <1>1, <1>2, <1>3 DEF Nested, NestedOnce

\* The facts about the processes that a step on the stack alone keeps.
LEMMA NestProcs ==
  ASSUME Nested, UNCHANGED <<launched, run, notice>>
  PROVE  \A p \in Proc : /\ p > launched' => run'[p] = "unborn"
                         /\ notice'[p] = "pending" => run'[p] = "exited"
BY DEF Nested, NestedOnce

\* terminate(), called with nothing under it or for a nested launch.
LEMMA NestTerminate ==
  ASSUME Nested, TypeOK', NEW pc \in Calls, NEW m \in Media \cup {NoMedia},
         NEW b \in BOOLEAN, NEW rest \in Seq(Frames), Terminate(pc, m, b, rest)
  PROVE  /\ UNCHANGED <<launched, run, notice>>
         /\ Len(rest) = 0 \/ /\ Len(rest) = 1 /\ Len(stack) = 2
                             /\ rest[1] = stack[2] /\ pc = "launch"
                             /\ UNCHANGED watched
         => Nested'
<1>1. /\ task' = NoProc /\ stack' # <<>> /\ Len(stack') = Len(rest) + 1
      /\ stack'[1].pc = pc /\ stack'[1].wait = Waited
      /\ \A i \in 1 .. Len(rest) : stack'[i + 1] = rest[i]
  BY TerminateType DEF Nested
<1>2. SUFFICES ASSUME UNCHANGED <<launched, run, notice>>,
                      Len(rest) = 0 \/ /\ Len(rest) = 1 /\ Len(stack) = 2
                                       /\ rest[1] = stack[2] /\ pc = "launch"
                                       /\ UNCHANGED watched
               PROVE  Nested'
  OBVIOUS
<1>3. ~PlayerRunning'
  BY <1>1 DEF PlayerRunning
<1>4. \A p \in Proc : /\ p > launched' => run'[p] = "unborn"
                      /\ notice'[p] = "pending" => run'[p] = "exited"
  BY <1>2, NestProcs
<1>5. CASE Len(rest) = 0
  <2>1. Len(stack') = 1
    BY <1>1, <1>5
  <2>2. Len(stack') <= 2 /\ Len(stack') # 2
    BY <2>1
  <2>3. NestedOnce'
    BY <1>1, <1>4, <2>2 DEF NestedOnce
  <2>4. QED
    BY <2>3 DEF Nested
<1>6. CASE Len(rest) = 1 /\ Len(stack) = 2 /\ rest[1] = stack[2]
           /\ pc = "launch" /\ UNCHANGED watched
  <2>1. Len(stack') = 2 /\ stack'[2] = stack[2]
    BY <1>1, <1>6
  <2>2. stack[2].wait # NoProc /\ watched = {} /\ Waited = NoProc
    BY <1>6 DEF Nested, NestedOnce, Waited
  <2>3. QED
    BY <1>1, <1>3, <1>4, <1>6, <2>1, <2>2 DEF Nested, NestedOnce
<1>7. QED
  BY <1>2, <1>5, <1>6

\* PlayerController.playMedia, called with nothing under it.
LEMMA NestPlayMedia ==
  ASSUME Nested, TypeOK', NEW m \in Media \cup {NoMedia},
         NEW rest \in Seq(Frames), Len(rest) = 0, PlayMedia(m, rest),
         UNCHANGED <<launched, run, notice>>
  PROVE  Nested'
<1>1. CASE state # "stopped"
  <2>1. Terminate("start", m, FALSE, rest)
    BY <1>1 DEF PlayMedia, PerformStop
  <2>2. QED
    BY <2>1, NestTerminate DEF Calls
<1>2. CASE state = "stopped"
  <2>1. /\ stack' # <<>> /\ Len(stack') = Len(rest) + 1
        /\ stack'[1].wait = NoProc
    BY <1>2, PlayMediaType DEF Nested
  <2>2. Len(stack') = 1 /\ Awaited' = NoProc
    BY <2>1 DEF Awaited
  <2>3. QED
    BY <2>2, NestProcs DEF Nested, NestedOnce
<1>3. QED
  BY <1>1, <1>2

-----------------------------------------------------------------------------
(* The steps.                                                              *)

LEMMA NestUser == Nested /\ UserStep => Nested'
<1> SUFFICES ASSUME Nested, UserStep PROVE Nested'
  OBVIOUS
<1>1. TypeOK /\ TypeOK'
  BY TypeUser DEF Nested
<1>2. ASSUME NEW m \in Media, Open(m) PROVE Nested'
  <2>1. PlayMedia(m, <<>>) /\ UNCHANGED <<launched, run, notice>>
    BY <1>2 DEF Open, procVars
  <2>2. QED
    BY <1>1, <2>1, NestPlayMedia, EmptyStack
<1>3. CASE Replay
  <2>1. /\ PlayMedia(lastPlayedPath, <<>>) /\ UNCHANGED <<launched, run, notice>>
        /\ lastPlayedPath \in Media \cup {NoMedia}
    BY <1>1, <1>3 DEF Replay, procVars, TypeOK
  <2>2. QED
    BY <1>1, <2>1, NestPlayMedia, EmptyStack
<1>4. ASSUME NEW pc \in Calls, NEW m \in Media \cup {NoMedia},
             PerformStop(pc, m, <<>>), UNCHANGED <<launched, run, notice>>
      PROVE  Nested'
  <2>1. Terminate(pc, m, FALSE, <<>>)
    BY <1>4 DEF PerformStop
  <2>2. QED
    BY <1>1, <1>4, <2>1, NestTerminate, EmptyStack
<1>5. ASSUME NEW m \in Media, Skip(m) PROVE Nested'
  BY <1>4, <1>5 DEF Skip, procVars, Calls
<1>6. CASE Close
  BY <1>4, <1>6 DEF Close, procVars, Calls
<1>7. CASE Quit
  BY <1>4, <1>7 DEF Quit, procVars, Calls
<1>8. CASE TogglePlayPause \/ FrameStep \/ Seek
  <2>1. UNCHANGED <<launched, run, notice, task, watched, stack>>
    BY <1>8 DEF TogglePlayPause, FrameStep, Seek, procVars, taskVars, readVars
  <2>2. QED
    BY <1>1, <2>1, NestQuiet
<1>9. QED
  BY <1>2, <1>3, <1>5, <1>6, <1>7, <1>8 DEF UserStep

LEMMA NestReturn == Nested /\ ReturnStep => Nested'
<1> SUFFICES ASSUME Nested, ReturnStep PROVE Nested'
  OBVIOUS
<1>1. TypeOK /\ TypeOK'
  BY TypeReturn DEF Nested
<1>2. /\ stack # <<>> /\ stack[1].media \in Media \cup {NoMedia}
      /\ Tail(stack) \in Seq(Frames) /\ Len(Tail(stack)) = Len(stack) - 1
      /\ Len(stack) \in {1, 2}
      /\ Len(stack) = 2 => Tail(stack)[1] = stack[2]
  <2>1. stack # <<>> /\ stack \in Seq(Frames)
    BY <1>1 DEF ReturnStep, StopReturns, QuitReturns, SkipReturns, Start,
                Launch, Resumes, TypeOK
  <2>2. /\ stack[1] \in Frames /\ Tail(stack) \in Seq(Frames)
        /\ Len(Tail(stack)) = Len(stack) - 1 /\ Len(stack) \in Nat \ {0}
        /\ Len(stack) = 2 => Tail(stack)[1] = stack[2]
    BY <2>1, TopFrame
  <2>3. Len(stack) <= 2
    BY DEF Nested, NestedOnce
  <2>4. QED
    BY <2>1, <2>2, <2>3 DEF Frames
<1>3. CASE StopReturns \/ QuitReturns
  <2>1. /\ UNCHANGED <<launched, run, notice>> /\ Len(stack) = 1
        /\ stack' = Tail(stack)
    BY <1>2, <1>3 DEF StopReturns, QuitReturns, Resumes, procVars, Nested, NestedOnce
  <2>2. stack' = <<>>
    BY <1>2, <2>1, EmptySeq
  <2>3. Len(stack') = 0 /\ Awaited' = NoProc
    BY <2>2 DEF Awaited
  <2>4. QED
    BY <1>1, <2>1, <2>3, NestProcs DEF Nested, NestedOnce
<1>4. CASE SkipReturns
  <2>1. /\ PlayMedia(stack[1].media, Tail(stack)) /\ Len(stack) = 1
        /\ UNCHANGED <<launched, run, notice>>
    BY <1>2, <1>4 DEF SkipReturns, Resumes, procVars, Nested, NestedOnce
  <2>2. Len(Tail(stack)) = 0
    BY <1>2, <2>1
  <2>3. QED
    BY <1>1, <1>2, <2>1, <2>2, NestPlayMedia
<1>5. CASE Start
  <2> DEFINE b == pauseAtStart /\ HasStPause
  <2>1. /\ Terminate("launch", stack[1].media, b, Tail(stack)) /\ b \in BOOLEAN
        /\ UNCHANGED <<launched, run, notice, watched>>
    BY <1>1, <1>5, ConstantsAssumption DEF Start, procVars, readVars, TypeOK
  <2> HIDE DEF b
  <2>2. \/ Len(Tail(stack)) = 0
        \/ Len(Tail(stack)) = 1 /\ Len(stack) = 2 /\ Tail(stack)[1] = stack[2]
    BY <1>2
  <2>3. QED
    BY <1>1, <1>2, <2>1, <2>2, NestTerminate DEF Calls
<1>6. CASE Launch
  <2> DEFINE p == launched + 1
  <2>1. /\ p \in Proc /\ p # NoProc /\ launched' = p /\ task' = p
        /\ watched' = watched \cup {p} /\ stack' = Tail(stack)
        /\ run' = [run EXCEPT ![p] = "running"] /\ UNCHANGED notice
    BY <1>1, <1>6, ConstantsAssumption DEF Launch, Observe, TypeOK, Proc, NoProc
  <2>2. \A q \in Proc : /\ q > launched' => run'[q] = "unborn"
                        /\ notice'[q] = "pending" => run'[q] = "exited"
    <3>1. run[p] = "unborn" /\ notice[p] # "pending"
      BY <1>1, <2>1 DEF Nested, NestedOnce, TypeOK
    <3>2. QED
      BY <1>1, <2>1, <3>1 DEF Nested, NestedOnce, TypeOK, Proc
  <2>3. CASE Len(stack) = 1
    <3>1. stack' = <<>>
      BY <1>2, <2>1, <2>3, EmptySeq
    <3>2. Len(stack') = 0 /\ Awaited' = NoProc
      BY <3>1 DEF Awaited
    <3>3. QED
      BY <1>1, <2>2, <3>2 DEF Nested, NestedOnce
  <2>4. CASE Len(stack) = 2
    <3>1. Len(stack') = 1 /\ watched' = {p}
      BY <1>2, <2>1, <2>4 DEF Nested, NestedOnce
    <3>2. QED
      BY <1>1, <2>1, <2>2, <3>1 DEF Nested, NestedOnce
  <2>5. QED
    BY <1>2, <2>3, <2>4
<1>7. QED
  BY <1>3, <1>4, <1>5, <1>6 DEF ReturnStep

LEMMA NestServe == Nested /\ ServeStep => Nested'
<1> SUFFICES ASSUME Nested, ServeStep PROVE Nested'
  OBVIOUS
<1>1. TypeOK /\ TypeOK'
  BY TypeServe DEF Nested
<1>2. ASSUME NEW p \in Proc, Notice(p), p \in watched PROVE Nested'
  <2>1. /\ HasTerminated(p) /\ Dispatching /\ notice[p] = "pending"
        /\ notice' = [notice EXCEPT ![p] = "done"]
    BY <1>2 DEF Notice
  <2>2. UNCHANGED <<launched, run, task>> /\ watched' = {}
    BY <2>1 DEF HasTerminated, RemoveObservers, procVars, taskVars
  <2>3. \A q \in Proc : /\ q > launched' => run'[q] = "unborn"
                        /\ notice'[q] = "pending" => run'[q] = "exited"
    BY <1>1, <2>1, <2>2 DEF Nested, NestedOnce, TypeOK
  <2>4. CASE ~FollowsUp(p)
    <3>1. UNCHANGED stack
      BY <2>1, <2>4 DEF HasTerminated, Finalize
    <3>2. ~PlayerRunning => ~PlayerRunning'
      BY <2>2 DEF PlayerRunning
    <3>3. QED
      BY <1>1, <2>2, <2>3, <3>1, <3>2 DEF Nested, NestedOnce
  <2>5. CASE FollowsUp(p)
    <3> DEFINE n == NextOf[lastPlayedPath]
               f == Frame("start", n, FALSE, NoProc)
    <3>1. n \in Media
      BY <1>1, <2>5, ConstantsAssumption DEF FollowsUp, TypeOK
    <3>2. f \in Frames /\ f.pc = "start" /\ f.wait = NoProc
      BY <3>1 DEF Frame, Frames, Calls
    <3>3. stack' = <<f>> \o stack
      BY <2>1, <2>5 DEF HasTerminated, PlayNextEpisode
    <3>9. stack \in Seq(Frames)
      BY <1>1 DEF TypeOK
    <3> HIDE DEF f
    <3>4. /\ Len(stack') = Len(stack) + 1 /\ stack' # <<>> /\ stack'[1] = f
          /\ \A i \in 1 .. Len(stack) : stack'[i + 1] = stack[i]
      BY <3>2, <3>3, <3>9, StackOps
    <3>5. stack = <<>> \/ (Len(stack) = 1 /\ stack[1].wait # NoProc)
      <4>1. stack # <<>> => Len(stack) \in Nat \ {0}
        BY <3>9, EmptySeq
      <4>2. stack # <<>> => stack[1].wait # NoProc
        BY <2>1 DEF Dispatching, Awaited
      <4>3. Len(stack) <= 2
        BY DEF Nested, NestedOnce
      <4>4. stack # <<>> => Len(stack) # 2
        BY <4>2 DEF Nested, NestedOnce
      <4>5. \A k \in Nat \ {0} : k <= 2 /\ k # 2 => k = 1
        OBVIOUS
      <4>6. QED
        BY <4>1, <4>2, <4>3, <4>4, <4>5
    <3>6. CASE stack = <<>>
      <4>1. Len(stack') = 1 /\ Awaited' = NoProc
        BY <3>2, <3>4, <3>6 DEF Awaited
      <4>2. QED
        BY <1>1, <2>3, <4>1 DEF Nested, NestedOnce
    <3>7. CASE Len(stack) = 1 /\ stack[1].wait # NoProc /\ stack # <<>>
      <4>1. /\ Len(stack') = 2 /\ stack'[1].pc = "start"
            /\ stack'[1].wait = NoProc /\ stack'[2].wait # NoProc
        BY <3>2, <3>4, <3>7
      <4>2. ~PlayerRunning'
        <5>1. run[p] = "exited"
          BY <2>1 DEF Nested, NestedOnce
        <5>2. task # NoProc => task = p
          BY <1>2, <3>7 DEF Nested, NestedOnce, Awaited
        <5>3. QED
          BY <2>2, <5>1, <5>2 DEF PlayerRunning
      <4>3. Awaited' = NoProc
        BY <3>4, <4>1 DEF Awaited
      <4>4. QED
        BY <1>1, <2>2, <2>3, <4>1, <4>2, <4>3 DEF Nested, NestedOnce
    <3>8. QED
      BY <3>5, <3>6, <3>7
  <2>6. QED
    BY <2>4, <2>5
<1>3. ASSUME NEW p \in Proc, Notice(p), p \notin watched PROVE Nested'
  <2>1. /\ UNCHANGED <<launched, run, task, watched, stack>>
        /\ notice' = [notice EXCEPT ![p] = "done"]
    BY <1>3 DEF Notice, procVars, taskVars, readVars
  <2>2. \A q \in Proc : notice'[q] = "pending" => notice[q] = "pending"
    BY <1>1, <2>1 DEF TypeOK
  <2>3. QED
    BY <1>1, <2>1, <2>2, NestQuiet
<1>4. ASSUME NEW p \in Proc, ReadOutput(p) \/ Poll(p) PROVE Nested'
  <2>1. UNCHANGED <<launched, run, notice, task, watched, stack>>
    BY <1>4 DEF ReadOutput, Poll, procVars, taskVars, readVars
  <2>2. QED
    BY <1>1, <2>1, NestQuiet
<1>5. ASSUME NEW p \in Proc, NEW line \in Line, Deliver(p, line) PROVE Nested'
  <2>1. UNCHANGED <<launched, run, notice, task, watched, stack>>
    BY <1>5 DEF Deliver, procVars, taskVars, readVars
  <2>2. QED
    BY <1>1, <2>1, NestQuiet
<1>6. QED
  BY <1>2, <1>3, <1>4, <1>5 DEF ServeStep

LEMMA NestProc == Nested /\ ProcStep => Nested'
<1> SUFFICES ASSUME Nested, ProcStep PROVE Nested'
  OBVIOUS
<1>1. TypeOK /\ TypeOK'
  BY TypeProc DEF Nested
<1>2. UNCHANGED <<launched, task, watched, stack>>
  BY DEF ProcStep, Begin, Exit, Analyze, procVars, taskVars, readVars
<1>3. CASE run' = run /\ notice' = notice
  BY <1>1, <1>2, <1>3, NestQuiet
<1>4. ASSUME NEW p \in Proc, NEW status \in {0, 1}, Exit(p, status) PROVE Nested'
  <2>1. /\ run[p] = "running" /\ run' = [run EXCEPT ![p] = "exited"]
        /\ notice' = [notice EXCEPT ![p] = "pending"]
    BY <1>4 DEF Exit
  <2>2. \A q \in Proc : run'[q] = run[q] \/ (run[q] = "running" /\ run'[q] = "exited")
    BY <1>1, <2>1 DEF TypeOK
  <2>3. \A q \in Proc : notice'[q] = "pending" =>
                           notice[q] = "pending" \/ run'[q] = "exited"
    BY <1>1, <2>1 DEF TypeOK
  <2>4. QED
    BY <1>1, <1>2, <2>2, <2>3, NestQuiet
<1>5. QED
  BY <1>3, <1>4 DEF ProcStep, Begin, Analyze, procVars

LEMMA NestInit == Init => Nested
<1> SUFFICES ASSUME Init PROVE Nested
  OBVIOUS
<1>1. NestedOnce
  BY EmptyStack DEF Init, NestedOnce, Awaited
<1>2. QED
  BY <1>1, TypeInit DEF Nested

LEMMA NestStep == Nested /\ [Next]_vars => Nested'
<1> SUFFICES ASSUME Nested, UNCHANGED vars PROVE Nested'
  BY NestUser, NestReturn, NestServe, NestProc DEF Next, Ended
<1>1. TypeOK'
  BY TypeStutter DEF Nested
<1>2. UNCHANGED <<launched, run, notice, task, watched, stack>>
  BY DEF vars, procVars, taskVars, readVars
<1>3. QED
  BY <1>1, <1>2, NestQuiet

\* The strengthening that makes the bound inductive.
THEOREM NestedOnceHolds == Spec => []NestedOnce
BY NestInit, NestStep, PTL DEF Spec, Nested

\* Waits in terminate() do not pile up: the main thread is never in more than
\* one, whatever ends while it waits.
THEOREM RecursionBoundedHolds == Spec => []RecursionBounded
<1>1. Nested => RecursionBounded
  <2> SUFFICES ASSUME Nested PROVE RecursionBounded
    OBVIOUS
  <2>1. Len(stack) = 2 => Awaited = NoProc
    BY EmptyStack DEF Nested, NestedOnce, Awaited
  <2>2. QED
    BY <2>1 DEF Nested, NestedOnce, RecursionBounded
<1>2. QED
  BY <1>1, NestInit, NestStep, PTL DEF Spec
=============================================================================
