--------------------------- MODULE PlaybackSession ---------------------------
(***************************************************************************)
(* Whole playbacks, one at a time.  What MPlayerX shows, reads, keeps      *)
(* awake for and files belongs to the newest process, and Playback         *)
(* implements PlaySession, for as long as nothing is overtaken: each       *)
(* result says how much of that it needs (EndsInOrder, LinesInOrder,       *)
(* Orderly).  Auto-play-next may be on.                                    *)
(***************************************************************************)
EXTENDS PlaybackProofs

\* A process that PlayerCore has not heard the end of.
Live(p) == run[p] = "running" \/ notice[p] = "pending"

Starts == {"started", "startedPaused"}
StartLine(p) == IF stPause[p] THEN "startedPaused" ELSE "started"
Posted == ops \cup mainQ

Unborn == \A p \in Proc : p > launched => run[p] = "unborn"

-----------------------------------------------------------------------------
(* While every end is served before the next launch.                       *)

\* What is not launched yet has done nothing, an exit has a notice.
Processes ==
  \A p \in Proc :
    /\ p > launched => armed[p] = 0 /\ pipe[p] = {} /\ p \notin begun
    /\ run[p] = "exited" <=> notice[p] # "none"
    /\ byForce[p] => run[p] = "exited"

\* The newest process is observed until its end is served, no other is.
Watching ==
  /\ \A p \in Proc : Live(p) => watched = {p}
  /\ \A p \in watched : p = launched /\ Live(p)
  /\ state = "stopped" => watched = {}

\* The call that is suspended, if any, has told the newest process to stop and
\* waits for it, or there was none to wait for.
Suspended ==
  /\ Len(stack) <= 1
  /\ task # NoProc => task = launched
  /\ stack = <<>> => \A p \in watched : run[p] = "running" => task = p
  /\ stack # <<>> =>
       /\ stack[1].wait # NoProc =>
            stack[1].wait = launched /\ stack[1].wait \in signalled /\ task = NoProc
       /\ stack[1].wait = NoProc => \A p \in Proc : run[p] # "running"
       /\ stack[1].pc = "launch" =>
            stack[1].wait = NoProc /\ task = NoProc /\ currentTime = NoProc
       /\ stack[1].pc \in {"skip", "start", "launch"} => stack[1].media \in Media
       /\ stack[1].pc \in {"start", "launch"} => lastPlayedPathPre = stack[1].media

\* One read at a time, and nothing is parsed once the end is served.
Reading ==
  /\ \A p \in Proc : armed[p] <= 1
  /\ watched = {} => ops = {}

\* The path that is shown is the newest process's, until a stop has returned.
Paths ==
  \A p \in watched : /\ media[p] \in Media /\ lastPlayedPath \in {media[p], NoMedia}
                     /\ run[p] = "running" => lastPlayedPath = media[p]

\* What a call has stopped is filed under its own path, in the wait.
Stopping ==
  stack # <<>> =>
    \A p \in Proc : p = stack[1].wait =>
      /\ p \in watched => lastPlayedPath = media[p]
      /\ KeepBookmarks /\ byForce[p] /\ notice[p] = "done" =>
           bookmarks[media[p]] # NoBookmark

Ends ==
  /\ Processes /\ Watching /\ Suspended /\ Reading /\ Paths /\ Stopping

-----------------------------------------------------------------------------
(* While every line is delivered before the next launch, too.              *)

\* What was shown and filed was reported for the file it is filed under.
Lines ==
  /\ \A x \in Posted : x[1] = launched
  /\ \A p \in watched : currentTime \in {NoProc, p}
  /\ \A m \in Media : bookmarks[m] \in Proc =>
       bookmarks[m] <= launched /\ media[bookmarks[m]] = m

-----------------------------------------------------------------------------
(* And while every line is delivered before the end is served.             *)

\* A process prints one started line; until it is delivered the state is opened.
StartsOnce ==
  \A p \in watched, l \in Starts :
    /\ p \notin begun => state = "opened"
    /\ l \in pipe[p] \/ <<p, l>> \in Posted =>
         l = StartLine(p) /\ p \in begun /\ state = "opened"
    /\ ~(l \in pipe[p] /\ <<p, l>> \in Posted)
    /\ <<p, l>> \notin ops \cap mainQ

Awake == state \in {"opened", "playing"} => power

Shown ==
  /\ watched = {} => state = "stopped" /\ mainQ = {}
  /\ StartsOnce /\ Awake

\* The inductive invariant.
Whole ==
  /\ TypeOK /\ Unborn
  /\ EndsInOrder => Ends
  /\ LinesInOrder => Lines
  /\ Orderly => Shown

-----------------------------------------------------------------------------
(* What is not in order stays so.                                          *)

\* Which steps start a process or see one exit.
LEMMA RunSteps ==
  [Next]_vars => \/ UNCHANGED <<launched, run, byForce>>
                 \/ Launch
                 \/ \E p \in Proc, status \in {0, 1} : Exit(p, status)
BY DEF vars, procVars, Next, UserStep, Open, Skip, Replay, TogglePlayPause,
       FrameStep, Seek, Close, Quit, ReturnStep, StopReturns, QuitReturns,
       SkipReturns, Start, ServeStep, Notice, HasTerminated, ReadOutput, Poll,
       Deliver, ProcStep, Begin, Analyze, Ended

\* Which steps overtake something.
LEMMA LateSteps ==
  [Next]_vars => UNCHANGED late \/ Launch \/ \E p \in Proc : Notice(p)
BY DEF vars, Next, UserStep, Open, Skip, Replay, TogglePlayPause, FrameStep, Seek,
       Close, Quit, ReturnStep, StopReturns, QuitReturns, SkipReturns, Start,
       ServeStep, ReadOutput, Poll, Deliver, ProcStep, Begin, Exit, Analyze, Ended

LEMMA UnbornStep == TypeOK /\ Unborn /\ [Next]_vars => Unborn'
<1>1. ASSUME TypeOK, Unborn, Launch PROVE Unborn'
  BY <1>1 DEF Launch, Unborn, TypeOK, Proc
<1>2. ASSUME TypeOK, Unborn, NEW p \in Proc, NEW status \in {0, 1}, Exit(p, status)
      PROVE  Unborn'
  BY <1>2 DEF Exit, Unborn, TypeOK
<1>3. QED
  BY <1>1, <1>2, RunSteps DEF Unborn

\* A player that came to its end first has done so for good, and so has what
\* was overtaken.
LEMMA InOrderBefore ==
  ASSUME TypeOK, Unborn, [Next]_vars
  PROVE  /\ EndsInOrder' => EndsInOrder
         /\ LinesInOrder' => LinesInOrder
         /\ Orderly' => Orderly
<1>1. ASSUME NEW p \in Proc, run[p] = "exited"
      PROVE  run'[p] = "exited" /\ byForce'[p] = byForce[p]
  <2>1. CASE Launch
    BY <1>1, <2>1 DEF Launch, Unborn, TypeOK, Proc
  <2>2. ASSUME NEW q \in Proc, NEW n \in {0, 1}, Exit(q, n)
        PROVE  run'[p] = "exited" /\ byForce'[p] = byForce[p]
    BY <1>1, <2>2 DEF Exit, TypeOK
  <2>3. QED
    BY <1>1, <2>1, <2>2, RunSteps
<1>2. signalled \subseteq signalled'
  <2>1. ASSUME NEW pc, NEW m, NEW b, NEW rest, Terminate(pc, m, b, rest)
        PROVE  signalled \subseteq signalled'
    BY <2>1 DEF Terminate
  <2>2. ASSUME NEW m, NEW rest, PlayMedia(m, rest)
        PROVE  signalled \subseteq signalled'
    BY <2>1, <2>2 DEF PlayMedia, PerformStop, taskVars
  <2>3. CASE UserStep \/ ReturnStep
    <3>1. CASE TogglePlayPause \/ FrameStep \/ Seek
      BY <3>1 DEF TogglePlayPause, FrameStep, Seek, taskVars
    <3>2. CASE \/ \E m \in Media : Open(m) \/ Skip(m)
               \/ Replay \/ Close \/ Quit
      BY <2>1, <2>2, <3>2 DEF Open, Skip, Replay, Close, Quit, PerformStop
    <3>3. CASE ReturnStep
      BY <2>1, <2>2, <3>3 DEF ReturnStep, StopReturns, QuitReturns, SkipReturns,
         Start, Launch, taskVars
    <3>4. QED
      BY <2>3, <3>1, <3>2, <3>3 DEF UserStep
  <2>4. CASE ServeStep \/ ProcStep \/ Ended \/ UNCHANGED vars
    BY <2>4 DEF vars, taskVars, ServeStep, Notice, HasTerminated, ReadOutput, Poll,
       Deliver, ProcStep, Begin, Exit, Analyze, Ended
  <2>5. QED
    BY <2>3, <2>4 DEF Next
<1>3. StopsWin' => StopsWin
  BY <1>1, <1>2 DEF StopsWin, TypeOK
<1>4. late \subseteq late'
  <2>1. CASE Launch
    BY <2>1 DEF Launch
  <2>2. ASSUME NEW p \in Proc, Notice(p) PROVE late \subseteq late'
    BY <2>2 DEF Notice
  <2>3. QED
    BY <2>1, <2>2, LateSteps
<1>5. QED
  BY <1>3, <1>4 DEF EndsInOrder, LinesInOrder, Orderly

\* What a launch that comes in order finds.
LEMMA LaunchFinds ==
  ASSUME Launch
  PROVE  /\ EndsInOrder' => \A p \in Proc : notice[p] # "pending"
         /\ LinesInOrder' => Posted = {}
BY DEF Launch, Overtaken, EndsInOrder, LinesInOrder, Posted

-----------------------------------------------------------------------------
(* Ends in order: the calls.                                               *)

\* What a user event finds.
LEMMA UserFinds ==
  ASSUME TypeOK, Ends, UserTurn
  PROVE  /\ stack = <<>> /\ ~quitted
         /\ \A p \in Proc : run[p] = "running" => task = p
         /\ PlayerRunning => task = launched /\ watched = {task}
<1>1. stack = <<>> /\ ~quitted
  BY DEF UserTurn
<1>2. ASSUME NEW p \in Proc, run[p] = "running" PROVE task = p
  BY <1>1, <1>2 DEF Ends, Watching, Suspended, Live
<1>3. PlayerRunning => task = launched /\ watched = {task}
  BY DEF Ends, Watching, Suspended, Live, PlayerRunning, TypeOK
<1>4. QED
  BY <1>1, <1>2, <1>3

\* What a call that goes on finds: no player runs.
LEMMA ReturnFinds ==
  ASSUME TypeOK, Ends, NEW pc \in Calls, Resumes(pc)
  PROVE  /\ stack # <<>> /\ stack[1] \in Frames /\ stack[1].pc = pc
         /\ Tail(stack) = <<>>
         /\ \A p \in Proc : run[p] # "running"
         /\ ~PlayerRunning
<1>1. stack # <<>> /\ stack[1].pc = pc
  BY DEF Resumes
<1>2. stack[1] \in Frames /\ Tail(stack) = <<>>
  <2>1. stack \in Seq(Frames) /\ Len(stack) <= 1
    BY DEF Ends, Suspended, TypeOK
  <2>2. /\ stack[1] \in Frames /\ Tail(stack) \in Seq(Frames)
        /\ Len(Tail(stack)) = Len(stack) - 1 /\ Len(stack) \in Nat \ {0}
    BY <1>1, <2>1, TopFrame
  <2>3. Len(Tail(stack)) = 0
    BY <2>1, <2>2
  <2>4. QED
    BY <2>2, <2>3, EmptySeq
<1>3. ASSUME NEW p \in Proc PROVE run[p] # "running"
  <2>1. CASE stack[1].wait = NoProc
    BY <1>1, <2>1 DEF Ends, Suspended
  <2>2. CASE stack[1].wait # NoProc
    <3>1. run[launched] = "exited"
      BY <1>1, <2>2 DEF Resumes, Awaited, Ends, Suspended
    <3>2. QED
      BY <3>1 DEF Ends, Watching, Live
  <2>3. QED
    BY <2>1, <2>2
<1>4. ~PlayerRunning
  BY <1>3 DEF PlayerRunning, TypeOK
<1>5. QED
  BY <1>1, <1>2, <1>3, <1>4

\* With no call suspended, a player that runs and is observed is the task.
LEMMA NoneSuspended ==
  ASSUME stack' = <<>>, task' # NoProc => task' = launched',
         \A p \in watched' : run'[p] = "running" => task' = p
  PROVE  Suspended' /\ Stopping'
<1>1. Len(stack') = 0
  BY EmptyStack
<1>2. QED
  BY <1>1 DEF Suspended, Stopping

\* A step that moves a call on, and touches nothing of the processes, of what
\* they printed and of what was filed.
LEMMA CallMoves ==
  ASSUME TypeOK, Ends, Suspended', Stopping',
         UNCHANGED <<procVars, notice, readVars, logVars, state>>,
         \/ UNCHANGED lastPlayedPath
         \/ lastPlayedPath' = NoMedia /\ \A p \in Proc : run[p] # "running"
  PROVE  Ends'
<1>1. /\ UNCHANGED <<launched, run, media, stPause, begun, byForce, notice>>
      /\ UNCHANGED <<watched, armed, pipe, ops, mainQ, state>>
  BY DEF procVars, readVars, logVars
<1>2. Processes' /\ Watching' /\ Reading'
  BY <1>1 DEF Ends, Processes, Watching, Live, Reading
<1>3. Paths'
  BY <1>1 DEF Ends, Paths, Watching, TypeOK, Proc
<1>4. QED
  BY <1>2, <1>3 DEF Ends

\* terminate() leaves the call waiting for the newest process, if it runs.
LEMMA TerminateSuspends ==
  ASSUME TypeOK, Ends, NEW pc \in Calls, NEW m \in Media \cup {NoMedia},
         NEW b \in BOOLEAN, NEW rest \in Seq(Frames), Len(rest) = 0,
         Terminate(pc, m, b, rest),
         UNCHANGED <<launched, run, media, byForce, notice, watched>>,
         \A p \in Proc : run[p] = "running" => task = p,
         PlayerRunning => task = launched /\ UNCHANGED lastPlayedPath,
         pc = "launch" => ~PlayerRunning /\ currentTime' = NoProc,
         pc \in {"skip", "start", "launch"} => m \in Media,
         pc \in {"start", "launch"} => lastPlayedPathPre' = m
  PROVE  Suspended' /\ Stopping'
<1>1. /\ task' = NoProc /\ stack' # <<>> /\ Len(stack') = Len(rest) + 1
      /\ stack'[1].pc = pc /\ stack'[1].media = m /\ stack'[1].wait = Waited
  BY TerminateType, ZenonT(120)
<1>2. Len(stack') = 1
  BY <1>1
<1>3. PlayerRunning => Waited = launched /\ launched \in signalled' /\ launched # NoProc
  BY DEF Waited, Terminate, PlayerRunning
<1>4. ~PlayerRunning => Waited = NoProc /\ \A p \in Proc : run[p] # "running"
  BY DEF Waited, PlayerRunning, TypeOK, Proc, NoProc
<1>5. Suspended'
  BY <1>1, <1>2, <1>3, <1>4 DEF Suspended
<1>6. ASSUME NEW p \in Proc, p = Waited
      PROVE  /\ p \in watched' => lastPlayedPath' = media'[p]
             /\ notice'[p] # "done"
  <2>1. PlayerRunning /\ run[p] = "running"
    BY <1>6 DEF Waited, PlayerRunning, Proc, NoProc
  <2>2. QED
    BY <2>1 DEF Ends, Paths, Processes
<1>7. Stopping'
  BY <1>1, <1>6 DEF Stopping
<1>8. QED
  BY <1>5, <1>7

\* PlayerController.playMedia, called with nothing under it.
LEMMA PlayMediaSuspends ==
  ASSUME TypeOK, Ends, NEW m \in Media, NEW rest \in Seq(Frames), Len(rest) = 0,
         PlayMedia(m, rest),
         UNCHANGED <<launched, run, media, byForce, notice, watched>>,
         \A p \in Proc : run[p] = "running" => task = p,
         PlayerRunning => task = launched /\ UNCHANGED lastPlayedPath
  PROVE  Suspended' /\ Stopping'
<1>1. lastPlayedPathPre' = m
  BY DEF PlayMedia
<1>2. CASE state # "stopped"
  <2>1. Terminate("start", m, FALSE, rest)
    BY <1>2 DEF PlayMedia, PerformStop
  <2>2. QED
    BY <1>1, <2>1, TerminateSuspends DEF Calls
<1>3. CASE state = "stopped"
  <2>1. /\ UNCHANGED task
        /\ stack' # <<>> /\ Len(stack') = Len(rest) + 1
        /\ stack'[1].pc = "start"
        /\ stack'[1].media = m /\ stack'[1].wait = NoProc
    BY <1>3, PlayMediaType
  <2>2. Len(stack') = 1 /\ \A p \in Proc : run[p] # "running"
    BY <1>3, <2>1 DEF Ends, Watching, Live
  <2>3. Suspended'
    BY <1>1, <2>1, <2>2 DEF Suspended, Ends
  <2>4. Stopping'
    BY <2>1 DEF Stopping, Proc, NoProc
  <2>5. QED
    BY <2>3, <2>4
<1>4. QED
  BY <1>2, <1>3

\* What togglePause makes of each state.
LEMMA ToggleStates ==
  TypeOK /\ TogglePause =>
    /\ state = "playing" => state' = "paused"
    /\ state = "paused" => state' = "playing"
    /\ state \notin {"playing", "paused"} => state' = state
BY Zenon DEF TogglePause

LEMMA EndsUser == TypeOK /\ Ends /\ UserStep => Ends'
<1> SUFFICES ASSUME TypeOK, Ends, UserStep PROVE Ends'
  OBVIOUS
<1>1. UserTurn
  BY DEF UserStep, Open, Skip, Replay, TogglePlayPause, FrameStep, Seek, Close, Quit
<1>2. /\ stack = <<>> /\ ~quitted
      /\ \A p \in Proc : run[p] = "running" => task = p
      /\ PlayerRunning => task = launched /\ watched = {task}
  BY <1>1, UserFinds
<1>3. ASSUME NEW m \in Media, Open(m) PROVE Ends'
  <2>1. /\ PlayMedia(m, <<>>) /\ UNCHANGED lastPlayedPath
        /\ UNCHANGED <<launched, run, media, byForce, notice, watched>>
    BY <1>3 DEF Open, procVars, readVars
  <2>2. Suspended' /\ Stopping'
    BY <1>2, <2>1, PlayMediaSuspends, EmptyStack
  <2>3. QED
    BY <1>3, <2>1, <2>2, CallMoves DEF Open
<1>4. CASE Replay
  <2>1. /\ PlayMedia(lastPlayedPath, <<>>) /\ UNCHANGED lastPlayedPath
        /\ UNCHANGED <<launched, run, media, byForce, notice, watched>>
        /\ lastPlayedPath \in Media
    BY <1>4 DEF Replay, procVars, readVars, TypeOK
  <2>2. Suspended' /\ Stopping'
    BY <1>2, <2>1, PlayMediaSuspends, EmptyStack
  <2>3. QED
    BY <1>4, <2>1, <2>2, CallMoves DEF Replay
<1>5. ASSUME NEW m \in Media, Skip(m) PROVE Ends'
  <2>1. /\ Terminate("skip", m, FALSE, <<>>) /\ UNCHANGED lastPlayedPath
        /\ UNCHANGED <<launched, run, media, byForce, notice, watched>>
    BY <1>5 DEF Skip, PerformStop, procVars, readVars, pathVars
  <2>2. Suspended' /\ Stopping'
    BY <1>2, <2>1, TerminateSuspends, EmptyStack DEF Calls
  <2>3. QED
    BY <1>5, <2>1, <2>2, CallMoves DEF Skip
<1>6. CASE Close
  <2>1. /\ Terminate("stop", NoMedia, FALSE, <<>>) /\ UNCHANGED lastPlayedPath
        /\ UNCHANGED <<launched, run, media, byForce, notice, watched>>
    BY <1>6 DEF Close, PerformStop, procVars, readVars, pathVars
  <2>2. Suspended' /\ Stopping'
    BY <1>2, <2>1, TerminateSuspends, EmptyStack DEF Calls
  <2>3. QED
    BY <1>6, <2>1, <2>2, CallMoves DEF Close
<1>7. CASE Quit
  <2>1. /\ Terminate("quit", NoMedia, FALSE, <<>>) /\ UNCHANGED lastPlayedPath
        /\ UNCHANGED <<launched, run, media, byForce, notice, watched>>
    BY <1>7 DEF Quit, PerformStop, procVars, readVars, pathVars
  <2>2. Suspended' /\ Stopping'
    BY <1>2, <2>1, TerminateSuspends, EmptyStack DEF Calls
  <2>3. QED
    BY <1>7, <2>1, <2>2, CallMoves DEF Quit
<1>8. CASE TogglePlayPause \/ FrameStep
  <2>1. state' = "stopped" => state = "stopped"
    BY <1>8, ToggleStates DEF TogglePlayPause, FrameStep
  <2>2. /\ UNCHANGED <<launched, run, media, stPause, begun, byForce, notice>>
        /\ UNCHANGED <<task, signalled, watched, armed, pipe, ops, mainQ>>
        /\ UNCHANGED <<currentTime, lastPlayedPath, lastPlayedPathPre>>
        /\ UNCHANGED <<bookmarks, stack>>
    BY <1>8 DEF TogglePlayPause, FrameStep, procVars, taskVars, readVars, logVars,
                pathVars, bookVars
  <2>3. Processes' /\ Watching' /\ Suspended'
    BY <2>1, <2>2 DEF Ends, Processes, Watching, Live, Suspended
  <2>4. Reading' /\ Paths' /\ Stopping'
    BY <2>2 DEF Ends, Reading, Paths, Stopping
  <2>5. QED
    BY <2>3, <2>4 DEF Ends
<1>9. CASE Seek
  <2>1. /\ UNCHANGED <<launched, run, media, stPause, begun, byForce, notice>>
        /\ UNCHANGED <<task, signalled, watched, armed, pipe, state>>
        /\ UNCHANGED <<lastPlayedPath, lastPlayedPathPre, bookmarks, stack>>
        /\ ops' = {}
    BY <1>9 DEF Seek, StopAnalyzer, procVars, taskVars, readVars, pathVars, bookVars
  <2>2. Processes' /\ Watching' /\ Suspended'
    BY <1>2, <2>1 DEF Ends, Processes, Watching, Live, Suspended
  <2>3. Reading' /\ Paths' /\ Stopping'
    BY <2>1 DEF Ends, Reading, Paths, Stopping
  <2>4. QED
    BY <2>2, <2>3 DEF Ends
<1>10. QED
  BY <1>3, <1>4, <1>5, <1>6, <1>7, <1>8, <1>9 DEF UserStep

LEMMA EndsReturn ==
  TypeOK /\ Unborn /\ Ends /\ EndsInOrder' /\ ReturnStep => Ends'
<1> SUFFICES ASSUME TypeOK, Unborn, Ends, EndsInOrder', ReturnStep PROVE Ends'
  OBVIOUS
<1>1. \E pc \in Calls : Resumes(pc)
  BY DEF ReturnStep, StopReturns, QuitReturns, SkipReturns, Start, Launch, Calls
<1>2. /\ stack # <<>> /\ stack[1] \in Frames /\ Tail(stack) = <<>> /\ ~PlayerRunning
      /\ \A p \in Proc : run[p] # "running"
  BY <1>1, ReturnFinds
<1>3. /\ stack[1].media \in Media \cup {NoMedia}
      /\ stack[1].pc \in {"skip", "start", "launch"} => stack[1].media \in Media
      /\ stack[1].pc \in {"start", "launch"} => lastPlayedPathPre = stack[1].media
      /\ task # NoProc => task = launched
  BY <1>2 DEF Frames, Ends, Suspended
<1>4. CASE StopReturns \/ QuitReturns
  <2>1. /\ UNCHANGED <<procVars, notice, taskVars, readVars, logVars, state>>
        /\ stack' = <<>> /\ lastPlayedPath' = NoMedia
    BY <1>2, <1>4 DEF StopReturns, QuitReturns
  <2>2. UNCHANGED <<launched, run, task, watched>> /\ watched \subseteq Proc
    BY <2>1 DEF taskVars, procVars, readVars, TypeOK
  <2>3. Suspended' /\ Stopping'
    BY <1>2, <1>3, <2>1, <2>2, NoneSuspended
  <2>4. QED
    BY <1>2, <2>1, <2>3, CallMoves
<1>5. CASE SkipReturns
  <2>1. /\ PlayMedia(stack[1].media, <<>>) /\ stack[1].media \in Media
        /\ UNCHANGED <<launched, run, media, byForce, notice, watched>>
    BY <1>2, <1>3, <1>5 DEF SkipReturns, Resumes, procVars, readVars
  <2>2. Suspended' /\ Stopping'
    BY <1>2, <2>1, PlayMediaSuspends, EmptyStack
  <2>3. QED
    BY <1>2, <1>5, <2>2, CallMoves DEF SkipReturns
<1>6. CASE Start
  <2> DEFINE b == pauseAtStart /\ HasStPause
             m == stack[1].media
  <2>1. /\ Terminate("launch", m, b, <<>>) /\ b \in BOOLEAN /\ m \in Media
        /\ UNCHANGED <<launched, run, media, byForce, notice, watched>>
        /\ UNCHANGED <<lastPlayedPath, lastPlayedPathPre>>
        /\ lastPlayedPathPre = m /\ currentTime' = NoProc
    BY <1>2, <1>3, <1>6, ConstantsAssumption
       DEF Start, Resumes, procVars, readVars, pathVars, TypeOK
  <2> HIDE DEF b, m
  <2>2. Suspended' /\ Stopping'
    BY <1>2, <2>1, TerminateSuspends, EmptyStack DEF Calls
  <2>3. QED
    BY <1>6, <2>1, <2>2, CallMoves DEF Start
<1>7. CASE Launch
  <2> DEFINE p == launched + 1
  <2>1. /\ p \in Proc /\ launched' = p /\ task' = p
        /\ run' = [run EXCEPT ![p] = "running"]
        /\ media' = [media EXCEPT ![p] = stack[1].media]
        /\ watched' = watched \cup {p} /\ armed' = [armed EXCEPT ![p] = 1]
        /\ state' = "opened"
        /\ lastPlayedPath' = lastPlayedPathPre /\ stack' = Tail(stack)
    BY <1>7, ConstantsAssumption DEF Launch, Observe, TypeOK, Proc
  <2>2. UNCHANGED <<begun, byForce, notice, signalled, pipe, ops, bookmarks>>
    BY <1>7 DEF Launch, logVars, bookVars
  <2>3. stack[1].media \in Media /\ lastPlayedPathPre = stack[1].media
    BY <1>2, <1>3, <1>7 DEF Launch, Resumes
  <2>4. p > launched /\ p # launched /\ launched \in Nat
    BY DEF TypeOK
  <2>5. /\ run[p] = "unborn" /\ notice[p] = "none" /\ ~byForce[p]
        /\ armed[p] = 0 /\ pipe[p] = {} /\ p \notin begun
    BY <2>1, <2>4 DEF Unborn, Ends, Processes, TypeOK
  <2>6. watched = {} /\ ops = {} /\ \A q \in Proc : ~Live(q)
    BY <1>2, <1>7, LaunchFinds DEF Ends, Watching, Live, TypeOK, Reading
  <2> HIDE DEF p
  <2>7. Processes'
    BY <2>1, <2>2, <2>4, <2>5 DEF Ends, Processes, TypeOK, Proc
  <2>8. Watching'
    BY <2>1, <2>2, <2>5, <2>6 DEF Watching, Live, TypeOK
  <2>9. Suspended' /\ Stopping'
    <3>1. stack' = <<>> /\ task' = p /\ launched' = p /\ watched' = {p}
      BY <1>2, <2>1, <2>6
    <3>2. QED
      BY <3>1, NoneSuspended
  <2>10. Reading'
    BY <2>1, <2>2, <2>6 DEF Ends, Reading, TypeOK
  <2>11. Paths'
    BY <2>1, <2>3, <2>6 DEF Paths, TypeOK
  <2>12. QED
    BY <2>7, <2>8, <2>9, <2>10, <2>11 DEF Ends
<1>8. QED
  BY <1>4, <1>5, <1>6, <1>7 DEF ReturnStep

-----------------------------------------------------------------------------
(* Ends in order: what the run loop serves, the processes and the workers. *)

\* The termination notice is that of the observed process, and only a playback
\* that no call is about to replace is followed by the next episode.
LEMMA NoticeFinds ==
  ASSUME TypeOK, Ends, EndsInOrder, NEW p \in Proc, Notice(p)
  PROVE  /\ watched = {p} /\ p = launched /\ run[p] = "exited" /\ ~quitted
         /\ HasTerminated(p) /\ \A q \in Proc : Live(q) => q = p
         /\ lastPlayedPath \in {media[p], NoMedia} /\ media[p] \in Media
         /\ FollowsUp(p) => stack = <<>> /\ NextOf[lastPlayedPath] \in Media
         /\ stack # <<>> => stack[1].wait = p /\ lastPlayedPath = media[p]
<1>1. watched = {p} /\ p = launched /\ \A q \in Proc : Live(q) => q = p
  BY DEF Notice, Ends, Watching, Live
<1>2. run[p] = "exited" /\ ~quitted
  BY DEF Notice, Dispatching, Ends, Processes
<1>3. HasTerminated(p)
  BY <1>1 DEF Notice
<1>4. lastPlayedPath \in {media[p], NoMedia} /\ media[p] \in Media
  BY <1>1 DEF Ends, Paths
<1>5. stack # <<>> => stack[1].wait = p /\ stack[1].wait \in signalled
  BY <1>1 DEF Notice, Dispatching, Awaited, Ends, Suspended
<1>6. ASSUME FollowsUp(p) PROVE stack = <<>> /\ NextOf[lastPlayedPath] \in Media
  <2>1. p \notin signalled
    BY <1>2, <1>6 DEF FollowsUp, EndsInOrder, StopsWin
  <2>2. NextOf[lastPlayedPath] \in Media
    BY <1>4, <1>6, ConstantsAssumption DEF FollowsUp
  <2>3. QED
    BY <1>5, <2>1, <2>2
<1>7. stack # <<>> => lastPlayedPath = media[p]
  BY <1>1, <1>5 DEF Ends, Stopping
<1>8. QED
  BY <1>1, <1>2, <1>3, <1>4, <1>5, <1>6, <1>7

LEMMA EndsNotice ==
  ASSUME TypeOK, Ends, EndsInOrder, NEW p \in Proc, Notice(p)
  PROVE  Ends'
<1>1. /\ watched = {p} /\ p = launched /\ run[p] = "exited" /\ ~quitted
      /\ HasTerminated(p) /\ \A q \in Proc : Live(q) => q = p
      /\ lastPlayedPath \in {media[p], NoMedia} /\ media[p] \in Media
      /\ FollowsUp(p) => stack = <<>> /\ NextOf[lastPlayedPath] \in Media
      /\ stack # <<>> => stack[1].wait = p /\ lastPlayedPath = media[p]
  BY NoticeFinds
<1>2. /\ UNCHANGED <<launched, run, media, stPause, begun, byForce>>
      /\ UNCHANGED <<task, signalled, armed, pipe, currentTime, lastPlayedPath>>
      /\ notice' = [notice EXCEPT ![p] = "done"]
      /\ watched' = {} /\ state' = "stopped" /\ ops' = {}
      /\ bookmarks' = BookmarkAfter(p)
  BY <1>1 DEF Notice, HasTerminated, RemoveObservers, StopAnalyzer, procVars, taskVars
<1>3. Processes'
  BY <1>1, <1>2 DEF Ends, Processes, TypeOK
<1>4. Watching'
  BY <1>1, <1>2 DEF Watching, Live, TypeOK
<1>5. Reading' /\ Paths'
  BY <1>2 DEF Ends, Reading, Paths
<1>6. \A q \in Proc : run[q] # "running"
  BY <1>1 DEF Live, TypeOK
<1>7. CASE FollowsUp(p)
  <2> DEFINE f == Frame("start", NextOf[lastPlayedPath], FALSE, NoProc)
  <2>1. /\ f \in Frames /\ f.pc = "start" /\ f.media = NextOf[lastPlayedPath]
        /\ f.wait = NoProc
    BY <1>1, <1>7 DEF Frame, Frames, Calls
  <2>2. stack' = <<f>> \o <<>> /\ lastPlayedPathPre' = NextOf[lastPlayedPath]
    BY <1>1, <1>7 DEF HasTerminated, PlayNextEpisode
  <2> HIDE DEF f
  <2>3. stack' # <<>> /\ Len(stack') = 1 /\ stack'[1] = f
    BY <2>1, <2>2, StackOps, EmptyStack
  <2>4. Suspended'
    BY <1>1, <1>2, <1>6, <1>7, <2>1, <2>2, <2>3 DEF Ends, Suspended
  <2>5. Stopping'
    BY <2>1, <2>3 DEF Stopping, Proc, NoProc
  <2>6. QED
    BY <1>3, <1>4, <1>5, <2>4, <2>5 DEF Ends
<1>8. CASE ~FollowsUp(p)
  <2>1. UNCHANGED <<stack, lastPlayedPathPre>>
    BY <1>1, <1>8 DEF HasTerminated, Finalize
  <2>2. Suspended'
    BY <1>1, <1>2, <1>6, <2>1 DEF Ends, Suspended
  <2>3. Stopping'
    <3> SUFFICES ASSUME stack # <<>>, KeepBookmarks, byForce[p]
                 PROVE  bookmarks'[media[p]] # NoBookmark
      BY <1>1, <1>2, <2>1 DEF Stopping
    <3>1. bookmarks' = [bookmarks EXCEPT ![media[p]] = currentTime]
      BY <1>1, <1>2, ConstantsAssumption DEF BookmarkAfter
    <3>2. QED
      BY <1>1, <3>1 DEF TypeOK, Proc, NoProc, NoBookmark
  <2>4. QED
    BY <1>3, <1>4, <1>5, <2>2, <2>3 DEF Ends
<1>9. QED
  BY <1>7, <1>8

\* A step that leaves the calls, the paths and what was filed alone.
LEMMA OutputMoves ==
  ASSUME TypeOK, Ends,
         UNCHANGED <<launched, run, media, byForce, notice, task, signalled>>,
         UNCHANGED <<watched, currentTime, pathVars, bookmarks, stack>>,
         state' = "stopped" => state = "stopped",
         Processes', Reading'
  PROVE  Ends'
<1>1. UNCHANGED <<lastPlayedPath, lastPlayedPathPre>>
  BY DEF pathVars
<1>2. Watching' /\ Suspended'
  BY <1>1 DEF Ends, Watching, Live, Suspended
<1>3. Paths' /\ Stopping'
  BY <1>1 DEF Ends, Paths, Stopping
<1>4. QED
  BY <1>2, <1>3 DEF Ends

\* A read that is observed is of the newest process, whose pipe is read next.
LEMMA ReadFinds ==
  ASSUME TypeOK, Ends, NEW p \in Proc, ReadOutput(p)
  PROVE  \/ /\ p = launched /\ watched = {p}
            /\ ops' = ops \cup ({p} \X pipe[p]) /\ armed' = armed
         \/ armed' = [armed EXCEPT ![p] = @ - 1] /\ UNCHANGED ops
<1>1. CASE p \in watched /\ PlayerRunning
  <2>1. p = launched /\ task = p /\ watched = {p}
    BY <1>1 DEF Ends, Watching, Suspended, PlayerRunning
  <2>2. ops' = ops \cup ({p} \X pipe[p])
    BY <1>1 DEF ReadOutput
  <2>3. armed' = [[armed EXCEPT ![p] = @ - 1] EXCEPT ![task] = @ + 1]
    BY <1>1 DEF ReadOutput
  <2>4. armed' = armed
    BY <2>1, <2>3 DEF TypeOK
  <2>5. QED
    BY <2>1, <2>2, <2>4
<1>2. CASE ~(p \in watched /\ PlayerRunning)
  BY <1>2 DEF ReadOutput
<1>3. QED
  BY <1>1, <1>2

LEMMA EndsRead ==
  ASSUME TypeOK, Ends, NEW p \in Proc, ReadOutput(p)
  PROVE  Ends'
<1>1. /\ UNCHANGED <<launched, run, media, stPause, begun, byForce, notice>>
      /\ UNCHANGED <<task, signalled, watched, state, currentTime, pathVars, stack>>
      /\ UNCHANGED bookmarks
      /\ armed[p] > 0 /\ pipe' = [pipe EXCEPT ![p] = {}]
  BY DEF ReadOutput, procVars, taskVars, bookVars
<1>2. \/ /\ p = launched /\ watched = {p}
         /\ ops' = ops \cup ({p} \X pipe[p]) /\ armed' = armed
      \/ armed' = [armed EXCEPT ![p] = @ - 1] /\ UNCHANGED ops
  BY ReadFinds
<1>3. p <= launched
  BY <1>1 DEF Ends, Processes, TypeOK, Proc
<1>4. Processes'
  BY <1>1, <1>2, <1>3 DEF Ends, Processes, TypeOK
<1>5. Reading'
  <2>1. ASSUME NEW q \in Proc PROVE armed'[q] <= 1
    <3>1. armed[q] \in Nat /\ armed[q] <= 1
      BY DEF Ends, Reading, TypeOK
    <3>2. armed'[q] \in {armed[q], armed[q] - 1}
      BY <1>2 DEF TypeOK
    <3>3. QED
      BY <3>1, <3>2
  <2>2. watched' = {} => ops' = {}
    BY <1>1, <1>2 DEF Ends, Reading
  <2>3. QED
    BY <2>1, <2>2 DEF Reading
<1>6. QED
  BY <1>1, <1>4, <1>5, OutputMoves

LEMMA EndsPoll ==
  ASSUME TypeOK, Ends, NEW t \in Proc, Poll(t)
  PROVE  Ends'
<1>1. /\ UNCHANGED <<launched, run, media, stPause, begun, byForce, notice>>
      /\ UNCHANGED <<task, signalled, watched, armed, ops, state, currentTime>>
      /\ UNCHANGED <<pathVars, bookmarks, stack>>
      /\ PlayerRunning /\ pipe' = [pipe EXCEPT ![task] = @ \cup {"time"}]
  BY DEF Poll, procVars, taskVars, readVars, bookVars
<1>2. task \in Proc /\ task = launched
  BY <1>1 DEF PlayerRunning, Ends, Suspended, TypeOK
<1>3. Processes' /\ Reading'
  BY <1>1, <1>2 DEF Ends, Processes, Reading, TypeOK, Proc
<1>4. QED
  BY <1>1, <1>3, OutputMoves

\* What a line makes of the state.
LEMMA DeliverStates ==
  ASSUME TypeOK, NEW p \in Proc, NEW line \in Line, Deliver(p, line)
  PROVE  /\ line = "started" => state' = "playing"
         /\ line = "startedPaused" => state' = "paused"
         /\ line = "time" => state' = state
BY Zenon DEF Deliver

LEMMA EndsDeliver ==
  ASSUME TypeOK, Ends, NEW p \in Proc, NEW line \in Line, Deliver(p, line)
  PROVE  Ends'
<1>1. /\ UNCHANGED <<launched, run, media, stPause, begun, byForce, notice>>
      /\ UNCHANGED <<task, signalled, watched, armed, pipe, ops>>
      /\ UNCHANGED <<lastPlayedPath, lastPlayedPathPre, bookmarks, stack>>
      /\ stack # <<>> => stack[1].wait # NoProc
  BY DEF Deliver, Dispatching, Awaited, procVars, taskVars, readVars, pathVars,
         bookVars
<1>2. state' = "stopped" => state = "stopped"
  BY DeliverStates DEF Line
<1>3. Processes' /\ Watching' /\ Reading'
  BY <1>1, <1>2 DEF Ends, Processes, Watching, Live, Reading
<1>4. Suspended'
  BY <1>1 DEF Ends, Suspended
<1>5. Paths' /\ Stopping'
  BY <1>1 DEF Ends, Paths, Stopping
<1>6. QED
  BY <1>3, <1>4, <1>5 DEF Ends

LEMMA EndsServe == TypeOK /\ Ends /\ EndsInOrder /\ ServeStep => Ends'
BY EndsNotice, EndsRead, EndsPoll, EndsDeliver DEF ServeStep

LEMMA EndsBegin ==
  ASSUME TypeOK, Ends, NEW p \in Proc, Begin(p)
  PROVE  Ends'
<1>1. /\ UNCHANGED <<launched, run, media, stPause, byForce, notice>>
      /\ UNCHANGED <<task, signalled, watched, armed, ops, state, currentTime>>
      /\ UNCHANGED <<pathVars, bookmarks, stack>>
      /\ run[p] = "running" /\ begun' = begun \cup {p}
      /\ pipe' = [pipe EXCEPT ![p] = @ \cup {StartLine(p)}]
  BY DEF Begin, StartLine, taskVars, readVars, bookVars
<1>2. p = launched
  BY <1>1 DEF Ends, Watching, Live
<1>3. Processes' /\ Reading'
  BY <1>1, <1>2 DEF Ends, Processes, Reading, TypeOK, Proc
<1>4. QED
  BY <1>1, <1>3, OutputMoves

LEMMA EndsAnalyze ==
  ASSUME TypeOK, Ends, NEW p \in Proc, NEW line \in Line, Analyze(p, line)
  PROVE  Ends'
<1>1. /\ UNCHANGED <<launched, run, media, stPause, begun, byForce, notice>>
      /\ UNCHANGED <<task, signalled, watched, armed, pipe, state, currentTime>>
      /\ UNCHANGED <<pathVars, bookmarks, stack>>
      /\ ops' = ops \ {<<p, line>>}
  BY DEF Analyze, procVars, taskVars, readVars, bookVars
<1>2. Processes' /\ Reading'
  BY <1>1 DEF Ends, Processes, Reading
<1>3. QED
  BY <1>1, <1>2, OutputMoves

LEMMA EndsExit ==
  ASSUME TypeOK, Ends, NEW p \in Proc, NEW status \in {0, 1}, Exit(p, status)
  PROVE  Ends'
<1>1. /\ UNCHANGED <<launched, media, stPause, begun, task, signalled, watched>>
      /\ UNCHANGED <<armed, pipe, ops, state, currentTime>>
      /\ UNCHANGED <<lastPlayedPath, lastPlayedPathPre, bookmarks, stack>>
      /\ run[p] = "running"
      /\ run' = [run EXCEPT ![p] = "exited"]
      /\ byForce' = [byForce EXCEPT ![p] = (status # 0)]
      /\ notice' = [notice EXCEPT ![p] = "pending"]
  BY DEF Exit, taskVars, readVars, logVars, pathVars, bookVars
<1>2. p = launched /\ watched = {p}
  BY <1>1 DEF Ends, Watching, Live
<1>3. Processes'
  BY <1>1 DEF Ends, Processes, TypeOK
<1>4. Watching'
  BY <1>1, <1>2 DEF Ends, Watching, Live, TypeOK
<1>5. \A q \in Proc : run'[q] = "running" => run[q] = "running"
  BY <1>1 DEF TypeOK
<1>6. Suspended'
  BY <1>1, <1>2, <1>5 DEF Ends, Suspended
<1>7. Reading' /\ Paths'
  BY <1>1, <1>2, <1>5 DEF Ends, Reading, Paths
<1>8. Stopping'
  BY <1>1 DEF Ends, Stopping, TypeOK
<1>9. QED
  BY <1>3, <1>4, <1>6, <1>7, <1>8 DEF Ends

LEMMA EndsProc == TypeOK /\ Ends /\ ProcStep => Ends'
BY EndsBegin, EndsAnalyze, EndsExit DEF ProcStep

LEMMA EndsStep ==
  TypeOK /\ Unborn /\ Ends /\ EndsInOrder /\ EndsInOrder' /\ [Next]_vars => Ends'
<1>1. ASSUME TypeOK, Ends, UNCHANGED vars PROVE Ends'
  <2>1. /\ UNCHANGED <<launched, run, media, begun, byForce, notice, task, signalled>>
        /\ UNCHANGED <<watched, currentTime, pathVars, bookmarks, stack>>
        /\ UNCHANGED <<armed, pipe, ops, state>>
    BY <1>1 DEF vars, procVars, taskVars, readVars, logVars, bookVars
  <2>2. Processes' /\ Reading'
    BY <1>1, <2>1 DEF Ends, Processes, Reading
  <2>3. QED
    BY <1>1, <2>1, <2>2, OutputMoves
<1>2. QED
  BY <1>1, EndsUser, EndsReturn, EndsServe, EndsProc DEF Next, Ended

-----------------------------------------------------------------------------
(* Lines before the next launch.                                           *)

\* A step that launches nothing, ends nothing and posts lines of the newest
\* process only.
LEMMA LinesMove ==
  ASSUME Watching, Lines, UNCHANGED <<launched, media, bookmarks>>,
         watched' \subseteq watched,
         \A x \in Posted' : x \in Posted \/ x[1] = launched,
         currentTime' \in {currentTime, NoProc, launched}
  PROVE  Lines'
<1>1. \A x \in Posted' : x[1] = launched'
  BY DEF Lines
<1>2. \A p \in watched' : currentTime' \in {NoProc, p}
  BY DEF Watching, Lines
<1>3. \A m \in Media : bookmarks'[m] \in Proc =>
        bookmarks'[m] <= launched' /\ media'[bookmarks'[m]] = m
  BY DEF Lines
<1>4. QED
  BY <1>1, <1>2, <1>3 DEF Lines

LEMMA LinesUser == TypeOK /\ Ends /\ Lines /\ UserStep => Lines'
<1> SUFFICES ASSUME TypeOK, Ends, Lines, UserStep PROVE Lines'
  OBVIOUS
<1>1. UNCHANGED <<launched, media, bookmarks, watched>> /\ Posted' \subseteq Posted
  BY DEF UserStep, Open, Skip, Replay, TogglePlayPause, FrameStep, Seek, Close, Quit,
         StopAnalyzer, procVars, readVars, logVars, bookVars, Posted
<1>2. currentTime' \in {currentTime, launched}
  <2>1. CASE Seek
    <3>1. PlayerRunning => task = launched
      BY DEF PlayerRunning, Ends, Suspended
    <3>2. QED
      BY <2>1, <3>1, Zenon DEF Seek
  <2>2. CASE ~Seek
    BY <2>2 DEF UserStep, Open, Skip, Replay, TogglePlayPause, FrameStep, Close, Quit
  <2>3. QED
    BY <2>1, <2>2
<1>3. QED
  BY <1>1, <1>2, LinesMove DEF Ends

\* The first line of a playback is its own.
LEMMA LinesLaunch ==
  TypeOK /\ Ends /\ Lines /\ LinesInOrder' /\ Launch => Lines'
<1> SUFFICES ASSUME TypeOK, Ends, Lines, LinesInOrder', Launch PROVE Lines'
  OBVIOUS
<1> DEFINE p == launched + 1
<1>1. /\ p \in Proc /\ launched' = p /\ p > launched /\ launched \in Nat
      /\ media' = [media EXCEPT ![p] = stack[1].media]
      /\ watched' = watched \cup {p}
      /\ UNCHANGED <<ops, mainQ, currentTime, bookmarks>>
  BY ConstantsAssumption DEF Launch, Observe, TypeOK, Proc, logVars, bookVars
<1>2. stack # <<>> /\ stack[1].pc = "launch"
  BY DEF Launch, Resumes
<1>3. currentTime = NoProc /\ Posted = {}
  BY <1>2, LaunchFinds DEF Ends, Suspended
<1> HIDE DEF p
<1>4. Posted' = {} /\ currentTime' = NoProc
  BY <1>1, <1>3 DEF Posted
<1>5. ASSUME NEW m \in Media, bookmarks'[m] \in Proc
      PROVE  bookmarks'[m] <= launched' /\ media'[bookmarks'[m]] = m
  <2>1. bookmarks[m] <= launched /\ media[bookmarks[m]] = m
    BY <1>1, <1>5 DEF Lines
  <2>2. bookmarks[m] \in Nat /\ bookmarks[m] # p /\ bookmarks[m] <= p
    BY <1>1, <1>5, <2>1 DEF Proc
  <2>3. QED
    BY <1>1, <1>5, <2>1, <2>2 DEF TypeOK
<1>6. QED
  BY <1>4, <1>5 DEF Lines

LEMMA LinesReturn ==
  TypeOK /\ Ends /\ Lines /\ LinesInOrder' /\ ReturnStep => Lines'
<1> SUFFICES ASSUME TypeOK, Ends, Lines, LinesInOrder', ReturnStep PROVE Lines'
  OBVIOUS
<1>1. CASE Launch
  BY <1>1, LinesLaunch
<1>2. CASE StopReturns \/ QuitReturns \/ SkipReturns \/ Start
  <2>1. /\ UNCHANGED <<launched, media, bookmarks, watched, Posted>>
        /\ currentTime' \in {currentTime, NoProc}
    BY <1>2 DEF StopReturns, QuitReturns, SkipReturns, Start, procVars, readVars,
                logVars, bookVars, Posted
  <2>2. QED
    BY <2>1, LinesMove DEF Ends
<1>3. QED
  BY <1>1, <1>2 DEF ReturnStep

\* What is filed at the end was reported by the process that ended.
LEMMA LinesNotice ==
  ASSUME TypeOK, Ends, Lines, EndsInOrder, NEW p \in Proc, Notice(p)
  PROVE  Lines'
<1>1. /\ watched = {p} /\ p = launched /\ HasTerminated(p)
      /\ lastPlayedPath \in {media[p], NoMedia} /\ media[p] \in Media
  BY NoticeFinds
<1>2. /\ UNCHANGED <<launched, media, mainQ>> /\ watched' = {} /\ ops' = {}
      /\ bookmarks' = BookmarkAfter(p)
  BY <1>1 DEF HasTerminated, RemoveObservers, StopAnalyzer, procVars
<1>3. \A x \in Posted' : x[1] = launched'
  BY <1>2 DEF Lines, Posted
<1>4. CASE ~KeepBookmarks \/ lastPlayedPath = NoMedia
  <2>1. UNCHANGED bookmarks
    BY <1>2, <1>4 DEF BookmarkAfter
  <2>2. QED
    BY <1>2, <1>3, <2>1 DEF Lines
<1>5. CASE KeepBookmarks /\ lastPlayedPath # NoMedia
  <2> DEFINE b == IF byForce[p] THEN currentTime ELSE NoBookmark
  <2>1. bookmarks' = [bookmarks EXCEPT ![media[p]] = b]
    BY <1>1, <1>2, <1>5, ConstantsAssumption DEF BookmarkAfter
  <2>2. b \in {NoProc, NoBookmark, p}
    BY <1>1 DEF Lines
  <2> HIDE DEF b
  <2>3. bookmarks'[media[p]] = b
    BY <1>1, <2>1 DEF TypeOK
  <2>4. ASSUME NEW m \in Media, bookmarks'[m] \in Proc
        PROVE  bookmarks'[m] <= launched /\ media[bookmarks'[m]] = m
    <3>1. CASE m = media[p]
      BY <1>1, <2>2, <2>3, <2>4, <3>1 DEF NoProc, NoBookmark, Proc
    <3>2. CASE m # media[p]
      BY <2>1, <2>4, <3>2 DEF Lines, TypeOK
    <3>3. QED
      BY <3>1, <3>2
  <2>5. QED
    BY <1>2, <1>3, <2>4 DEF Lines
<1>6. QED
  BY <1>4, <1>5

LEMMA LinesServe ==
  TypeOK /\ Ends /\ Lines /\ EndsInOrder /\ ServeStep => Lines'
<1> SUFFICES ASSUME TypeOK, Ends, Lines, EndsInOrder, ServeStep PROVE Lines'
  OBVIOUS
<1>1. ASSUME NEW p \in Proc, ReadOutput(p) PROVE Lines'
  <2>1. UNCHANGED <<launched, media, bookmarks, watched, mainQ, currentTime>>
    BY <1>1 DEF ReadOutput, procVars, bookVars
  <2>2. \A x \in ops' : x \in ops \/ x[1] = launched
    <3>1. ops' = ops \cup ({launched} \X pipe[p]) \/ ops' = ops
      BY <1>1, ReadFinds
    <3>2. QED
      BY <3>1
  <2>3. QED
    BY <2>1, <2>2, LinesMove DEF Ends, Posted
<1>2. ASSUME NEW p \in Proc, Poll(p) PROVE Lines'
  <2>1. UNCHANGED <<launched, media, bookmarks, watched, Posted, currentTime>>
    BY <1>2 DEF Poll, procVars, readVars, bookVars, Posted
  <2>2. QED
    BY <2>1, LinesMove DEF Ends
<1>3. ASSUME NEW p \in Proc, NEW line \in Line, Deliver(p, line) PROVE Lines'
  <2>1. /\ UNCHANGED <<launched, media, bookmarks, watched>> /\ Posted' \subseteq Posted
        /\ currentTime' = IF line = "time" THEN p ELSE currentTime
    BY <1>3 DEF Deliver, procVars, readVars, bookVars, Posted
  <2>2. p = launched
    <3>1. <<p, line>> \in Posted
      BY <1>3 DEF Deliver, Posted
    <3>2. QED
      BY <3>1 DEF Lines
  <2>3. QED
    BY <2>1, <2>2, LinesMove DEF Ends
<1>4. QED
  BY <1>1, <1>2, <1>3, LinesNotice DEF ServeStep

LEMMA LinesProc == TypeOK /\ Ends /\ Lines /\ ProcStep => Lines'
<1> SUFFICES ASSUME Ends, Lines, ProcStep PROVE Lines'
  OBVIOUS
<1>1. /\ UNCHANGED <<launched, media, bookmarks, watched, currentTime>>
      /\ Posted' = Posted
  BY DEF ProcStep, Begin, Exit, Analyze, procVars, readVars, logVars, bookVars, Posted
<1>2. QED
  BY <1>1, LinesMove DEF Ends

LEMMA LinesStep ==
  TypeOK /\ Ends /\ Lines /\ EndsInOrder /\ LinesInOrder' /\ [Next]_vars => Lines'
<1>1. ASSUME Ends, Lines, UNCHANGED vars PROVE Lines'
  <2>1. UNCHANGED <<launched, media, bookmarks, watched, Posted, currentTime>>
    BY <1>1 DEF vars, procVars, readVars, logVars, bookVars, Posted
  <2>2. QED
    BY <1>1, <2>1, LinesMove DEF Ends
<1>2. QED
  BY <1>1, LinesUser, LinesReturn, LinesServe, LinesProc DEF Next, Ended

-----------------------------------------------------------------------------
(* And before the end is served.                                           *)

\* Which steps change what the state is made of.
LEMMA ShownMove ==
  ASSUME Shown, UNCHANGED <<begun, stPause, watched, pipe, ops, mainQ, state, power>>
  PROVE  Shown'
<1>1. StartsOnce'
  BY DEF Shown, StartsOnce, Posted, StartLine
<1>2. QED
  BY <1>1 DEF Shown, Awake

\* Pausing lets the display sleep, resuming keeps it awake.
LEMMA ToggleWakes ==
  TypeOK /\ Awake /\ (TogglePlayPause \/ FrameStep) => Awake'
<1> SUFFICES ASSUME TypeOK, Awake, TogglePlayPause \/ FrameStep PROVE Awake'
  OBVIOUS
<1>1. CASE FrameStep
  <2>1. state' = "paused"
    BY <1>1, ToggleStates DEF FrameStep
  <2>2. QED
    BY <2>1 DEF Awake
<1>2. CASE TogglePlayPause
  <2>1. state' = "playing" => power' = TRUE
    BY <1>2, Zenon DEF TogglePlayPause
  <2>2. state' = "opened" => power' = power /\ state = "opened"
    <3>1. state' = "opened" => power' = power
      BY <1>2, Zenon DEF TogglePlayPause
    <3>2. state' = "opened" => state = "opened"
      BY <1>2, ToggleStates DEF TogglePlayPause
    <3>3. QED
      BY <3>1, <3>2
  <2>3. QED
    BY <2>1, <2>2, Zenon DEF Awake
<1>3. QED
  BY <1>1, <1>2

LEMMA ShownUser == TypeOK /\ Shown /\ UserStep => Shown'
<1> SUFFICES ASSUME TypeOK, Shown, UserStep PROVE Shown'
  OBVIOUS
<1>1. CASE TogglePlayPause \/ FrameStep
  <2>1. /\ state # "stopped" /\ (state = "opened" <=> state' = "opened")
        /\ UNCHANGED <<begun, stPause, watched, pipe, ops, mainQ>>
    BY <1>1, ToggleStates DEF TogglePlayPause, FrameStep, procVars, readVars, logVars
  <2>2. StartsOnce'
    BY <2>1 DEF Shown, StartsOnce, Posted, StartLine
  <2>3. Awake'
    BY <1>1, ToggleWakes DEF Shown
  <2>4. QED
    BY <2>1, <2>2, <2>3 DEF Shown
<1>2. CASE Seek
  <2>1. UNCHANGED <<begun, stPause, watched, pipe, mainQ, state, power>> /\ ops' = {}
    BY <1>2 DEF Seek, StopAnalyzer, procVars, readVars
  <2>2. StartsOnce'
    BY <2>1 DEF Shown, StartsOnce, Posted, StartLine
  <2>3. QED
    BY <2>1, <2>2 DEF Shown, Awake
<1>3. CASE (\E m \in Media : Open(m) \/ Skip(m)) \/ Replay \/ Close \/ Quit
  <2>1. UNCHANGED <<begun, stPause, watched, pipe, ops, mainQ, state, power>>
    BY <1>3 DEF Open, Skip, Replay, Close, Quit, procVars, readVars, logVars
  <2>2. QED
    BY <2>1, ShownMove
<1>4. QED
  BY <1>1, <1>2, <1>3 DEF UserStep

\* A launch finds the state stopped, and no line of an earlier process.
LEMMA LaunchShows ==
  ASSUME TypeOK, Ends, Shown, Orderly', Launch
  PROVE  watched = {} /\ state = "stopped" /\ Posted = {}
<1>1. \A p \in Proc : ~Live(p)
  <2>1. Resumes("launch") /\ "launch" \in Calls
    BY DEF Launch, Calls
  <2>2. \A p \in Proc : notice[p] # "pending"
    BY LaunchFinds DEF Orderly, EndsInOrder
  <2>3. \A p \in Proc : run[p] # "running"
    BY <2>1, ReturnFinds
  <2>4. QED
    BY <2>2, <2>3 DEF Live
<1>2. watched = {}
  BY <1>1 DEF Ends, Watching, TypeOK
<1>3. Posted = {}
  BY <1>2 DEF Ends, Reading, Shown, Posted
<1>4. QED
  BY <1>2, <1>3 DEF Shown

LEMMA ShownReturn ==
  TypeOK /\ Ends /\ Shown /\ Orderly' /\ ReturnStep => Shown'
<1> SUFFICES ASSUME TypeOK, Ends, Shown, Orderly', ReturnStep PROVE Shown'
  OBVIOUS
<1>1. CASE StopReturns \/ QuitReturns \/ SkipReturns \/ Start
  <2>1. UNCHANGED <<begun, stPause, watched, pipe, ops, mainQ, state, power>>
    BY <1>1 DEF StopReturns, QuitReturns, SkipReturns, Start, procVars, readVars,
                logVars
  <2>2. QED
    BY <2>1, ShownMove
<1>2. CASE Launch
  <2> DEFINE p == launched + 1
  <2>1. /\ p \in Proc /\ watched' = watched \cup {p}
        /\ state' = "opened" /\ power' = TRUE
        /\ UNCHANGED <<begun, pipe, ops, mainQ>>
    BY <1>2, ConstantsAssumption DEF Launch, Observe, TypeOK, Proc, logVars
  <2>2. pipe[p] = {} /\ p \notin begun
    BY <2>1 DEF Ends, Processes, TypeOK
  <2>3. watched = {} /\ Posted = {}
    BY <1>2, LaunchShows
  <2> HIDE DEF p
  <2>4. StartsOnce'
    BY <2>1, <2>2, <2>3 DEF StartsOnce, Posted
  <2>5. QED
    BY <2>1, <2>4 DEF Shown, Awake
<1>3. QED
  BY <1>1, <1>2 DEF ReturnStep

\* An end that is served in order leaves nothing to deliver.
LEMMA ShownNotice ==
  ASSUME TypeOK, Ends, Shown, EndsInOrder, Orderly', NEW p \in Proc, Notice(p)
  PROVE  Shown'
<1>1. watched = {p} /\ HasTerminated(p)
  BY NoticeFinds
<1>2. mainQ = {}
  BY <1>1 DEF Notice, Orderly
<1>3. watched' = {} /\ state' = "stopped" /\ mainQ' = {}
  BY <1>1, <1>2 DEF HasTerminated, RemoveObservers
<1>4. QED
  BY <1>3 DEF Shown, StartsOnce, Awake

LEMMA ShownRead ==
  ASSUME TypeOK, Ends, Shown, NEW p \in Proc, ReadOutput(p)
  PROVE  Shown'
<1>1. /\ UNCHANGED <<begun, stPause, watched, mainQ, state, power>>
      /\ pipe' = [pipe EXCEPT ![p] = {}]
  BY DEF ReadOutput, procVars
<1>2. \/ watched = {p} /\ ops' = ops \cup ({p} \X pipe[p])
      \/ UNCHANGED ops
  BY ReadFinds
<1>3. StartsOnce'
  <2>1. CASE watched = {p} /\ ops' = ops \cup ({p} \X pipe[p])
    BY <1>1, <2>1 DEF Shown, StartsOnce, StartLine, Posted, TypeOK
  <2>2. CASE UNCHANGED ops
    BY <1>1, <2>2 DEF Shown, StartsOnce, StartLine, Posted, TypeOK
  <2>3. QED
    BY <1>2, <2>1, <2>2
<1>4. QED
  BY <1>1, <1>3 DEF Shown, Awake

LEMMA ShownPoll ==
  ASSUME TypeOK, Shown, NEW t \in Proc, Poll(t)
  PROVE  Shown'
<1>1. /\ UNCHANGED <<begun, stPause, watched, ops, mainQ, state, power>>
      /\ PlayerRunning /\ pipe' = [pipe EXCEPT ![task] = @ \cup {"time"}]
  BY DEF Poll, procVars, readVars
<1>2. \A q \in Proc, l \in Starts : l \in pipe'[q] => l \in pipe[q]
  BY <1>1 DEF Starts, PlayerRunning, TypeOK
<1>3. StartsOnce'
  BY <1>1, <1>2 DEF Shown, StartsOnce, StartLine, Posted, TypeOK
<1>4. QED
  BY <1>1, <1>3 DEF Shown, Awake

\* A started line finds the state opened, and is the only one.
LEMMA DeliverShows ==
  ASSUME TypeOK, Ends, Lines, Shown, NEW p \in Proc, NEW line \in Line,
         Deliver(p, line)
  PROVE  /\ watched = {p}
         /\ line \in Starts =>
              /\ line = StartLine(p) /\ p \in begun /\ state = "opened"
              /\ line \notin pipe[p] /\ <<p, line>> \notin ops
<1>1. <<p, line>> \in mainQ /\ <<p, line>> \in Posted
  BY DEF Deliver, Posted
<1>2. watched = {p}
  <2>1. watched # {} /\ p = launched
    BY <1>1 DEF Shown, Lines
  <2>2. QED
    BY <2>1 DEF Ends, Watching
<1>3. QED
  BY <1>1, <1>2 DEF Shown, StartsOnce

LEMMA ShownDeliver ==
  ASSUME TypeOK, Ends, Lines, Shown, NEW p \in Proc, NEW line \in Line,
         Deliver(p, line)
  PROVE  Shown'
<1>1. /\ UNCHANGED <<begun, stPause, watched, pipe, ops, power>>
      /\ mainQ' = mainQ \ {<<p, line>>}
  BY DEF Deliver, procVars, readVars
<1>2. watched = {p}
  BY DeliverShows
<1>3. CASE line = "time"
  <2>1. state' = state
    BY <1>3, DeliverStates
  <2>2. StartsOnce'
    BY <1>1, <1>3, <2>1 DEF Shown, StartsOnce, Starts, StartLine, Posted
  <2>3. QED
    BY <1>1, <1>2, <2>1, <2>2 DEF Shown, Awake
<1>4. CASE line \in Starts
  <2>1. /\ line = StartLine(p) /\ p \in begun /\ state = "opened"
        /\ line \notin pipe[p] /\ <<p, line>> \notin ops
    BY <1>4, DeliverShows
  <2>2. ASSUME NEW l \in Starts
        PROVE  l \notin pipe'[p] /\ <<p, l>> \notin Posted'
    <3>1. CASE l = line
      BY <1>1, <2>1, <3>1 DEF Posted
    <3>2. CASE l # line
      BY <1>1, <1>2, <2>1, <2>2, <3>2 DEF Shown, StartsOnce, Posted
    <3>3. QED
      BY <3>1, <3>2
  <2>3. StartsOnce'
    BY <1>1, <1>2, <2>1, <2>2 DEF StartsOnce, Posted
  <2>4. QED
    BY <1>1, <1>2, <2>1, <2>3 DEF Shown, Awake
<1>5. QED
  BY <1>3, <1>4 DEF Line, Starts

LEMMA ShownServe ==
  TypeOK /\ Ends /\ Lines /\ Shown /\ EndsInOrder /\ Orderly' /\ ServeStep => Shown'
BY ShownNotice, ShownRead, ShownPoll, ShownDeliver DEF ServeStep

LEMMA ShownBegin ==
  ASSUME TypeOK, Ends, Shown, NEW p \in Proc, Begin(p)
  PROVE  Shown'
<1>1. /\ UNCHANGED <<stPause, watched, ops, mainQ, state, power>>
      /\ run[p] = "running" /\ p \notin begun /\ begun' = begun \cup {p}
      /\ pipe' = [pipe EXCEPT ![p] = @ \cup {StartLine(p)}]
  BY DEF Begin, StartLine, readVars
<1>2. watched = {p}
  BY <1>1 DEF Ends, Watching, Live
<1>3. /\ state = "opened"
      /\ \A l \in Starts : l \notin pipe[p] /\ <<p, l>> \notin Posted
  BY <1>1, <1>2 DEF Shown, StartsOnce, Starts
<1>4. pipe'[p] = pipe[p] \cup {StartLine(p)} /\ p \in begun'
  BY <1>1 DEF TypeOK
<1>5. UNCHANGED <<Posted, StartLine(p), watched, state>>
  BY <1>1 DEF Posted, StartLine
<1>6. ASSUME NEW l \in Starts
      PROVE  /\ l \in pipe'[p] => l = StartLine(p)
             /\ <<p, l>> \notin Posted' /\ <<p, l>> \notin ops' \cap mainQ'
  BY <1>1, <1>3, <1>4, <1>5 DEF Posted
<1>7. StartsOnce'
  BY <1>2, <1>3, <1>4, <1>5, <1>6 DEF StartsOnce
<1>8. QED
  BY <1>1, <1>2, <1>7 DEF Shown, Awake

LEMMA ShownAnalyze ==
  ASSUME Ends, Shown, NEW p \in Proc, NEW line \in Line, Analyze(p, line)
  PROVE  Shown'
<1>1. /\ UNCHANGED <<begun, stPause, watched, pipe, state, power>>
      /\ <<p, line>> \in ops /\ ops' = ops \ {<<p, line>>}
      /\ mainQ' = mainQ \cup {<<p, line>>}
  BY DEF Analyze, procVars, readVars
<1>2. Posted' = Posted /\ watched # {}
  BY <1>1 DEF Posted, Ends, Reading
<1>3. StartsOnce'
  BY <1>1, <1>2 DEF Shown, StartsOnce, StartLine
<1>4. QED
  BY <1>1, <1>2, <1>3 DEF Shown, Awake

LEMMA ShownProc == TypeOK /\ Ends /\ Shown /\ ProcStep => Shown'
<1>1. ASSUME Shown, NEW p \in Proc, NEW status \in {0, 1}, Exit(p, status)
      PROVE  Shown'
  <2>1. UNCHANGED <<begun, stPause, watched, pipe, ops, mainQ, state, power>>
    BY <1>1 DEF Exit, readVars, logVars
  <2>2. QED
    BY <1>1, <2>1, ShownMove
<1>2. QED
  BY <1>1, ShownBegin, ShownAnalyze DEF ProcStep

LEMMA ShownStep ==
  /\ TypeOK /\ Ends /\ Lines /\ Shown /\ EndsInOrder /\ Orderly' /\ [Next]_vars
  => Shown'
<1>1. ASSUME Shown, UNCHANGED vars PROVE Shown'
  <2>1. UNCHANGED <<begun, stPause, watched, pipe, ops, mainQ, state, power>>
    BY <1>1 DEF vars, procVars, readVars, logVars
  <2>2. QED
    BY <1>1, <2>1, ShownMove
<1>2. QED
  BY <1>1, ShownUser, ShownReturn, ShownServe, ShownProc DEF Next, Ended

-----------------------------------------------------------------------------
(* The theorems.                                                           *)

LEMMA WholeInit == Init => Whole
<1> SUFFICES ASSUME Init PROVE Whole
  OBVIOUS
<1>1. TypeOK /\ Unborn
  BY TypeInit DEF Init, Unborn
<1>2. Processes /\ Watching /\ Reading /\ Paths
  BY DEF Init, Processes, Watching, Live, Reading, Paths
<1>3. Suspended /\ Stopping
  BY EmptyStack DEF Init, Suspended, Stopping
<1>4. Lines
  BY DEF Init, Lines, Posted, NoBookmark, Proc
<1>5. Shown
  BY DEF Init, Shown, StartsOnce, Awake
<1>6. QED
  BY <1>1, <1>2, <1>3, <1>4, <1>5 DEF Whole, Ends

LEMMA WholeStep == Whole /\ [Next]_vars => Whole'
<1> SUFFICES ASSUME Whole, [Next]_vars PROVE Whole'
  OBVIOUS
<1>1. TypeOK /\ Unborn /\ TypeOK' /\ Unborn'
  BY TypeUser, TypeReturn, TypeServe, TypeProc, TypeStutter, UnbornStep
     DEF Whole, Next, Ended
<1>2. /\ EndsInOrder' => EndsInOrder
      /\ LinesInOrder' => LinesInOrder /\ EndsInOrder /\ EndsInOrder'
      /\ Orderly' => Orderly /\ LinesInOrder
  <2>1. LinesInOrder => EndsInOrder
    BY DEF LinesInOrder
  <2>2. Orderly => LinesInOrder
    BY DEF Orderly, LinesInOrder, EndsInOrder
  <2>3. LinesInOrder' => EndsInOrder'
    BY DEF LinesInOrder
  <2>4. QED
    BY <1>1, <2>1, <2>2, <2>3, InOrderBefore
<1>3. EndsInOrder' => Ends'
  BY <1>1, <1>2, EndsStep DEF Whole
<1>4. LinesInOrder' => Lines'
  BY <1>1, <1>2, LinesStep DEF Whole
<1>5. Orderly' => Shown'
  <2>1. Orderly => EndsInOrder
    BY DEF Orderly, EndsInOrder
  <2>2. QED
    BY <1>1, <1>2, <2>1, ShownStep DEF Whole
<1>6. QED
  BY <1>1, <1>3, <1>4, <1>5 DEF Whole

\* What each degree of order gives.
LEMMA WholeGives ==
  Whole => /\ TypeOK /\ Unborn
           /\ EndsInOrder => Ends
           /\ LinesInOrder => Ends /\ Lines
           /\ Orderly => Ends /\ Lines /\ Shown /\ EndsInOrder
BY DEF Whole, Orderly, LinesInOrder, EndsInOrder

\* Orderly so far, and back in the run loop, the state is stopped exactly when no
\* player runs and no end is waiting to be served.
THEOREM SessionAgreesHolds == Spec => []SessionAgrees
<1>1. Whole => SessionAgrees
  <2> SUFFICES ASSUME Whole, Orderly, stack = <<>>
               PROVE  state # "stopped" <=>
                        PlayerRunning \/ \E p \in Proc : notice[p] = "pending"
    BY DEF SessionAgrees
  <2>1. TypeOK /\ Watching /\ Suspended /\ Shown
    BY WholeGives DEF Ends
  <2>2. state = "stopped" <=> watched = {}
    BY <2>1 DEF Watching, Shown
  <2>3. PlayerRunning \/ (\E p \in Proc : notice[p] = "pending") => watched # {}
    BY <2>1 DEF Watching, Live, PlayerRunning, TypeOK
  <2>4. watched # {} => PlayerRunning \/ \E p \in Proc : notice[p] = "pending"
    <3>1. \A p \in watched : p \in Proc /\ (run[p] = "running" => task = p)
      BY <2>1 DEF Suspended, TypeOK
    <3>2. \A p \in Proc : p # NoProc
      BY DEF Proc, NoProc
    <3>3. \A p \in watched : Live(p)
      BY <2>1 DEF Watching
    <3>4. QED
      BY <3>1, <3>2, <3>3 DEF Live, PlayerRunning
  <2>5. QED
    BY <2>2, <2>3, <2>4
<1>2. QED
  BY <1>1, WholeInit, WholeStep, PTL DEF Spec

\* While every end is served before the next launch, and no player that was told
\* to stop came to its end first, no pipe is read twice at a time.
THEOREM OneReaderHolds == Spec => []OneReader
<1>1. Whole => OneReader
  BY WholeGives DEF Ends, Reading, OneReader
<1>2. QED
  BY <1>1, WholeInit, WholeStep, PTL DEF Spec

\* While every end is served, and every posted line delivered, before the next
\* launch, a bookmark holds a position of the file it is filed under; the lines
\* that come after the end of their player, or after its stop, do it no harm.
THEOREM BookmarkOwnHolds == Spec => []BookmarkOwn
<1>1. Whole => BookmarkOwn
  BY WholeGives DEF Lines, BookmarkOwn
<1>2. QED
  BY <1>1, WholeInit, WholeStep, PTL DEF Spec

\* Orderly so far, the display is kept awake while a playback is shown as playing.
THEOREM PlayingKeepsAwakeHolds == Spec => []PlayingKeepsAwake
<1>1. Whole => PlayingKeepsAwake
  BY WholeGives DEF Shown, Awake, PlayingKeepsAwake
<1>2. QED
  BY <1>1, WholeInit, WholeStep, PTL DEF Spec

\* A quit that stopped a player by force, and served its end in the wait, writes
\* a position for its file, while ends come before the next launch: whatever else
\* was served in that wait, and whatever lines were delivered when.
THEOREM QuitSavesPositionHolds == Spec => QuitSavesPosition
<1> DEFINE Saves == EndsInOrder /\ KeepBookmarks /\ ~quitted /\ quitted' =>
       \A p \in Proc : p = Awaited /\ byForce[p] /\ notice[p] = "done" =>
         saved'[media[p]] # NoBookmark
<1>1. ASSUME Whole, [Next]_vars PROVE Saves
  <2> SUFFICES ASSUME EndsInOrder, KeepBookmarks, ~quitted, quitted',
                      NEW p \in Proc, p = Awaited, byForce[p], notice[p] = "done"
               PROVE  saved'[media[p]] # NoBookmark
    OBVIOUS
  <2>1. QuitReturns
    BY <1>1 DEF vars, bookVars, Next, UserStep, Open, Skip, Replay, TogglePlayPause,
       FrameStep, Seek, Close, Quit, ReturnStep, StopReturns, SkipReturns, Start,
       Launch, ServeStep, Notice, HasTerminated, ReadOutput, Poll, Deliver,
       ProcStep, Begin, Exit, Analyze, Ended
  <2>2. Stopping
    BY <1>1, WholeGives DEF Ends
  <2>3. stack # <<>> /\ stack[1].wait = p
    BY <2>1 DEF QuitReturns, Resumes, Awaited
  <2>4. bookmarks[media[p]] # NoBookmark
    BY <2>2, <2>3 DEF Stopping
  <2>5. QED
    BY <2>1, <2>4 DEF QuitReturns
<1>2. Whole /\ [Next]_vars => [Saves]_vars
  BY <1>1
<1>3. QED
  BY <1>2, WholeInit, WholeStep, PTL DEF Spec, QuitSavesPosition

\* While every end is served before the next launch, and no player that was told
\* to stop came to its end first, one player runs at a time, with auto-play-next
\* too: the launch that follows the end of a file, like any other, finds none.
THEOREM OnePlayerHolds ==
  Spec => [](EndsInOrder => \A p, q \in Proc :
               run[p] = "running" /\ run[q] = "running" => p = q)
<1>1. Whole => (EndsInOrder => \A p, q \in Proc :
                  run[p] = "running" /\ run[q] = "running" => p = q)
  BY WholeGives DEF Ends, Watching, Live
<1>2. QED
  BY <1>1, WholeInit, WholeStep, PTL DEF Spec

-----------------------------------------------------------------------------
(* Playback implements PlaySession.                                        *)

\* What is shown changes where a process is launched or its end is served, where
\* a line is delivered and where the user pauses.
LEMMA ShownSteps ==
  [Next]_vars => \/ UNCHANGED <<state, launched, media>>
                 \/ Launch
                 \/ \E p \in Proc : Notice(p)
                 \/ \E p \in Proc, line \in Line : Deliver(p, line)
                 \/ TogglePlayPause \/ FrameStep
BY DEF vars, procVars, Next, UserStep, Open, Skip, Replay, Seek, Close, Quit,
       ReturnStep, StopReturns, QuitReturns, SkipReturns, Start, ServeStep,
       ReadOutput, Poll, ProcStep, Begin, Exit, Analyze, Ended

LEMMA SessionInit == Init => Session!Init
BY DEF Init, File, Session!Init

LEMMA SessionStep ==
  Whole /\ Orderly' /\ [Next]_vars => [Session!Next]_<<state, File>>
<1> SUFFICES ASSUME Whole, Orderly', [Next]_vars
             PROVE  [Session!Next]_<<state, File>>
  OBVIOUS
<1>1. TypeOK /\ Ends /\ Lines /\ Shown /\ EndsInOrder
  <2>1. Orderly
    BY WholeGives, InOrderBefore
  <2>2. QED
    BY <2>1, WholeGives
<1>2. CASE UNCHANGED <<state, launched, media>>
  BY <1>2 DEF File
<1>3. CASE Launch
  <2>1. state = "stopped" /\ stack[1].media \in Media
    <3>1. stack # <<>> /\ stack[1].pc = "launch"
      BY <1>3 DEF Launch, Resumes
    <3>2. QED
      BY <1>1, <1>3, <3>1, LaunchShows DEF Ends, Suspended
  <2>2. /\ state' = "opened" /\ launched' = launched + 1 /\ launched' \in Proc
        /\ media' = [media EXCEPT ![launched + 1] = stack[1].media]
    <3>1. /\ state' = "opened" /\ launched' = launched + 1 /\ launched < MaxProc
          /\ media' = [media EXCEPT ![launched + 1] = stack[1].media]
      BY <1>3 DEF Launch
    <3>2. launched + 1 \in Proc
      BY <1>1, <3>1, ConstantsAssumption DEF TypeOK, Proc
    <3>3. QED
      BY <3>1, <3>2
  <2>3. File' = <<launched + 1, stack[1].media>>
    BY <1>1, <2>2 DEF File, TypeOK
  <2>4. Session!Opened(<<launched + 1, stack[1].media>>)
    BY <2>1, <2>2, <2>3 DEF Session!Opened, File
  <2>5. <<launched + 1, stack[1].media>> \in Proc \X Media
    BY <2>1, <2>2
  <2>6. QED
    BY <2>4, <2>5 DEF Session!Next
<1>4. ASSUME NEW p \in Proc, Notice(p) PROVE Session!Next
  <2>1. watched = {p} /\ state' = "stopped"
    <3>1. watched = {p} /\ HasTerminated(p)
      BY <1>1, <1>4, NoticeFinds
    <3>2. QED
      BY <3>1 DEF HasTerminated
  <2>2. state # "stopped"
    BY <1>1, <2>1 DEF Ends, Watching
  <2>3. QED
    BY <2>1, <2>2 DEF Session!Next, Session!Stopped, File
<1>5. ASSUME NEW p \in Proc, NEW line \in Line, Deliver(p, line)
      PROVE  [Session!Next]_<<state, File>>
  <2>1. UNCHANGED <<launched, media>>
    BY <1>5 DEF Deliver, procVars
  <2>2. CASE line = "time"
    BY <1>1, <1>5, <2>1, <2>2, DeliverStates DEF File
  <2>3. CASE line \in Starts
    <3>1. state = "opened"
      BY <1>1, <1>5, <2>3, DeliverShows
    <3>2. state' \in {"playing", "paused"}
      BY <1>1, <1>5, <2>3, DeliverStates DEF Starts
    <3>3. Session!Started
      BY <2>1, <3>1, <3>2 DEF Session!Started, File
    <3>4. QED
      BY <3>3 DEF Session!Next
  <2>4. QED
    BY <2>2, <2>3 DEF Line, Starts
<1>6. CASE TogglePlayPause \/ FrameStep
  <2>1. /\ UNCHANGED <<launched, media>>
        /\ state = "playing" => state' = "paused"
        /\ state = "paused" => state' = "playing"
        /\ state \notin {"playing", "paused"} => state' = state
    BY <1>1, <1>6, ToggleStates DEF TogglePlayPause, FrameStep, procVars
  <2>2. CASE state \in {"playing", "paused"}
    <3>1. Session!Toggled
      BY <2>1, <2>2 DEF Session!Toggled, File
    <3>2. QED
      BY <3>1 DEF Session!Next
  <2>3. CASE state \notin {"playing", "paused"}
    BY <2>1, <2>3 DEF File
  <2>4. QED
    BY <2>2, <2>3
<1>7. QED
  BY <1>2, <1>3, <1>4, <1>5, <1>6, ShownSteps

\* What MPlayerX shows goes through whole playbacks, for as long as nothing is
\* overtaken: every step of an orderly history is a step of PlaySession, or leaves
\* what it is about alone.
THEOREM SessionImplemented == Spec => SessionSpec
<1>1. Whole /\ [Next]_vars => [Orderly' => [Session!Next]_<<state, File>>]_vars
  BY SessionStep
<1>2. Init => Session!Init
  BY SessionInit
<1>3. QED
  BY <1>1, <1>2, WholeInit, WholeStep, PTL DEF Spec, SessionSpec
=============================================================================
