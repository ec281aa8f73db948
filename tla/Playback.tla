------------------------------ MODULE Playback ------------------------------
(***************************************************************************)
(* The life of a playback in MPlayerX: PlayerCore (one mplayer process and *)
(* its pipes), CoreController (player state, polling timer, log analyser), *)
(* PlayerController (what is played, bookmarks, auto-play-next, the power  *)
(* assertion) and the playlist's next/previous request, as they interleave *)
(* on the main thread with the mplayer processes and the log-parsing       *)
(* workers.                                                                *)
(*                                                                         *)
(* All the Swift code modelled here runs on the main thread, yet it is not *)
(* sequential: PlayerCore.terminate() sits in waitUntilExit, which runs    *)
(* the run loop, so a termination notice, a read completion, a timer or a  *)
(* parsed log line can be handled in the middle of a stop, a replacement   *)
(* or a launch, and may itself start another playback.  "stack" holds the  *)
(* calls that are suspended that way, innermost first.                     *)
(***************************************************************************)
EXTENDS Integers, Sequences, FiniteSets

CONSTANTS
  Media,         \* the files that can be played
  NoMedia,       \* the nil URL
  NextOf,        \* the next episode of a file, or NoMedia
  MaxProc,       \* bound: how many mplayer processes are launched
  Logged,        \* bound: the kinds of lines the processes print
  AutoPlayNext,  \* user default: play the next episode when one ends
  KeepBookmarks, \* user default: record where a file was stopped
  PlayWhenOpened,   \* user default: FALSE asks for a paused start
  HasStPause     \* whether the mplayer binary has the -stpause option

ASSUME ConstantsAssumption ==
  /\ MaxProc \in Nat \ {0} /\ Logged \subseteq {"started", "time"}
  /\ NoMedia \notin Media
  /\ NextOf \in [Media -> Media \cup {NoMedia}]
  /\ AutoPlayNext \in BOOLEAN /\ KeepBookmarks \in BOOLEAN /\ PlayWhenOpened \in BOOLEAN
  /\ HasStPause \in BOOLEAN

Proc == 1 .. MaxProc
NoProc == 0        \* as a time: the start of the file, nothing reported yet
NoBookmark == -1
Line == {"started", "startedPaused", "time"}

\* A call that is suspended or about to go on: what is left of it, the file
\* it is for, whether its argument list has -stpause, and the process whose
\* exit it waits for (NoProc: it does not wait).
Frame(pc, m, b, p) == [pc |-> pc, media |-> m, stpause |-> b, wait |-> p]
Calls == {"stop", "quit", "skip", "start", "launch"}
Frames == [pc : Calls,
           media : Media \cup {NoMedia},
           stpause : BOOLEAN,
           wait : Proc \cup {NoProc}]

VARIABLES
  launched,      \* how many processes have been launched; the last is newest
  run,           \* each process: unborn, running or exited
  media,         \* what it was started on
  stPause,       \* it was started with -stpause
  begun,         \* the processes that have printed their started line
  byForce,       \* exited with a status other than 0
  notice,        \* didTerminateNotification: none, pending, done
  task,          \* PlayerCore.task
  signalled,     \* the processes that were sent SIGTERM
  watched,       \* the processes PlayerCore is registered as observer of
  armed,         \* reads in the background outstanding on a process's pipe
  pipe,          \* lines printed and not yet read
  ops,           \* LogAnalyzer: lines queued for parsing
  mainQ,         \* parsed lines posted to the main thread
  state,         \* CoreController.state
  pollingTimer,  \* the timer it holds, named after the process it was made for
  timers,        \* the timers the run loop still fires
  currentTime,   \* playingInfo.currentTime: which process reported it
  pauseAtStart,  \* ParameterManager.pauseAtStart
  lastPlayedPath, lastPlayedPathPre, autoPlayState,  \* PlayerController
  requesting,    \* PlayListController.requestingNextOrPrev
  power,         \* the no-display-sleep assertion is held
  bookmarks,     \* last stopped times
  saved,         \* the bookmark file, written when the application quits
  quitted,
  stack,
  late           \* history: what was served after something it precedes

procVars == <<launched, run, media, stPause, begun, byForce>>
taskVars == <<task, signalled>>
readVars == <<watched, armed>>
logVars == <<pipe, ops, mainQ>>
timerVars == <<pollingTimer, timers>>
pathVars == <<lastPlayedPath, lastPlayedPathPre>>
autoVars == <<autoPlayState, requesting>>
bookVars == <<bookmarks, saved, quitted>>
vars == <<procVars, notice, taskVars, readVars, logVars, state, timerVars,
          currentTime, pauseAtStart, pathVars, autoVars, power, bookVars, stack,
          late>>

Init ==
  /\ launched = 0
  /\ run = [p \in Proc |-> "unborn"]
  /\ media = [p \in Proc |-> NoMedia]
  /\ stPause = [p \in Proc |-> FALSE]
  /\ begun = {}
  /\ byForce = [p \in Proc |-> FALSE]
  /\ notice = [p \in Proc |-> "none"]
  /\ task = NoProc /\ signalled = {}
  /\ watched = {} /\ armed = [p \in Proc |-> 0]
  /\ pipe = [p \in Proc |-> {}] /\ ops = {} /\ mainQ = {}
  /\ state = "stopped"
  /\ pollingTimer = NoProc /\ timers = {}
  /\ currentTime = NoProc /\ pauseAtStart = FALSE
  /\ lastPlayedPath = NoMedia /\ lastPlayedPathPre = NoMedia
  /\ autoPlayState = "invalid" /\ requesting = FALSE
  /\ power = FALSE
  /\ bookmarks = [m \in Media |-> NoBookmark]
  /\ saved = [m \in Media |-> NoBookmark]
  /\ quitted = FALSE
  /\ stack = <<>>
  /\ late = {}

-----------------------------------------------------------------------------
(* The run loop of the main thread: it serves sources when no call is on   *)
(* the stack or the innermost one waits; user events only when none is.    *)
(* Nothing says that a termination notice, or a line posted by a worker,   *)
(* is served before the wait for its process returns or before the next    *)
(* user event: "late" records what was overtaken by what.                  *)

Awaited == IF stack = <<>> THEN NoProc ELSE stack[1].wait
Dispatching == ~quitted /\ (stack = <<>> \/ Awaited # NoProc)
UserTurn == ~quitted /\ stack = <<>>
Launching == {i \in DOMAIN stack : stack[i].pc \in {"skip", "start", "launch"}}
Room == launched + Cardinality(Launching) < MaxProc
Resumes(pc) ==
  /\ stack # <<>> /\ stack[1].pc = pc
  /\ Awaited # NoProc => run[Awaited] = "exited"

PlayerRunning == task # NoProc /\ run[task] = "running"
Waited == IF PlayerRunning THEN task ELSE NoProc   \* what terminate() waits for
CouldAcceptCommand == state \in {"playing", "paused"}

\* Variant: terminate() does not look at task before signalling it.
TerminateUnguarded(pc, m, b, rest) ==
  /\ task' = NoProc
  /\ signalled' = signalled \cup {task}
  /\ stack' = <<Frame(pc, m, b, Waited)>> \o rest
\* Variant: it waits without sending the signal.
TerminateUnsignalled(pc, m, b, rest) ==
  /\ task' = NoProc
  /\ UNCHANGED signalled
  /\ stack' = <<Frame(pc, m, b, Waited)>> \o rest
\* Variant: it does not wait.
TerminateAtOnce(pc, m, b, rest) ==
  /\ task' = NoProc
  /\ signalled' = signalled \cup (IF PlayerRunning THEN {task} ELSE {})
  /\ stack' = <<Frame(pc, m, b, NoProc)>> \o rest
\* Variant: it forgets the task only after the wait.
TerminateKeepsTask(pc, m, b, rest) ==
  /\ task' = task
  /\ signalled' = signalled \cup (IF PlayerRunning THEN {task} ELSE {})
  /\ stack' = <<Frame(pc, m, b, Waited)>> \o rest

\* PlayerCore.terminate(), after which a call on m goes on at pc
Terminate(pc, m, b, rest) ==
  /\ task' = NoProc
  /\ signalled' = signalled \cup (IF PlayerRunning THEN {task} ELSE {})
  /\ stack' = <<Frame(pc, m, b, Waited)>> \o rest

\* Variant: the timer is forgotten, not invalidated.
ForgetTimer == timers' = timers /\ pollingTimer' = NoProc

InvalidateTimer == timers' = timers \ {pollingTimer} /\ pollingTimer' = NoProc

\* CoreController.performStop()
PerformStop(pc, m, rest) ==
  /\ InvalidateTimer
  /\ Terminate(pc, m, FALSE, rest)

\* Variant: a playback that replaces another keeps the path of the old one.
PlayMediaKeepsPath(m, rest) ==
  /\ pauseAtStart' = (autoPlayState # "justFound" /\ ~PlayWhenOpened)
  /\ lastPlayedPathPre' = IF state = "stopped" THEN m ELSE lastPlayedPath
  /\ IF state # "stopped"
     THEN PerformStop("start", m, rest)
     ELSE /\ stack' = <<Frame("start", m, FALSE, NoProc)>> \o rest
          /\ UNCHANGED <<taskVars, timerVars>>

\* PlayerController.playMedia(m), and CoreController.playMedia to its
\* performStop()
PlayMedia(m, rest) ==
  /\ pauseAtStart' = (autoPlayState # "justFound" /\ ~PlayWhenOpened)
  /\ lastPlayedPathPre' = m
  /\ IF state # "stopped"
     THEN PerformStop("start", m, rest)
     ELSE /\ stack' = <<Frame("start", m, FALSE, NoProc)>> \o rest
          /\ UNCHANGED <<taskVars, timerVars>>

\* LogAnalyzer.stop(): what is not parsed yet is dropped; lines already posted
\* to the main thread are not.
AnalyzerKeepsRunning == UNCHANGED ops   \* variant: stop() does nothing
StopAnalyzer == ops' = {}

-----------------------------------------------------------------------------
(* What the user does.                                                     *)

Open(m) ==
  /\ UserTurn /\ Room
  /\ PlayMedia(m, <<>>)
  /\ UNCHANGED <<procVars, notice, readVars, logVars, state, currentTime,
                 lastPlayedPath, autoVars, power, bookVars, late>>

\* togglePlayPause() with no playback: play the last file again
Replay ==
  /\ UserTurn /\ Room
  /\ state = "stopped" /\ lastPlayedPath # NoMedia
  /\ PlayMedia(lastPlayedPath, <<>>)
  /\ UNCHANGED <<procVars, notice, readVars, logVars, state, currentTime,
                 lastPlayedPath, autoVars, power, bookVars, late>>

TogglePause ==
  state' = CASE state = "playing" -> "paused"
             [] state = "paused" -> "playing"
             [] OTHER -> state

\* Variant: resuming does not take the power assertion again.
TogglePlayPauseSleepy ==
  /\ UserTurn /\ state # "stopped"
  /\ TogglePause
  /\ power' = (power /\ state' # "paused")
  /\ UNCHANGED <<procVars, notice, taskVars, readVars, logVars, timerVars,
                 currentTime, pauseAtStart, pathVars, autoVars, bookVars, stack,
                 late>>

\* togglePlayPause() with a playback
TogglePlayPause ==
  /\ UserTurn /\ state # "stopped"
  /\ TogglePause
  /\ power' = CASE state' = "paused" -> FALSE
                [] state' = "playing" -> TRUE
                [] OTHER -> power
  /\ UNCHANGED <<procVars, notice, taskVars, readVars, logVars, timerVars,
                 currentTime, pauseAtStart, pathVars, autoVars, bookVars, stack,
                 late>>

\* frameStep pauses first; the power assertion is left alone
FrameStep ==
  /\ UserTurn /\ state = "playing"
  /\ TogglePause
  /\ UNCHANGED <<procVars, notice, taskVars, readVars, logVars, timerVars,
                 currentTime, pauseAtStart, pathVars, autoVars, power,
                 bookVars, stack, late>>

\* seekTo, changeTimeBy: the asked time is shown, queued log lines dropped
Seek ==
  /\ UserTurn /\ CouldAcceptCommand
  /\ currentTime' = IF PlayerRunning THEN task ELSE currentTime
  /\ StopAnalyzer
  /\ UNCHANGED <<procVars, notice, taskVars, readVars, pipe, mainQ, state,
                 timerVars, pauseAtStart, pathVars, autoVars, power,
                 bookVars, stack, late>>

\* The window is closed: PlayerController.stop()
Close ==
  /\ UserTurn
  /\ PerformStop("stop", NoMedia, <<>>)
  /\ UNCHANGED <<procVars, notice, readVars, logVars, state, currentTime,
                 pauseAtStart, pathVars, autoVars, power, bookVars, late>>

\* applicationShouldTerminate
Quit ==
  /\ UserTurn
  /\ PerformStop("quit", NoMedia, <<>>)
  /\ UNCHANGED <<procVars, notice, readVars, logVars, state, currentTime,
                 pauseAtStart, pathVars, autoVars, power, bookVars, late>>

\* playNext and playPrevious, with the file m their search found
Skip(m) ==
  /\ UserTurn /\ Room
  /\ lastPlayedPath \notin {NoMedia, m}
  /\ requesting' = TRUE
  /\ PerformStop("skip", m, <<>>)
  /\ UNCHANGED <<procVars, notice, readVars, logVars, state, currentTime,
                 pauseAtStart, pathVars, autoPlayState, power, bookVars, late>>

-----------------------------------------------------------------------------
(* What is left of a call after terminate() has returned.                  *)

StopReturns ==
  /\ Resumes("stop")
  /\ lastPlayedPath' = NoMedia
  /\ stack' = Tail(stack)
  /\ UNCHANGED <<procVars, notice, taskVars, readVars, logVars, state,
                 timerVars, currentTime, pauseAtStart, lastPlayedPathPre,
                 autoVars, power, bookVars, late>>

QuitReturns ==
  /\ Resumes("quit")
  /\ lastPlayedPath' = NoMedia
  /\ saved' = bookmarks
  /\ quitted' = TRUE
  /\ stack' = Tail(stack)
  /\ UNCHANGED <<procVars, notice, taskVars, readVars, logVars, state,
                 timerVars, currentTime, pauseAtStart, lastPlayedPathPre,
                 autoVars, power, bookmarks, late>>

\* stop() has returned to playNext/playPrevious, which loads the file
SkipReturns ==
  /\ Resumes("skip")
  /\ lastPlayedPath' = NoMedia
  /\ PlayMedia(stack[1].media, Tail(stack))
  /\ UNCHANGED <<procVars, notice, readVars, logVars, state, currentTime,
                 autoVars, power, bookVars, late>>

\* Variant: the displayed time is not reset.
StartKeepsTime ==
  /\ Resumes("start")
  /\ Terminate("launch", stack[1].media, pauseAtStart /\ HasStPause, Tail(stack))
  /\ UNCHANGED <<procVars, notice, readVars, logVars, state, timerVars,
                 currentTime, pauseAtStart, pathVars, autoVars, power, bookVars,
                 late>>
\* CoreController.playMedia after performStop(), PlayerCore.playMedia up to
\* its own terminate()
Start ==
  /\ Resumes("start")
  /\ currentTime' = NoProc
  /\ Terminate("launch", stack[1].media, pauseAtStart /\ HasStPause, Tail(stack))
  /\ UNCHANGED <<procVars, notice, readVars, logVars, state, timerVars,
                 pauseAtStart, pathVars, autoVars, power, bookVars, late>>

\* Variant: the termination notice is not observed.
ObserveReadsOnly(p) == UNCHANGED watched /\ armed' = [armed EXCEPT ![p] = 1]

\* Variant: the output is observed, but no read is started.
ObserveEndsOnly(p) == watched' = watched \cup {p} /\ UNCHANGED armed

\* the observers of a new process, and the first read of its output
Observe(p) == watched' = watched \cup {p} /\ armed' = [armed EXCEPT ![p] = 1]

\* What a launch comes before: the end of an earlier process, a line of one.
Overtaken ==
  {what \in {"launchBeforeEnd", "launchBeforeLine"} :
     IF what = "launchBeforeEnd" THEN \E p \in Proc : notice[p] = "pending"
                                 ELSE ops \cup mainQ # {}}

\* PlayerCore.playMedia from its launch, playbackOpened, the polling timer,
\* and the end of both playMedia's
Launch ==
  /\ Resumes("launch") /\ launched < MaxProc
  /\ LET p == launched + 1
     IN /\ launched' = p
        /\ run' = [run EXCEPT ![p] = "running"]
        /\ media' = [media EXCEPT ![p] = stack[1].media]
        /\ stPause' = [stPause EXCEPT ![p] = stack[1].stpause]
        /\ task' = p
        /\ Observe(p)
        /\ pollingTimer' = p
        /\ timers' = timers \cup {p}
  /\ state' = "opened"   \* playbackOpened's togglePause() does nothing in it
  /\ autoPlayState' = IF autoPlayState = "justFound" THEN "playing" ELSE "invalid"
  /\ power' = TRUE
  /\ lastPlayedPath' = lastPlayedPathPre
  /\ lastPlayedPathPre' = NoMedia
  /\ stack' = Tail(stack)
  /\ late' = late \cup Overtaken
  /\ UNCHANGED <<begun, byForce, notice, signalled, logVars, currentTime,
                 pauseAtStart, requesting, bookVars>>

-----------------------------------------------------------------------------
(* What the run loop serves.                                               *)

\* Variant: the two ends are swapped.
BookmarkSwapped(p) ==
  IF ~KeepBookmarks \/ lastPlayedPath = NoMedia THEN bookmarks
  ELSE [bookmarks EXCEPT ![lastPlayedPath] =
          IF byForce[p] THEN NoBookmark ELSE currentTime]

\* playbackStopped: the position is kept after a stop by force, and forgotten
\* at the end of the file
BookmarkAfter(p) ==
  IF ~KeepBookmarks \/ lastPlayedPath = NoMedia THEN bookmarks
  ELSE [bookmarks EXCEPT ![lastPlayedPath] =
          IF byForce[p] THEN currentTime ELSE NoBookmark]

\* Variant: a stop by force is followed up, an end is not.
FollowsUpStop(p) ==
  /\ AutoPlayNext /\ byForce[p]
  /\ lastPlayedPath # NoMedia
  /\ NextOf[lastPlayedPath] # NoMedia
  /\ Room

\* the search for the next episode, which finds none beyond the bound
FollowsUp(p) ==
  /\ AutoPlayNext /\ ~byForce[p]
  /\ lastPlayedPath # NoMedia
  /\ NextOf[lastPlayedPath] # NoMedia
  /\ Room

\* Variant: the file that ended is loaded, not the one that was found.
PlayEndedAgain ==
  /\ autoPlayState' = "justFound"
  /\ pauseAtStart' = FALSE
  /\ lastPlayedPathPre' = lastPlayedPath
  /\ stack' = <<Frame("start", lastPlayedPath, FALSE, NoProc)>> \o stack
  /\ UNCHANGED <<requesting, power>>

\* auto-play-next: loadFiles finds the state stopped, so nothing is stopped
PlayNextEpisode ==
  /\ autoPlayState' = "justFound"
  /\ pauseAtStart' = FALSE
  /\ lastPlayedPathPre' = NextOf[lastPlayedPath]
  /\ stack' = <<Frame("start", NextOf[lastPlayedPath], FALSE, NoProc)>> \o stack
  /\ UNCHANGED <<requesting, power>>

Finalize ==
  /\ autoPlayState' = IF requesting THEN "justFound" ELSE "invalid"
  /\ power' = (power /\ requesting)
  /\ requesting' = FALSE
  /\ UNCHANGED <<pauseAtStart, lastPlayedPathPre, stack>>

KeepObservers == UNCHANGED watched   \* variant: none is removed

\* removeObserver(self): of every process, not only the one that ended
RemoveObservers == watched' = {}

\* taskHasTerminated, CoreController.hasTerminated, and
\* PlayerController.playbackStopped
HasTerminated(p) ==
  /\ RemoveObservers
  /\ state' = "stopped"
  /\ InvalidateTimer
  /\ StopAnalyzer
  /\ bookmarks' = BookmarkAfter(p)
  /\ IF FollowsUp(p) THEN PlayNextEpisode ELSE Finalize
  /\ UNCHANGED <<procVars, taskVars, armed, pipe, mainQ, currentTime,
                 lastPlayedPath, saved, quitted>>

\* didTerminateNotification, dropped when PlayerCore no longer observes p
Notice(p) ==
  /\ Dispatching /\ notice[p] = "pending"
  /\ notice' = [notice EXCEPT ![p] = "done"]
  /\ late' = IF p \in watched /\ mainQ # {} THEN late \cup {"endBeforeLine"}
                                         ELSE late
  /\ IF p \in watched
     THEN HasTerminated(p)
     ELSE UNCHANGED <<procVars, taskVars, readVars, logVars, state, timerVars,
                      currentTime, pauseAtStart, pathVars, autoVars, power,
                      bookVars, stack>>

\* readOutput: whatever process the data came from, it is the current task's
\* pipe that is read next
ReadOutput(p) ==
  /\ Dispatching /\ armed[p] > 0
  /\ pipe[p] # {} \/ run[p] = "exited"
  /\ pipe' = [pipe EXCEPT ![p] = {}]
  /\ LET spent == [armed EXCEPT ![p] = @ - 1]
     IN IF p \in watched /\ PlayerRunning
        THEN /\ ops' = ops \cup ({p} \X pipe[p])
             /\ armed' = [spent EXCEPT ![task] = @ + 1]
        ELSE /\ armed' = spent
             /\ UNCHANGED ops
  /\ UNCHANGED <<procVars, notice, taskVars, watched, mainQ, state, timerVars,
                 currentTime, pauseAtStart, pathVars, autoVars, power,
                 bookVars, stack, late>>

\* logAnalyzeFinished: a line says nothing of the process that printed it
Deliver(p, line) ==
  /\ Dispatching /\ <<p, line>> \in mainQ
  /\ mainQ' = mainQ \ {<<p, line>>}
  /\ state' = CASE line = "started" -> "playing"
                [] line = "startedPaused" -> "paused"
                [] OTHER -> state
  /\ currentTime' = IF line = "time" THEN p ELSE currentTime
  /\ UNCHANGED <<procVars, notice, taskVars, readVars, pipe, ops, timerVars,
                 pauseAtStart, pathVars, autoVars, power, bookVars, stack, late>>

\* getCurrentTime; the process answers with a line
Poll(t) ==
  /\ Dispatching /\ t \in timers
  /\ state = "playing" /\ PlayerRunning /\ "time" \in Logged
  /\ pipe' = [pipe EXCEPT ![task] = @ \cup {"time"}]
  /\ UNCHANGED <<procVars, notice, taskVars, readVars, ops, mainQ, state,
                 timerVars, currentTime, pauseAtStart, pathVars, autoVars,
                 power, bookVars, stack, late>>

-----------------------------------------------------------------------------
(* The mplayer processes and the log-parsing workers.                      *)

Begin(p) ==
  /\ ~quitted /\ run[p] = "running" /\ p \notin begun /\ "started" \in Logged
  /\ begun' = begun \cup {p}
  /\ pipe' = [pipe EXCEPT ![p] =
       @ \cup {IF stPause[p] THEN "startedPaused" ELSE "started"}]
  /\ UNCHANGED <<launched, run, media, stPause, byForce, notice, taskVars,
                 readVars, ops, mainQ, state, timerVars, currentTime,
                 pauseAtStart, pathVars, autoVars, power, bookVars, stack, late>>

\* status 0 at the end of the file, which may also win over a SIGTERM;
\* another status on an error or after a SIGTERM
Exit(p, status) ==
  /\ ~quitted /\ run[p] = "running"
  /\ run' = [run EXCEPT ![p] = "exited"]
  /\ byForce' = [byForce EXCEPT ![p] = (status # 0)]
  /\ notice' = [notice EXCEPT ![p] = "pending"]
  /\ UNCHANGED <<launched, media, stPause, begun, taskVars, readVars, logVars,
                 state, timerVars, currentTime, pauseAtStart, pathVars,
                 autoVars, power, bookVars, stack, late>>

\* LogAnalyzeOperation.main for one line
Analyze(p, line) ==
  /\ ~quitted /\ <<p, line>> \in ops
  /\ ops' = ops \ {<<p, line>>}
  /\ mainQ' = mainQ \cup {<<p, line>>}
  /\ UNCHANGED <<procVars, notice, taskVars, readVars, pipe, state, timerVars,
                 currentTime, pauseAtStart, pathVars, autoVars, power,
                 bookVars, stack, late>>

\* The application has ended.
Ended == quitted /\ UNCHANGED vars

UserStep ==
  \/ \E m \in Media : Open(m) \/ Skip(m)
  \/ Replay \/ TogglePlayPause \/ FrameStep \/ Seek \/ Close \/ Quit

ReturnStep == StopReturns \/ QuitReturns \/ SkipReturns \/ Start \/ Launch

ServeStep ==
  \/ \E p \in Proc : Notice(p) \/ ReadOutput(p) \/ Poll(p)
  \/ \E p \in Proc, line \in Line : Deliver(p, line)

ProcStep ==
  \/ \E p \in Proc : Begin(p) \/ \E status \in {0, 1} : Exit(p, status)
  \/ \E p \in Proc, line \in Line : Analyze(p, line)

Next == UserStep \/ ReturnStep \/ ServeStep \/ ProcStep \/ Ended

Spec == Init /\ [][Next]_vars

\* What the system owes without the user: the main thread goes on when it may,
\* the run loop serves its sources, a worker parses, a signalled player quits.
\* A wait looks at its process after every source it serves, so output that
\* keeps coming (of a playback started in the wait) does not hold it: strong.
Fairness ==
  /\ SF_vars(ReturnStep)
  /\ \A p \in Proc :
       /\ WF_vars(Notice(p)) /\ WF_vars(ReadOutput(p))
       /\ WF_vars(p \in signalled /\ \E status \in {0, 1} : Exit(p, status))
  /\ \A p \in Proc, line \in Line :
       WF_vars(Analyze(p, line)) /\ WF_vars(Deliver(p, line))

FairSpec == Spec /\ Fairness

-----------------------------------------------------------------------------
(* Properties.                                                             *)

\* The values the variables take; in particular only processes are signalled
\* (terminate() looks at task first) and no read count goes below zero.
TypeOK ==
  /\ launched \in 0 .. MaxProc
  /\ run \in [Proc -> {"unborn", "running", "exited"}]
  /\ media \in [Proc -> Media \cup {NoMedia}]
  /\ stPause \in [Proc -> BOOLEAN] /\ byForce \in [Proc -> BOOLEAN]
  /\ notice \in [Proc -> {"none", "pending", "done"}]
  /\ begun \subseteq Proc /\ signalled \subseteq Proc /\ watched \subseteq Proc
  /\ task \in Proc \cup {NoProc}
  /\ armed \in [Proc -> Nat]
  /\ pipe \in [Proc -> SUBSET Line]
  /\ ops \subseteq Proc \X Line /\ mainQ \subseteq Proc \X Line
  /\ state \in {"stopped", "opened", "playing", "paused"}
  /\ pollingTimer \in Proc \cup {NoProc} /\ timers \subseteq Proc
  /\ currentTime \in Proc \cup {NoProc}
  /\ pauseAtStart \in BOOLEAN /\ requesting \in BOOLEAN
  /\ power \in BOOLEAN /\ quitted \in BOOLEAN
  /\ lastPlayedPath \in Media \cup {NoMedia}
  /\ lastPlayedPathPre \in Media \cup {NoMedia}
  /\ autoPlayState \in {"invalid", "justFound", "playing"}
  /\ bookmarks \in [Media -> Proc \cup {NoProc, NoBookmark}]
  /\ saved \in [Media -> Proc \cup {NoProc, NoBookmark}]
  /\ stack \in Seq(Frames)
  /\ late \subseteq {"launchBeforeEnd", "launchBeforeLine", "endBeforeLine"}

\* With auto-play-next off, a process that runs is the one PlayerCore holds
\* or the one whose exit a call waits for (so at most one runs): terminate()
\* and the launch leave no player behind, whenever the notices arrive.
OneProcess ==
  ~AutoPlayNext =>
    \A p \in Proc : run[p] = "running" =>
      p = (IF Awaited = NoProc THEN task ELSE Awaited)

\* With auto-play-next off, no polling timer outlives its playback and none is
\* made beside another (playMedia replaces the field without invalidating it).
TimersStopped ==
  ~AutoPlayNext => /\ timers \subseteq {pollingTimer}
                   /\ state = "stopped" => timers = {}

\* With auto-play-next off, the path that playbackStopped files the bookmark
\* under is that of the player that runs.
PathKnown ==
  ~AutoPlayNext /\ PlayerRunning => lastPlayedPath = media[task]

\* Why the three properties above hold: with auto-play-next off at most one call
\* is suspended, it has stopped the timer and, unless it is about to terminate,
\* given the task up, and a call about to launch m has left m in the path that
\* playbackOpened will publish.
OneCall ==
  ~AutoPlayNext /\ stack # <<>> =>
    /\ Len(stack) = 1 /\ timers = {}
    /\ stack[1].wait # NoProc \/ stack[1].pc # "start" => task = NoProc
    /\ stack[1].pc \in {"start", "launch"} => lastPlayedPathPre = stack[1].media

\* A wait in terminate() may start a playback (auto-play-next), but that one
\* never waits in turn: the run loop is nested once at most.
RecursionBounded ==
  /\ Len(stack) <= 2
  /\ Len(stack) = 2 => Awaited = NoProc

\* Why the nesting is bounded: the playback that is started in a wait finds no
\* player to wait for, since the process that ended was the only one observed
\* and the current one, and it returns before another notice can be served.
NestedOnce ==
  /\ Len(stack) <= 2
  /\ Len(stack) = 2 =>
       /\ stack[1].pc \in {"start", "launch"}
       /\ stack[1].wait = NoProc /\ stack[2].wait # NoProc
       /\ watched = {} /\ ~PlayerRunning
  /\ Awaited # NoProc /\ task # NoProc => watched \subseteq {task}
  /\ \A p \in Proc :
       /\ p > launched => run[p] = "unborn"
       /\ notice[p] = "pending" => run[p] = "exited"

\* With auto-play-next, no player that was told to stop came to the end of its
\* file first.  If two do so in the waits of one replacement, the episode that
\* the second is followed by plays on beside the file that was asked for:
\* playMedia puts the new task in its place without looking (PlayerCore, line 62).
StopsWin == AutoPlayNext => \A p \in signalled : run[p] = "exited" => byForce[p]
\* The end of every player was served before the next was launched.
EndsInOrder == "launchBeforeEnd" \notin late /\ StopsWin
\* So was every line it had posted.
LinesInOrder == EndsInOrder /\ "launchBeforeLine" \notin late
\* And these lines were delivered before its end was served.
Orderly == late = {} /\ StopsWin

\* Orderly so far, and back in the run loop, the state is stopped exactly when no
\* player runs, but for the time until its termination notice is served.
SessionAgrees ==
  Orderly /\ stack = <<>> =>
    (state # "stopped" <=> PlayerRunning \/ \E p \in Proc : notice[p] = "pending")

\* While ends come in order, no pipe is read twice at a time, although readOutput
\* re-arms the current task's pipe whatever process the data came from.  A read
\* of the old pipe that is served after the next launch and before the old end
\* is served would arm the new pipe twice.
OneReader == EndsInOrder => \A p \in Proc : armed[p] <= 1

\* While ends and lines come before the next launch, a bookmark holds a position
\* of the file it is filed under, although log lines carry no process and the path
\* is changed separately.  Lines that are delivered after the end of their player
\* was served, or after its stop has returned, do no harm until the next launch.
BookmarkOwn ==
  LinesInOrder =>
    \A m \in Media : bookmarks[m] \in Proc => media[bookmarks[m]] = m

\* Orderly so far, the display is kept awake while a playback is shown as playing.
PlayingKeepsAwake == Orderly /\ state = "playing" => power

\* A quit that stopped a player has written a position for its file, unless the
\* end of the player was not served in the wait: while ends come in order, the
\* late notice is the only way to lose the position.
QuitSavesPosition ==
  [][EndsInOrder /\ KeepBookmarks /\ ~quitted /\ quitted' =>
       \A p \in Proc : p = Awaited /\ byForce[p] /\ notice[p] = "done" =>
         saved'[media[p]] # NoBookmark]_vars

\* The playback that is shown, until its end is reported: the newest process and
\* the file it was started on.
File == IF state = "stopped" THEN NoMedia ELSE <<launched, media[launched]>>
Session == INSTANCE PlaySession WITH Media <- Proc \X Media,
                                     state <- state, file <- File

\* As long as a behaviour is orderly, the controller's state goes through whole
\* playbacks, one file each: no stop is skipped when a playback is replaced, and
\* no line of an ended player starts one.  (What is not orderly stays so, so this
\* is []Orderly => Session!Spec, and says it of every prefix too.)
SessionSpec ==
  /\ Session!Init
  /\ [][Orderly' => [Session!Next]_<<state, File>>]_vars

\* Every stop, replacement and launch returns to the run loop.
MainReturns == stack # <<>> ~> stack = <<>>

\* What the current player prints is read, unless the end of an earlier player,
\* served late, has taken its observers away.
OutputIsRead ==
  PlayerRunning /\ pipe[task] # {}
    ~> ~PlayerRunning \/ pipe[task] = {} \/ quitted \/ ~EndsInOrder

\* The end of the current player is shown, unless something was overtaken: a
\* started line that is delivered after the end was served takes the state back.
EndIsReported ==
  task # NoProc /\ run[task] = "exited"
    ~> \/ task = NoProc \/ run[task] = "running" \/ state = "stopped"
       \/ quitted \/ late # {}

\* The newest player ended by itself on m, whose next episode is there, and
\* nothing else is going on.
EndsWithNext(m) ==
  /\ EndsInOrder /\ AutoPlayNext /\ launched # NoProc /\ Room /\ stack = <<>>
  /\ notice[launched] = "pending" /\ ~byForce[launched]
  /\ lastPlayedPath = m /\ NextOf[m] # NoMedia

\* With auto-play-next, the end of a file with a next episode is followed by
\* the launch of that episode, unless the user closes or quits, or launches
\* something else, before the end is served.
EpisodeFollows ==
  \A m \in Media :
    EndsWithNext(m) ~> \/ PlayerRunning /\ media[task] = NextOf[m]
                       \/ lastPlayedPath = NoMedia \/ ~EndsInOrder

=============================================================================
