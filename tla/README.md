# A TLA+ model of MPlayerX

MPlayerX is a movie player for macOS. The application, written in Swift, is a front end: it
launches the program mplayer, a process for each file, writes commands to its input, reads what
it prints, and shows the frames it puts in shared memory. This directory models the parts of
the front end where that work interleaves, and those parts of mplayer that it rests on: the
video driver, the stream cache, the pause and command loops. TLC checks them on small
instances, and TLAPS proves their main safety properties for all values of the constants.

Paths are those of `src/`; where no directory is given, `src/MPlayerX/`.

## 1. Inventory

| Component | State it keeps | Operations | Modelled |
|---|---|---|---|
| `PlayerCore` | `task`; observers of a process and its pipes | `terminate`, `playMedia`, `sendStringCommand`, `readOutput`, `taskHasTerminated` | `Playback` |
| `CoreController` | `state`, `pollingTimer`, `movieInfo`, the mapped memory | `playMedia`, `performStop`, `togglePause`, `frameStep`, seeks, `hasTerminated`, `logAnalyzeFinished`, `voStart/voStop/voRender` | `Playback`, `VideoOutput` |
| `PlayerController` | last path and the one before, auto-play state, power assertion | `loadFiles`, `playMedia`, `stop`, `togglePlayPause`, `seekTo`, the delegate calls of a playback | `Playback` |
| `PlayListController` | `requestingNextOrPrev` | `playNext`, `playPrevious`, the episode search | `Playback`; the search in `EpisodeSearch` |
| `AppController` | bookmarks | opening files, `applicationShouldTerminate` | `Playback` (quit, bookmarks) |
| `LogAnalyzer` | an operation queue | `analyze`, `stop`, the parsing operation | `LogAnalyzer`, `LogChannel` |
| `DisplayLayer` | frames, current frame, geometry | `start`, `stop`, `render`, `draw`, `reshape` | `VideoOutput` (frames) |
| `RootLayerView`, `PlayerWindow` | displaying, full-screen status, saved frames | start and stop of a display, full screen, resize, close | `VideoOutput` (start and stop), `Playback` (close) |
| mplayer's `vo_corevideo` (`src/mplayer/libvo/vo_corevideo.m`) | page, shared memory, proxy | `config`, `draw_image`, `flip_page`, `uninit` | `VideoOutput` |
| mplayer's stream cache (`src/mplayer/stream/cache2.c`) | the ring, its window, the reader's position, a command | fill, read, seek, stream commands, prefill, uninit | `StreamCache`, `ByteStream` |
| mplayer's command queue, main loop and `pause_loop` (`src/mplayer/mplayer.c`, `command.c`, `input/input.c`) | the queue, `osd_function`, `was_paused` | taking, peeking at and running commands | `PauseMirror`, with the commands of `CoreController` |
| `MovieInfo`, `PlayingInfo`, track records | lists of tracks, current ids, position | filled from log lines, reset between files | position only; planned |
| `ParameterManager` | launch settings | `arrayOfParameters`, `reset` | paused start only; planned |
| `SubConverter`, `CharsetQueryController` | work directory | find, guess and convert subtitles before a launch | no |
| `ControlUIView`, `OsdText`, `TitleView`, cells | what is shown, auto-hide timers, menus | user actions, notifications | no; planned in part |
| `ShortCutManager`, Apple Remote | the held button | events to actions | no |
| `OpenURLController`, `PrefController`, `InspectorController`, `EqualizerController`, `VideoTunerController`, `AODetector` | panels, sliders, device list | | no |
| the rest of mplayer, BGHUDAppKit, UniversalDetector, the remote's framework, scripts | | | vendored; mplayer's lines and exits are external actions |

**How they interact.** A user action runs on the main thread through `PlayerController` to
`CoreController` to `PlayerCore`. mplayer answers with lines on a pipe: `readOutput` gives them
to `LogAnalyzer`, whose operations run on other threads and post what they find back to the
main thread, where `CoreController` changes its state and its delegate, `PlayerController`, is
called. The end of a process arrives as a notification of the run loop. Frames take another
path: the driver in the mplayer process calls `start`, `render` and `stop` of `CoreController`
as distributed-object messages, served on a render thread of its own. Inside mplayer the
demuxer reads the file through a cache that a second process fills.

**What is hard.** (1) `PlayerCore.terminate` waits in `waitUntilExit`, which runs the run loop:
code that looks sequential is suspended in the middle while notifications, lines and timers are
handled, and one of these may start the next episode. (2) Nothing that a process sends back,
neither its lines nor the notice of its end, names the playback it belongs to. (3) The main
thread, the render thread and the driver wait for each other, and memory that is drawn from may
be unmapped by another thread. (4) A process may die at any point of that protocol. (5) Log
lines are split at whatever a read returned and are parsed concurrently. (6) MPlayerX never
asks mplayer whether it is paused: it keeps a state of its own, and mplayer's rules for what
ends a pause depend on which of its two loops takes the command. (7) The cache's two processes
share positions without a lock. (8) The episode search is arithmetic on file names. The file
`PROJECT.json` lists each of these hazards at its line, with the properties that watch it.

**What makes each part correct.** *Playback control:* one process at a time, one timer, one
read of a pipe; the state follows the process; a bookmark holds a position of its own file;
quitting does not lose one; the run loop does not nest without bound; calls return; the end is
shown and the next episode follows. *Video output:* the page on the screen is not written; what
is drawn is mapped; nothing stays mapped; the driver's calls return; nobody waits in a circle.
*Log analyzer:* entries arrive, once, as printed, in order within a read; `stop` ends and drops
the rest. *Tracks:* the current id is that of a listed track. *Episode search:* the next
episode is the file that follows by number, and the previous one is its inverse; going on by
itself ends. *Stream cache:* the reader gets the bytes of the file in their order, from inside
of the ring, and no call waits for ever. *Pause:* what is shown as paused is paused, what is
shown as playing gets to play. *Full screen:*
leaving restores what entering saved.

## 2. Plan

| Order | Module | What it is | Status |
|---|---|---|---|
| 1 | `Playback` | control of the player, all on one main thread with a re-entrant run loop | done |
| 1 | `PlaySession` | abstract: a playback is opened, started, paused, stopped, one at a time | done |
| 2 | `PlaybackProofs` | type correctness, one player at a time, bounded nesting | done |
| 2 | `PlaybackSession` | whole playbacks: what is shown belongs to the process, and `PlaySession` is implemented | done |
| 3 | `VideoOutput` | driver, render thread, main thread, layer, shared memory | done |
| 4 | `VideoProofs` | type correctness, the protocol stays in step | done |
| 5 | `LogChannel`, `LogAnalyzer` | the channel that `Playback` assumes, and the parser that implements it | done |
| 5 | `LogAnalyzerProofs` | the loop over the bytes, order within a read, and that refinement | done |
| 6 | `ByteStream`, `StreamCache` | what a demuxer expects, and the ring that implements it | done |
| 7 | `StreamCacheProofs`, `StreamCacheFile` | the window fits the ring, positions agree, copies stay inside; they are the file, and `ByteStream` is implemented | done |
| 8 | `PauseMirror` | pause and play across MPlayerX and mplayer | done |
| 8 | `PauseMirrorProofs` | what is shown as paused is paused, one frame for a step | done |
| 9 | `EpisodeSearch` | the search for the next and previous file, against a reference definition | done |
| 9 | `EpisodeProofs` | numbers and their digits; the order of series and seasons; "next" never comes back | done |
| 10 | `MovieTracks` | track lists and current ids as lines arrive, with the reset between files | planned |
| 11 | `FullScreen` | the two full-screen methods over start and stop of a display, window frame and level | planned |
| 12 | `ControlBar` | auto-hide, track menus and the play button as a view of `PlaySession` | planned |
| 13 | `ParameterList` | the argument list as a function of the settings | planned |

`LogAnalyzer` refines `LogChannel`, which has the actions that `Playback` performs on its
variables `pipe`, `ops` and `mainQ`; `Playback` refines `PlaySession`; `StreamCache` refines
`ByteStream`. `PauseMirror` composes the commands of `CoreController` with mplayer's two loops.
`FullScreen` would compose with the display's part of `VideoOutput`, `ControlBar` and
`MovieTracks` with `PlaySession`.

Of the properties that TLC checks and TLAPS can state, none is left without a theorem but those
that `episode_ten` and the other two disagreements refute; what is left are proofs about the
planned modules.

## 3. Modules

### Playback

One variable for each field of the code that decides control: the header of the module names
them. A process is a number; `launched` is the newest. The queues that the run loop and the
threads hold are sets: `pipe` (printed, not read), `ops` (read, not parsed), `mainQ` (posted
to the main thread), and `notice`, the termination notification of each process.

*The run loop.* All the code modelled runs on the main thread. A handler is one action,
except that it ends where `terminate` waits. What is left of a call is then a frame on `stack`:
which call it is, its file, and the process it waits for. `Dispatching` says when the run loop
serves its sources: with an empty stack, or inside the innermost wait. User actions
(`UserTurn`) need an empty stack, for `waitUntilExit` runs the default mode, which delivers no
window events. A call goes on by `Resumes` when its process has exited. Several waits in a
row (`CoreController.playMedia` stops and then `PlayerCore.playMedia` terminates) are
`Start` and `Launch`, each with its own wait if the task is still running.

| Actions | Code |
|---|---|
| `Open`, `Replay`, `TogglePause`, `TogglePlayPause`, `FrameStep`, `Seek`, `Close`, `Quit`, `Skip` | the user's calls of `PlayerController`, `PlayListController`, `AppController` |
| `StopReturns`, `QuitReturns`, `SkipReturns`, `Start`, `Launch` | what follows a wait |
| `Notice` (with `HasTerminated`, `BookmarkAfter`, `FollowsUp`, `PlayNextEpisode`, `Finalize`) | `taskHasTerminated`, `hasTerminated`, `playbackStopped`, in one step as in the code |
| `ReadOutput`, `Deliver`, `Poll` | `readOutput`, `logAnalyzeFinished`, `getCurrentTime` |
| `Analyze`, `Begin`, `Exit` | a worker, and the process (external) |

*Data left out.* Files are model values and the next episode is a constant function, for
the search looks only at the disk. A position is the process that reported it: that is what
the properties tell apart. Command lines that change no state (volume, delays) are left out.
The exit status is 0 or not; a process that was signalled may exit with either, as mplayer
does when the signal meets the end of the file.

*What is overtaken.* The run loop may serve the notice of an exit before or after the wait for
that process returns, and lines posted by a worker likewise. Nothing in the code enforces an
order: the comment at `CoreController.swift:501` counts on the cleanup inside of `terminate`,
those at `PlayListController.swift:135` and `:166` say that the callback "isn't guaranteed to
happen synchronously within -stop". The model allows every order, in every run; a wait may
return, and the user may act, with anything still to be served. A history variable, `late`,
remembers what was overtaken: the end of an earlier process by a launch (`launchBeforeEnd`), a
line of one by a launch (`launchBeforeLine`), a line of a process by its own end
(`endBeforeLine`). Each property about whole playbacks is an implication from the least of these
that it needs, and the mutants and proofs are of that formula:

| Needs | Properties | What goes wrong otherwise |
|---|---|---|
| nothing | `OneProcess`, `TimersStopped`, `PathKnown` (auto-play-next off), `RecursionBounded`, `MainReturns` | |
| `EndsInOrder`: no launch before an earlier end | `OneReader`, `QuitSavesPosition` (if the end was served in the wait), `OutputIsRead`, `EpisodeFollows` | the cleanup of the old playback hits the new one: state, timer, observers; a read of the old pipe arms the new one twice |
| `LinesInOrder`: nor before an earlier line | `BookmarkOwn` | a position of the old file is shown, and filed, for the new one |
| `Orderly`: nor an end before a line of its player | `SessionAgrees`, `PlayingKeepsAwake`, `SessionSpec`, `EndIsReported` | a started line that was posted before the end and is delivered after it shows a playback that is over |

With auto-play-next, `EndsInOrder` has `StopsWin` too: a player that was told to stop does not
come to the end of its file first. Without it two of them in one replacement lead to a second
player (section 6); the proof found this, and TLC confirms it with four processes. Losing the
position at a quit whose wait does not serve the end is in the model, and no property denies it.

### PlaySession

What window, menus and inspector rely on: a playback is opened from stopped, started once,
toggled, and stopped before another opens. `Playback` maps `state` as it is and `file` to
the newest process with its file while the state is not stopped, so that a file that replaces
itself is another playback. The property (`SessionSpec`) is `[]Orderly => Session!Spec`, said of
every prefix of a behaviour.

### VideoOutput

The driver (`vo`) goes through idle, writing a page, and waiting for one of its calls; a call
is a record in `inbox` until the render thread serves it. `config` is two steps, for the
display that is on is stopped before new memory is made. A mapping is named by the segment,
the memory object one `config` creates, so that memory of an earlier `config` differs from that
of a later one under the same name. The render thread's service of `start` is split where it
waits for the main thread (`Prepare`), `render` and a redraw are split between picking the
frame under the lock and uploading it, and `stop` between the layer letting go of its frames
and `munmap`. The main thread redraws the layer (`Redraw`, `Redrawn`) when the window changes,
and handles the end of a process (`HasTerminated`), where it waits for the render thread if
memory is still mapped. `Crash` is the death of a process at any point; `crashed` remembers it,
for most properties only hold as long as every process ends by itself.

A launch does not look whether the end of the last process has been served
(`PlayerCore.swift:36`), so `notices` may hold that of an earlier process while the new one
shows frames. As long as it is observed (`watched`: the first end that is served removes all
observers), serving it finds `imageData` set by the new process and stops that one's display
(`CoreController.swift:262`). `hit` remembers this. The frames' properties hold even so;
`CallsReturn` does not, for if the new process is then inside its start call both threads
wait for each other, without any death (section 6).

Left out: pixel formats, failures of `shm_open` and CoreVideo, and all geometry.

### LogChannel and LogAnalyzer

`LogChannel` says what `Playback` assumes of the way from the pipe to the main thread: what
is printed is read at once, parsed in any order, posted once, and dropped if a stop comes
first. `LogAnalyzer` is the code: the text byte by byte (a few symbols: letters, the
separator, newline, and one that is no UTF-8), an operation for each read with its position,
`NextReturnMark`, `ValidStart` and the slicing as written, the queue's concurrency by
interleaving each turn of the loop, and `stop` that cancels and waits. The refinement mapping
takes a set of entries for each stage, computed by a definition (`Entries`) that says what an
entry is without scanning.

### ByteStream and StreamCache

`ByteStream` is what the demuxer is promised: each fetch gives a piece of the file from the
position on, perhaps short, perhaps empty at an end; a seek moves the position. `StreamCache`
is `cache2.c` as it runs on macOS, where the filler is a forked process. Every access of one
process to a field that the other writes is a step of its own, in the order of the code:
`cache_fill` is `Snapshot`, `Flush`, `FlushRest`, `MoveStream`, `Reserve`, `ReadStream`,
`SetEof`, `Grow`, `Wrap`; `cache_read` is `CheckMax`, `CheckMin`, `SeeEof`, `Measure`, `Index`,
`Copy`, `Advance`. The locals are in `plan` and in `size`, `newb`, `index`, `out`. A byte is
named by its position, so that a slot that was written over shows. What a stream may do to
the cache is in the model: a read may be short, a seek may leave the stream where it is
(`unmoved`), a stream command may fail. What the reader may do: go back, be interrupted while
it waits for bytes, leave a command that it waits for behind. `faults` records these, and each
property names those it does not survive.

Assumed: stores become visible in program order (the code has neither `volatile` nor a barrier
on these fields);
seeks are inside of the file; the blocking read of the stream delivers something in the end.

### PauseMirror

Both programs in one module, for the question is how their states relate. A command is named
by what it does to a pause (the header lists them). MPlayerX's side: `Toggle`, `FrameStep`,
`Poll`, `Adjust`, `Seek`, `LoadSub`, and `Deliver` for the lines. mplayer's side is a program
counter over its main loop: `Decode` shows a frame, `EnterPause` is "Handle PAUSE", `Peek`,
`Stay` and `Leave` are `pause_loop`, `Run` is `run_command` with the "pausing" prefixes, and
`NextFrame` ends the turn. A command that `pause_loop` only looks at stays in `cmd_queue`. Three
faults of the source are actions: `Starve` (a command thrown away while the stream waits),
`ReadFreed` (the use of a freed argument), and a subtitle that does not load; a seek that drops
the line of a loaded subtitle is the fourth.

### EpisodeSearch

A name is a sequence of digits and letters, without extension and case; a directory is a set
of names, listed in no order, so that the search returns any file that is the first match of
some listing. `DigitParts` has the maximal runs of digits as a set of ranges; the loops over
them from the right to the left are the rightmost that finds something, and `lastRange` is the
range made of the part next to the right (`NextLast`, `PrevLast`). `NextPrefixes`,
`PrevPrefixes`, `LastOfSeason` and the two searches are the code's; `Base` and `MaxInt` stand
for 10 and the largest `Int`, smaller to keep names short. Files arrive and vanish between
searches. All recursion is by recursive functions (`Value`, `Digits`, `IsTimesOfTen`), so that
the module can be proved about.

The reference is by numbers: in a series, where a title may follow the number, the next file is
the one whose number is greater by one; through seasons it is the one that `Follows`. Back from
a number that is a power of ten neither is claimed: `episode_ten` shows it for a series, and
from s1e10 of a season that has 90 episodes the search goes to one of 90 to 99 for the same
reason (the proof of the seasons found this).

## 4. Runs

| Run | Instance | Shows |
|---|---|---|
| `playback_session` | two files, each the next episode of the other (so they are alike: symmetry), two processes, lines "started" and "time", auto-play-next, bookmarks | types; while ends come in order one read at a time, and a quit that served the end has saved the position; while lines do, bookmarks are a file's own; while orderly, the state agrees with the process, the display is kept awake, `PlaySession` is implemented |
| `playback_late` | two files, two processes, auto-play-next off, with fairness | in any order one process, one timer, the right path; output is read while ends come in order |
| `playback_nested` | one file that is its own next episode, four processes, auto-play-next | in any order the run loop nests once at most; while orderly, `PlaySession` is implemented with playbacks that start in a wait |
| `playback_live` | two files, each the next episode of the other, two processes, auto-play-next, with fairness | calls return in any order; the end is shown while nothing is overtaken; the next episode, which is the other file, follows while ends come in order |
| `video_frames` | three processes, four `config`s, two pages, deaths at any time, late ends, with fairness | with deaths: what the render thread draws is mapped; until one: the page on the screen is not written, mappings match, nothing is left at an end, and calls return unless a late end stops a later display |
| `log_lines` | three messages out of five kinds, whole lines | the parser implements the channel, keeps the order within a read, `stop` ends, entries arrive |
| `cache_stream` | a ring of two sectors of two bytes, a file of seven, two events, with fairness | the window fits the ring, copies stay inside and are the file, positions agree, `ByteStream` is implemented, calls return |
| `pause_mirror` | four commands on their way, five events, with fairness | the two programs agree on the pause, one frame for a step or a seek, what is shown as playing plays |
| `episode_search` | 20 names of a series with titles, seasons of episodes with and without padding, and loose numbers, in base 3; four files at a time | next and previous follow the numbers, through seasons too; what "next" finds is not the file that plays nor one played before, if its numbers fit |
| `video_deadlock`, `log_split`, `episode_ten` | | disagreements, section 6 |

**Bounds.** `MaxProc` counts launches. Two are enough for everything one playback can do to
the next, since a call refers to the current process and the one it replaces; nesting needs a
process that ends, one launched in the wait and one that the outer call launches, and the
second player that `StopsWin` excludes needs one more, so `playback_nested` has four. In
`playback_session` two processes cover the replacement of one by another in every order of
notices and lines; `playback_live` follows one episode, to the other file. `Logged` leaves
out kinds of lines where the property does not depend on them. A pipe is a set, so an unread line is not repeated; `Poll` may print one
again. `MaxSegment` = 4 over three processes gives one process a reconfiguration and leaves
one for each of the others, so that a process can crash between two others. `MaxPrints` = 3 allows two reads that overtake each other with another being
printed. `Room` keeps a launch from being begun that the bound would not let finish.
The ring of `cache_stream` is the smallest the code makes (twice the fill limit, with a fill
limit of one sector instead of eight); the file is longer than the ring by more than a sector,
so that the ring turns, and its size is no multiple of a sector, so that a piece is short.
Two events let a seek follow a command or an interrupt. Short reads make the free part end
in the middle of a sector, which leads to the copy that wraps round. In `pause_mirror` MaxPipe = 4 has a step (two commands) with
a seek and a poll on their way; five events suffice for a pause, a seek, a
play, a subtitle and one fault. In base 3
numbers of two digits reach 8, with one power of the base in between, in a series as well as in
a season; four files hold a season and the start of the next beside a name that matches by
accident. Among the names no season whose own number is padded is complete, so that the carry
into such a number is left to the proof of `SeasonsInTurnHolds`, which covers any padding.

**Deadlock** is checked in the runs of `Playback` and of the log. `Playback` ends by quitting
(`Ended` stutters) and by its bound. It is not checked for `VideoOutput`, where one is the
finding of `video_deadlock`; for `StreamCache`, which ends by `Uninit`, and `PauseMirror`, which
may be paused for ever, liveness says more; and not for `EpisodeSearch`, which ends by a trap.

**Fairness.** The main thread goes on when it may and serves its sources (weak fairness of each
notice, read, line: a run loop serves every source that stays ready); a worker parses; a
process that was sent SIGTERM exits. Returning from a wait is strongly fair: the wait looks
at its process after each source it serves, so that output that keeps coming, of a playback
started in the wait, does not hold it. The user, the timer, a process that was not
signalled and what it prints are not fair. For the video, the render thread serves its
calls and the main thread finishes its drawing (weak); that the main thread gets to
`prepareForStartingDisplay` is strongly fair, since it may be drawing each time; the driver's
own steps are not fair. For the log, reading, delivering, the workers and the
return of `stop` are. The two processes of the cache run (weak fairness of each as a whole,
of the reader only for what it has begun: that the demuxer fetches, seeks or is interrupted is
not fair). mplayer runs (weak), MPlayerX reads its lines and its timer goes off (weak); that
mplayer gets to its next frame is strongly fair, since the timer's period of a second is longer
than the time to run the commands that wait.

**Mutants.** Each property has a variant of a definition, marked "Variant" in its module, that
makes TLC find it violated: a dropped guard, a timer not invalidated, a page not turned, a
wait added.

## 5. Proofs

All are checked by TLAPS with the constants left open: any set of files, any `NextOf`, any
bounds and user defaults allowed by the `ASSUME` of the module. An invariant that a proof needs
was checked by TLC on the instance of the run first.

* `PlaybackProofs`: `Spec => []TypeOK`, action by action. The lemma `TerminateType` states
  what `terminate` does to the stack, and is used by every call. With auto-play-next off, `OneProcess`, `TimersStopped`, `PathKnown` and
  `OneCall` (one suspended call at most), for any order of notices. None is inductive alone. The invariant `Settled` is
  their conjunction with `TypeOK`: that one process runs depends on the suspended call having
  given the task up (`OneCall`); that the launch publishes the right path depends on the frame
  on the stack agreeing with `lastPlayedPathPre`; that no second timer is made depends on a
  call having invalidated the first. And for every setting, `NestedOnce` is inductive and
  implies `RecursionBounded`. The argument: inside a wait the process waited for is the only one
  observed, so the one notice served there is its own; `removeObserver` then leaves none, so the
  playback started there finds nothing to wait for and no second notice is handled before it
  returns.
* `PlaybackSession`: whole playbacks, with auto-play-next on or off, by the invariant `Whole`. It
  has three levels, one for each row of the table in section 3. While ends come in order
  (`Ends`): the process that is observed is the newest, and the state is stopped only when there
  is none (`Watching`); the call that is suspended waits for that one (`Suspended`); reads are of
  it (`Reading`); the path is its file's (`Paths`); what a call has stopped and served is filed
  (`Stopping`). This gives `OneReader`, `QuitSavesPosition` and `OnePlayerHolds`, which is
  `OneProcess` for every user default. While lines come in order too (`Lines`): every line that
  is read and not yet delivered comes from the newest process, and so does the position. Lines
  name no process in the code; that they are not taken for another playback's depends on the
  analyzer's stop in `hasTerminated`. This gives `BookmarkOwn`. While behaviours are orderly
  (`Shown`): the line that starts a playback is on its way at most once, while the state is still
  opened (`StartsOnce`), and the display is kept awake (`Awake`). This gives `SessionAgrees`,
  `PlayingKeepsAwake`, and that every step is one of `PlaySession` or none
  (`SessionImplemented`). The premisses only ever become false (`InOrderBefore`), so each level
  may use those below it in the state before.
* `VideoProofs`: `Spec => []TypeOK`, crashes included. `Handshake` is inductive with `TypeOK`:
  until a process dies without `uninit`, the main thread waits for the render thread only
  after a hit (`MainInStep`), and for each place of the driver `CallInStep` says where the call
  is, what is mapped and what the layer shows: the segment that is written (`On`), or nothing
  since a late end has stopped it (`Blank`). `ShownNotWritten`, `FramesMapped` and `NothingLeft`
  follow from it, with their premise. `DrawnMapped` is
  proved with crashes, by an invariant of its own: only the render thread unmaps, and not
  while it draws.
* `LogAnalyzerProofs`: the loop of `nextReturnMark` is a recursive function over the text. That
  it finds the first newline and the last separator before it, for every text, is proved by
  induction: the function is the only solution of its equation, for of two that differ there
  would be a last byte where they do (`LeastExists`, from the well-foundedness of the
  naturals). The invariant `InTurn` keeps the parts of the text that the operations still have
  to parse apart from each other and from the entries that were posted: hence `ReadsInOrder`, and
  that nothing is posted twice. If every message ends a line (`WholeLines`), so does every read
  and every turn (`Lined`); then a turn takes the one entry it posts from those its
  operation holds (`TurnTakes`), and each step is one of `LogChannel` or none
  (`ChannelImplemented`). Without `WholeLines` this is false, and `log_split` shows the worst of
  it; with it, the trap can not happen (`WholeLinesNeverTrap`).
* `StreamCacheProofs`: `Spec => []TypeOK`, `WindowFits`, `PosAgrees` and `CopiesInRing`, for any
  sizes of ring, sector, read and file. The invariant has four parts: `Waits` (what is known at
  each place of a program, for instance that a command waits while the reader does), `Position`
  (where the player's position stands against `read_filepos`), `Ahead` (the order of the
  window's ends and the offset, with the turn of the ring that the filler is about to begin)
  and `Seen` (what the reader has read of the window is a bound for what it is now, as long as
  it only goes forward). TLC checked all four on the run's instance with three events.
* `StreamCacheFile`: `CopiesFile`, and that the cache implements `ByteStream`
  (`StreamImplemented`), until one of `faults` happens. The invariant `Faithful` says where the
  stream stands at each place of the filler, that each position of the window, and of what is
  written but not yet claimed, is in its slot (`Filed`; `Place` is the arithmetic of the ring),
  that the end is only said at the end, and that what the reader has and what it has still to
  copy make up a sector (`Copied`). What a write leaves alone (`WrittenKeeps`) is the point of it:
  the filler writes less than a turn ahead of the oldest byte it promised to keep.
* `PauseMirrorProofs`: `Spec => []TypeOK`, `PausedIsPaused` and `OneFrame`, for any number of
  commands on their way. What MPlayerX shows can only be compared with mplayer when nothing is
  under way; the invariant (`Mirrored`) says what the commands that wait will have made of
  mplayer (`Settles`): one of them pauses it, or it is paused or about to be again (`Holds`), and
  none after that one ends the pause.

* `EpisodeProofs`: for any base, any largest `Int` and any names. `Value`, `Digits` and
  `IsTimesOfTen` are recursive functions; that each meets its equation for every number, and
  complete induction and induction over sequences, are lemmas about sets and functions
  (`Recursion`, `Complete`, `SeqInduct`), with the least element behind them. On them rests the
  arithmetic: `ValueDigits` (a numeral has the value it was made of), `Canonical` (what stands in
  a name is a numeral behind zeros), `DigitsBelow` (`isTimesOfTen` tells where a numeral gets
  shorter). `StartMatches` turns the search's question, which names begin with a prefix, into one
  of numbers. `NeverAgainHolds` (what a search finds is neither the file that plays nor one that
  has played) needs an inductive invariant (`ForwardInv`): a file that has
  played is behind the one that plays. `Ahead` says that the two agree up to a place where a
  number begins in both, and that the number of the later one is greater there. Every "next"
  goes ahead (`NextAhead`), from whichever number it finds something, and what is ahead stays so
  (`StaysAhead`), even over files in between with a number too large for `Int`, which counts as
  0: "next" changes the last digit of such a number at most (`Trunc`). Files that
  come and go do not enter. `SeriesInTurnHolds` and `SeasonsInTurnHolds` need type correctness
  only: from the shape of the directory follows which part finds something first and what. For
  seasons, that "next" leaves a season only behind its last episode uses that none is left out
  (`Descend`: below an episode every smaller one is there), and so does the way back
  (`SeasonDown`, `LastIs`).

`OneCall`, `NestedOnce`, `OnePlayerHolds`, `Handshake`, `CacheFaithful`, `MirrorInvariant`,
`InTurnInvariant`, `PostedOnce`, `NextReturnMarkFinds`, `DigitsBelow` and
`StartMatches` are the strengthenings behind other properties, or say more than a run; they are
theorems without a run.

**Only model-checked:** liveness, which is out of the prover's reach (`ENABLED` too). The
theorems of the library that state induction take an operator as a parameter, which the provers
can not instantiate; induction is possible where sets and functions can stand for it, as above.

## 6. Disagreements between code and comments

With a run of their own:

* `video_deadlock`: a process that dies inside its start call leaves the main thread and
  the render thread waiting for each other.
* `log_split`: a read that ends at a separator aborts the program. mplayer prints the
  chapters of a DVD in such pieces (`src/mplayer/stream/stream_dvd.c:554`).
* `episode_ten`: back from episode 10 of a series padded to two digits, "9" is looked for before
  "09" (comment at `PlayListController.swift:289`) and finds 90 to 99 where there are so many.

Seen with the models, without a run; first the control of playback:

* `playNext` sets `requestingNextOrPrev` (`PlayListController.swift:172`) and leaves it to
  `playbackStopped` to reset it (comment at line 166). If the last file has already ended,
  `stop` finds no process, no callback comes, and the flag is taken by the next real stop,
  which then is not finalized.
* `stop` clears the path so that nothing is played again (comment at
  `PlayerController.swift:603`); if the file ends by itself in the wait, auto-play-next has
  started another, which plays on without a window.
* With auto-play-next, `playMedia` may replace the player twice in one call: the first wait
  serves the end of the old file, which starts the next episode, and the second wait
  (`PlayerCore.swift:62`) has to stop that one. If it too ends by itself before the signal
  counts, the episode after it is started in that wait, and `playMedia` launches its own
  player beside it, without a second look. It takes two files that end within the time a stop takes.
* `CoreController.swift:501` says that `terminate` will have the delegate clean up. It only
  signals and waits; if the notice is served after the next launch (`launchBeforeEnd`), the
  cleanup sets the state of the new playback to stopped, invalidates its timer and removes its
  observers, so that neither its output nor its end is handled. If a read of the old pipe comes in between
  too, the new pipe is read twice at a time.
* If the application quits before the notice is served, the position is not filed: the path
  is cleared and the bookmarks are written without it (`AppController.swift:335`).
* The same late notice stops the display of the new process (`CoreController.swift:262` says
  that `imageData` means a forgotten stop). If that process is then inside its start call, the
  main thread waits for the render thread without a run loop, and that one for the main thread
  in `RootLayerView.swift:1508`: the wait of `video_deadlock`, with no process that crashed.
* A line that says that the playback has started, posted before the end of its player is
  served and delivered after, shows a playback that is over as playing.
* `PlayerController.swift:966` says that a player without `-stpause` is paused when it has
  opened. `togglePause` does nothing in the opened state, so the file starts playing.
* `CoreController.swift:264` takes a nil `imageData` for a display that is off. A start call
  that was sent before the process died and is served after `hasTerminated` has looked turns
  the display on, and it stays on until the next playback ends.
* The layer's frames are "wrapped around the mmap'd bytes, never copied"
  (`DisplayLayer.swift:44`), and drawing takes the lock only to pick one (line 346). The main
  thread, redrawing, may upload a frame that the render thread unmaps in `voStop`
  (`CoreController.swift:394`).

Pause and play:

* `CoreController.swift:490` says that the position is only polled when not paused, since the
  poll ends a pause. A "pause -1" that comes while mplayer is out of `pause_loop`, showing the
  frame of a seek, does nothing (`src/mplayer/command.c:2749`), and the pause is kept; then it is
  the poll that ends it.
* A command that comes while the stream waits for data is thrown away
  (`src/mplayer/input/input.c:1929`). After a lost "pause" the film plays on and is shown as
  paused, until the next toggle.
* If a subtitle does not load while paused, or a seek stops the analyzer before the line of the
  loaded one is parsed, the film plays and is shown as paused: the remedy of
  `ControlUIView.swift:1660` counts on the line.
* `pause_loop` reads the argument of a "pause" after `mp_cmd_free` (`src/mplayer/mplayer.c:2574`
  to 2576).

The stream cache, of which `src/mplayer/stream/cache2.c:22` says that it "runs in 2 processes
(using fork()), but doesn't require locking":

* The reader finds nothing to read (line 128), then the filler adds the last bytes and finds the
  end of the file, then the reader looks at `eof` (line 130) and reports the end before these
  bytes. A later fetch gets them.
* The filler plans by the position it took first (line 179). A backward seek meanwhile passes
  the reader's check of the window, and the filler writes over the bytes that are copied; with
  three seeks and commands even the index can leave the ring.
* A command that was given up (line 654) is run later and moves `read_filepos`; the next fetch
  finds "read_filepos differs!!! report this bug" (line 554).

The episode search:

* A number too large for `Int` counts as 0 (`PlayListController.swift:217`), and its last digit
  is replaced by 1: a name that ends so finds itself, and auto-play-next plays it for ever. The
  largest `Int` itself overflows at line 218, which ends the program.

## 7. Not modelled, and why

Remote files and DVD folders take the same path as files, with other arguments. Of the property
setters `PauseMirror` keeps that they send a line that leaves a pause alone. `playbackError`
needs a missing mplayer binary. Track lists, full screen and the control bar are in the plan;
the panels, cells and formatters have no behaviour that interleaves with the rest.

Nearly all of the repository's C is mplayer: demuxers, codecs, filters, drivers for other
systems, the Windows loader, some 470,000 lines that MPlayerX uses as a program. Modelled are
the four places where that program's state meets MPlayerX's or where its own processes meet. A
share of those lines that would count can not be reached by models that stay faithful, and is
not sought: a demuxer or a codec is a sequential function of its input.

## Running

    tlc -workers 2 -config playback_session.cfg MCPlayback.tla
    tlapm PlaybackProofs.tla

The module of a run is `MCPlayback`, `MCVideoOutput`, `MCLogAnalyzer`, `MCStreamCache` or
`MCEpisodeSearch`, by the run's prefix, and `PauseMirror` itself for `pause_mirror`.
