---------------------------- MODULE VideoOutput ----------------------------
(***************************************************************************)
(* How frames get from mplayer to the screen.  The mplayer process (libvo  *)
(* driver vo_corevideo) writes them into shared memory and announces them  *)
(* by synchronous distributed-object calls, start, render and stop.        *)
(* CoreController serves these on its render thread: it maps the memory,   *)
(* wraps its pages into the frames of DisplayLayer and draws; starting a   *)
(* display also waits for the main thread to prepare the window.  The main *)
(* thread redraws the layer when the window changes, and when a process    *)
(* has ended with the memory still mapped it waits for the render thread   *)
(* to stop the display.                                                    *)
(*                                                                         *)
(* Each mapping of the shared memory is named by its segment, the memory   *)
(* object that one config() of the driver creates.                         *)
(***************************************************************************)
EXTENDS Integers, Sequences, FiniteSets

CONSTANTS
  MaxPlayer,    \* bound: how many mplayer processes are launched
  MaxSegment,   \* bound: how many times they configure the driver
  BufferCount   \* pages in a segment: 2, or 1 for upstream mplayer

ASSUME VideoAssumption ==
  /\ MaxPlayer \in Nat /\ MaxSegment \in Nat
  /\ BufferCount \in {1, 2}

Player == 1 .. MaxPlayer
Segment == 1 .. MaxSegment
Page == 0 .. BufferCount - 1
None == 0        \* no player, no segment
NoPage == -1
Buffer == [seg : Segment, page : Page]
NoBuffer == [seg |-> None, page |-> NoPage]

Call(op, n, p) == [op |-> op, page |-> n, from |-> p]
Calls == [op : {"start", "stop", "render"}, page : Page \cup {NoPage},
          from : Player]

VARIABLES
  player,      \* the newest process
  vo,          \* its video driver: gone, or what it is at
  connected,   \* mplayerosxProto is not nil
  page,        \* image_page: the page it writes next
  segments,    \* how many segments have been created
  linked,      \* the segment the buffer name stands for
  inbox,       \* calls that wait for the render thread
  stopAsked,   \* voStop, performed for the main thread, waits for it too
  rt,          \* render thread: loop, preparing, drawing or unmapping
  caller,      \* the process whose call it serves; None for the main thread
  drawn,       \* the buffer it draws
  mapped,      \* imageData
  live,        \* the segments mapped in MPlayerX
  frames, frameNow,  \* DisplayLayer
  displaying,  \* RootLayerView
  prepare,     \* prepareForStartingDisplay waits for the main thread
  main,        \* main thread: loop, drawing or waiting
  redrawn,     \* the buffer it draws
  watched,     \* the processes whose termination is observed
  notices,     \* the processes whose termination is not served yet
  crashed,     \* history: a process has died without uninit()
  hit          \* history: an earlier one's end has stopped a later one's display

driverVars == <<player, vo, connected, page, segments, linked>>
mapVars == <<mapped, live>>
layerVars == <<frames, frameNow, displaying>>
renderVars == <<rt, caller, drawn>>
endVars == <<watched, hit>>
mainVars == <<main, redrawn, endVars, notices, crashed>>
vars == <<driverVars, inbox, stopAsked, renderVars, mapVars, layerVars,
          prepare, mainVars>>

Init ==
  /\ player = None /\ vo = "gone" /\ connected = FALSE /\ page = 0
  /\ segments = 0 /\ linked = None
  /\ inbox = {} /\ stopAsked = FALSE
  /\ rt = "loop" /\ caller = None /\ drawn = NoBuffer
  /\ mapped = None /\ live = {}
  /\ frames = <<>> /\ frameNow = NoPage /\ displaying = FALSE
  /\ prepare = FALSE
  /\ main = "loop" /\ redrawn = NoBuffer
  /\ watched = {} /\ notices = {} /\ crashed = FALSE /\ hit = FALSE

-----------------------------------------------------------------------------
(* The mplayer process.                                                    *)

Waits == {"stopping", "starting", "rendering", "quitting"}
Send(op, n) == inbox' = inbox \cup {Call(op, n, player)}
EndReported == notices' = notices \cup {player}

\* A player is launched when the one before has exited; whether that one's end
\* has been served is not looked at.
Launch ==
  /\ vo = "gone" /\ main = "loop" /\ player < MaxPlayer
  /\ player' = player + 1 /\ watched' = watched \cup {player + 1}
  /\ vo' = "idle" /\ connected' = FALSE /\ page' = 0
  /\ UNCHANGED <<segments, linked, inbox, stopAsked, renderVars, mapVars,
                 layerVars, prepare, main, redrawn, notices, crashed, hit>>

\* config(): free_file_specific stops the display that is on; the name of the
\* shared memory, which a crashed process may have left, is removed
Config ==
  /\ vo = "idle" /\ segments < MaxSegment
  /\ IF connected THEN vo' = "stopping" /\ Send("stop", NoPage) /\ UNCHANGED linked
                  ELSE vo' = "opening" /\ linked' = None /\ UNCHANGED inbox
  /\ UNCHANGED <<player, connected, page, segments, stopAsked,
                 renderVars, mapVars, layerVars, prepare, mainVars>>

\* then it creates new memory under that name and connects
OpenSegment ==
  /\ vo = "opening"
  /\ segments' = segments + 1 /\ linked' = segments + 1
  /\ page' = 0 /\ connected' = TRUE
  /\ vo' = "starting" /\ Send("start", NoPage)
  /\ UNCHANGED <<player, stopAsked, renderVars, mapVars, layerVars, prepare,
                 mainVars>>

\* draw_image fills the page in place
Write ==
  /\ vo = "idle" /\ connected
  /\ vo' = "writing"
  /\ UNCHANGED <<player, connected, page, segments, linked, inbox, stopAsked,
                 renderVars, mapVars, layerVars, prepare, mainVars>>

\* flip_page announces it, and goes on with the other page when render returns
FlipPage ==
  /\ vo = "writing"
  /\ vo' = "rendering" /\ Send("render", page)
  /\ UNCHANGED <<player, connected, page, segments, linked, stopAsked,
                 renderVars, mapVars, layerVars, prepare, mainVars>>

\* uninit() at the end of the file, or after a SIGTERM
Uninit ==
  /\ vo = "idle"
  /\ IF connected
     THEN vo' = "quitting" /\ Send("stop", NoPage) /\ UNCHANGED <<linked, notices>>
     ELSE vo' = "gone" /\ EndReported /\ linked' = None /\ UNCHANGED inbox
  /\ UNCHANGED <<player, connected, page, segments, stopAsked, renderVars,
                 mapVars, layerVars, prepare, main, redrawn, endVars, crashed>>

Crash ==
  /\ vo # "gone"
  /\ vo' = "gone" /\ EndReported /\ crashed' = TRUE
  /\ UNCHANGED <<player, connected, page, segments, linked, inbox, stopAsked,
                 renderVars, mapVars, layerVars, prepare, main, redrawn, endVars>>

\* Variant: the page number is not taken back to the first page.
ReplyNextPage(p) ==
  IF p # player \/ vo \notin Waits THEN UNCHANGED <<driverVars, notices>>
  ELSE /\ vo' = CASE vo = "stopping" -> "opening" [] vo = "quitting" -> "gone"
                  [] OTHER -> "idle"
       /\ page' = IF vo = "rendering" THEN page + 1 ELSE page
       /\ linked' = IF vo \in {"stopping", "quitting"} THEN None ELSE linked
       /\ IF vo = "quitting" THEN EndReported ELSE UNCHANGED notices
       /\ UNCHANGED <<player, connected, segments>>

\* The call of process p returns, and the driver goes on: after a stop it
\* removes the name of the shared memory.
Reply(p) ==
  IF p # player \/ vo \notin Waits THEN UNCHANGED <<driverVars, notices>>
  ELSE /\ vo' = CASE vo = "stopping" -> "opening" [] vo = "quitting" -> "gone"
                  [] OTHER -> "idle"
       /\ page' = IF vo = "rendering" THEN BufferCount - 1 - page ELSE page
       /\ linked' = IF vo \in {"stopping", "quitting"} THEN None ELSE linked
       /\ IF vo = "quitting" THEN EndReported ELSE UNCHANGED notices
       /\ UNCHANGED <<player, connected, segments>>

-----------------------------------------------------------------------------
(* The render thread.                                                      *)

Shown == IF frameNow + 1 \in 1 .. Len(frames) THEN frames[frameNow + 1]
                                              ELSE NoBuffer
Wraps(s) == [i \in 1 .. BufferCount |-> [seg |-> s, page |-> i - 1]]

\* voStart: the memory of that name is mapped and wrapped, and the main thread
\* is asked to prepare the window; with no memory of that name, 1 is returned
ServeStart(c) ==
  /\ rt = "loop" /\ c \in inbox /\ c.op = "start"
  /\ inbox' = inbox \ {c}
  /\ IF linked # None
     THEN /\ mapped' = linked /\ live' = live \cup {linked}
          /\ frames' = frames \o Wraps(linked)
          /\ displaying' = TRUE
          /\ prepare' = TRUE /\ rt' = "preparing" /\ caller' = c.from
          /\ UNCHANGED <<driverVars, notices>>
     ELSE /\ Reply(c.from)
          /\ UNCHANGED <<mapVars, frames, displaying, prepare, rt, caller>>
  /\ UNCHANGED <<stopAsked, drawn, frameNow, main, redrawn, endVars, crashed>>

\* voRender: the layer is drawn on this thread
ServeRender(c) ==
  /\ rt = "loop" /\ c \in inbox /\ c.op = "render"
  /\ inbox' = inbox \ {c}
  /\ frameNow' = c.page /\ UNCHANGED <<frames, displaying>>
  /\ drawn' = Shown'
  /\ rt' = "drawing" /\ caller' = c.from
  /\ UNCHANGED <<driverVars, stopAsked, mapVars, prepare, mainVars>>

Drawn ==
  /\ rt = "drawing"
  /\ rt' = "loop" /\ caller' = None /\ drawn' = NoBuffer
  /\ Reply(caller)
  /\ UNCHANGED <<inbox, stopAsked, mapVars, layerVars, prepare, main, redrawn,
                 endVars, crashed>>

\* Variant: the frame number is kept.
StopLayerKeepsFrame == frames' = <<>> /\ UNCHANGED frameNow /\ displaying' = FALSE
\* Variant: the frames are kept.
StopLayerKeepsFrames ==
  UNCHANGED frames /\ frameNow' = NoPage /\ displaying' = FALSE

\* DisplayLayer.stop and coreControllerStop
StopLayer == frames' = <<>> /\ frameNow' = NoPage /\ displaying' = FALSE

\* voStop, called by a process
ServeStop(c) ==
  /\ rt = "loop" /\ c \in inbox /\ c.op = "stop"
  /\ inbox' = inbox \ {c}
  /\ StopLayer
  /\ rt' = "unmapping" /\ caller' = c.from
  /\ UNCHANGED <<driverVars, stopAsked, drawn, mapVars, prepare, mainVars>>

\* voStop, performed for the main thread
PerformStop ==
  /\ rt = "loop" /\ stopAsked
  /\ stopAsked' = FALSE
  /\ StopLayer
  /\ rt' = "unmapping" /\ caller' = None
  /\ UNCHANGED <<driverVars, inbox, drawn, mapVars, prepare, mainVars>>

\* Variant: voStop leaves the memory mapped.
ForgetMapping == mapped' = None /\ UNCHANGED live

Munmap == mapped' = None /\ live' = live \ {mapped}

\* the rest of voStop; the caller goes on
Unmap ==
  /\ rt = "unmapping"
  /\ Munmap
  /\ rt' = "loop" /\ caller' = None
  /\ IF caller # None
     THEN Reply(caller) /\ UNCHANGED main
     ELSE main' = "loop" /\ UNCHANGED <<driverVars, notices>>
  /\ UNCHANGED <<inbox, stopAsked, drawn, layerVars, prepare, redrawn, endVars,
                 crashed>>

-----------------------------------------------------------------------------
(* The main thread, in its run loop at the top or inside waitUntilExit.    *)

\* the window was resized, the aspect ratio changed, a snapshot is taken, ...
Redraw ==
  /\ main = "loop" /\ displaying
  /\ redrawn' = Shown /\ main' = "drawing"
  /\ UNCHANGED <<driverVars, inbox, stopAsked, renderVars, mapVars, layerVars,
                 prepare, endVars, notices, crashed>>

Redrawn ==
  /\ main = "drawing"
  /\ redrawn' = NoBuffer /\ main' = "loop"
  /\ UNCHANGED <<driverVars, inbox, stopAsked, renderVars, mapVars, layerVars,
                 prepare, endVars, notices, crashed>>

\* Variant: the render thread is not released.
PrepareForgotten ==
  /\ main = "loop" /\ prepare
  /\ prepare' = FALSE
  /\ UNCHANGED <<driverVars, inbox, stopAsked, renderVars, mapVars, layerVars,
                 mainVars>>

\* prepareForStartingDisplay, which lets the render thread return from voStart
Prepare ==
  /\ main = "loop" /\ prepare
  /\ prepare' = FALSE
  /\ rt' = "loop" /\ caller' = None
  /\ Reply(caller)
  /\ UNCHANGED <<inbox, stopAsked, drawn, mapVars, layerVars, main, redrawn,
                 endVars, crashed>>

\* taskHasTerminated, for a process that is observed still: no process is after
\* that; and hasTerminated, by which a display that is on, whichever process it
\* belongs to, is stopped on the render thread, for which the main thread waits
\* without running its run loop
HasTerminated(p) ==
  /\ main = "loop" /\ p \in notices
  /\ notices' = notices \ {p}
  /\ watched' = IF p \in watched THEN {} ELSE watched
  /\ IF p \in watched /\ mapped # None
     THEN stopAsked' = TRUE /\ main' = "waiting" /\ hit' = (hit \/ p # player)
     ELSE UNCHANGED <<stopAsked, main, hit>>
  /\ UNCHANGED <<driverVars, inbox, renderVars, mapVars, layerVars, prepare,
                 redrawn, crashed>>

-----------------------------------------------------------------------------

\* All processes have ended.
Ended ==
  /\ vo = "gone" /\ player = MaxPlayer /\ notices = {} /\ inbox = {}
  /\ main = "loop" /\ rt = "loop"
  /\ UNCHANGED vars

DriverStep == Launch \/ Config \/ OpenSegment \/ Write \/ FlipPage \/ Uninit \/ Crash
RenderStep ==
  \/ \E c \in inbox : ServeStart(c) \/ ServeRender(c) \/ ServeStop(c)
  \/ Drawn \/ PerformStop \/ Unmap
MainStep == Redraw \/ Redrawn \/ Prepare \/ \E p \in Player : HasTerminated(p)

Next == DriverStep \/ RenderStep \/ MainStep \/ Ended

Spec == Init /\ [][Next]_vars

\* The two threads go on when they may, and the main thread's run loop serves its
\* sources in turn, redraws or not.
FairSpec ==
  /\ Spec
  /\ WF_vars(RenderStep) /\ SF_vars(Prepare) /\ WF_vars(Redrawn)

-----------------------------------------------------------------------------
(* Properties.                                                             *)

\* The values the variables take.
TypeOK ==
  /\ player \in Player \cup {None} /\ (vo # "gone" => player \in Player)
  /\ vo \in {"gone", "idle", "opening", "writing"} \cup Waits
  /\ connected \in BOOLEAN /\ page \in Page
  /\ segments \in Segment \cup {None} /\ linked \in Segment \cup {None}
  /\ vo \in {"stopping", "opening"} => segments < MaxSegment
  /\ inbox \subseteq Calls /\ stopAsked \in BOOLEAN
  /\ rt \in {"loop", "preparing", "drawing", "unmapping"}
  /\ caller \in Player \cup {None}
  /\ drawn \in Buffer \cup {NoBuffer} /\ redrawn \in Buffer \cup {NoBuffer}
  /\ mapped \in Segment \cup {None} /\ live \subseteq Segment
  /\ frames \in Seq(Buffer) /\ frameNow \in Page \cup {NoPage}
  /\ displaying \in BOOLEAN /\ prepare \in BOOLEAN
  /\ watched \subseteq Player /\ notices \subseteq 1 .. player
  /\ crashed \in BOOLEAN /\ hit \in BOOLEAN
  /\ main \in {"loop", "drawing", "waiting"}

\* With two pages, and until a process dies without uninit(), the driver does not
\* write the page that was shown last.
ShownNotWritten ==
  ~crashed /\ BufferCount = 2 /\ vo = "writing" => frameNow # page

\* Until a process dies without uninit(), what the layer holds are the pages of
\* the memory that is mapped, all of them or none, and nothing else is mapped.
FramesMapped ==
  ~crashed => /\ frames \in {<<>>, Wraps(mapped)}
              /\ live = IF mapped = None THEN {} ELSE {mapped}

\* A frame that the render thread draws is not unmapped under it.
DrawnMapped == drawn # NoBuffer => drawn.seg \in live

\* When a process has ended with uninit(), as all before it, the display is off
\* and no memory is mapped, before its end is served.
NothingLeft ==
  ~crashed /\ vo = "gone" =>
    ~displaying /\ mapped = None /\ live = {} /\ frames = <<>>

\* The states of a display: off; on, with the segment the driver writes; blank,
\* since the end of an earlier process stopped it; and, inside a voStop that it
\* called or that was performed for the main thread, off but still mapped.
Hidden == frames = <<>> /\ frameNow = NoPage /\ ~displaying
Unmapped == mapped = None /\ live = {}
Mapped == mapped = linked /\ live = {linked}
Off == Hidden /\ Unmapped
On == Mapped /\ frames = Wraps(linked) /\ displaying
StopsForMain == rt = "unmapping" /\ caller = None
Blank ==
  /\ hit /\ frames = <<>> /\ ~displaying
  /\ Unmapped \/ (StopsForMain /\ Mapped /\ frameNow = NoPage)
Showing == linked # None /\ (On \/ Blank)

PageFree == BufferCount = 2 => frameNow # page

RenderFree == rt = "loop" \/ StopsForMain
Asked(op, n) == inbox = {Call(op, n, player)} /\ RenderFree
Served(at) == inbox = {} /\ rt = at /\ caller = player

MainInStep ==
  /\ main = "waiting" <=> (stopAsked \/ StopsForMain)
  /\ main = "waiting" => hit
  /\ StopsForMain => ~stopAsked /\ Hidden
  /\ vo # "gone" => player \notin notices
  /\ (prepare <=> rt = "preparing") /\ (rt # "drawing" => drawn = NoBuffer)

CallInStep ==
  /\ vo \notin Waits => inbox = {} /\ RenderFree
  /\ vo \in {"writing"} \cup Waits => connected
  /\ vo \in {"gone", "opening"} => Off /\ linked = None
  /\ vo = "idle" /\ ~connected => Off /\ linked = None
  /\ vo \in {"idle", "writing"} /\ connected => Showing /\ PageFree
  /\ vo = "starting" =>
       \/ Asked("start", NoPage) /\ Off /\ linked # None
       \/ Served("preparing") /\ On /\ linked # None /\ frameNow = NoPage
  /\ vo = "rendering" =>
       \/ Asked("render", page) /\ Showing
       \/ /\ Served("drawing") /\ Showing
          /\ frameNow = page /\ (drawn # NoBuffer => drawn.seg = linked)
  /\ vo \in {"stopping", "quitting"} =>
       \/ Asked("stop", NoPage) /\ Showing
       \/ /\ Served("unmapping") /\ Hidden
          /\ linked # None /\ (Mapped \/ (hit /\ Unmapped))

\* Until a process dies without uninit(), driver and render thread agree on where
\* a call is and on what is mapped then, and the main thread has a display to stop
\* only if the end of an earlier process is served after the next has started one.
Handshake == ~crashed => MainInStep /\ CallInStep

\* Every call of the driver returns, until a process has died without uninit(), or
\* the end of an earlier one, served late, has stopped the display of a later one.
CallsReturn == vo \in Waits ~> vo \notin Waits \/ crashed \/ hit

-----------------------------------------------------------------------------
(* What comments of the source say and the code does not do.               *)

\* The threads never wait for each other.
NoMutualWait == ~(main = "waiting" /\ rt = "preparing")
=============================================================================
