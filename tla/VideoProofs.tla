---------------------------- MODULE VideoProofs ----------------------------
(***************************************************************************)
(* Theorems about VideoOutput, for any number of processes and segments:   *)
(* types; and, until a process dies without uninit(), that the driver, the *)
(* render thread and the main thread stay in step.  What is drawn is       *)
(* mapped then, what is shown is not being written, and nothing is left    *)
(* at the end.                                                             *)
(***************************************************************************)
EXTENDS VideoOutput, TLAPS

LEMMA WrapsType == \A s \in Segment : Wraps(s) \in Seq(Buffer)
BY VideoAssumption DEF Wraps, Buffer, Page

LEMMA CallType ==
  ASSUME NEW op \in {"start", "stop", "render"}, NEW n \in Page \cup {NoPage},
         NEW p \in Player
  PROVE  Call(op, n, p) \in Calls
BY DEF Call, Calls

LEMMA ShownType ==
  ASSUME frames \in Seq(Buffer) PROVE Shown \in Buffer \cup {NoBuffer}
BY DEF Shown

\* What the return of a call leaves.
LEMMA ReplyType ==
  ASSUME TypeOK, NEW p \in Player \cup {None}, Reply(p)
  PROVE  /\ player' \in Player \cup {None} /\ (vo' # "gone" => player' \in Player)
         /\ vo' \in {"gone", "idle", "opening", "writing"} \cup Waits
         /\ connected' \in BOOLEAN /\ page' \in Page
         /\ segments' \in Segment \cup {None} /\ linked' \in Segment \cup {None}
         /\ vo' \in {"stopping", "opening"} => segments' < MaxSegment
         /\ notices' \subseteq 1 .. player'
<1>1. CASE p # player \/ vo \notin Waits
  BY <1>1 DEF Reply, TypeOK, driverVars
<1>2. CASE p = player /\ vo \in Waits
  <2>1. page' \in Page
    BY <1>2, VideoAssumption DEF Reply, TypeOK, Page
  <2>2. notices' \subseteq 1 .. player'
    <3>1. player' = player /\ notices' \subseteq notices \cup {player}
      BY <1>2 DEF Reply, EndReported
    <3>2. player \in 1 .. player
      BY <1>2 DEF TypeOK, Waits, Player
    <3>3. QED
      BY <3>1, <3>2 DEF TypeOK
  <2>3. QED
    BY <1>2, <2>1, <2>2 DEF Reply, TypeOK, Waits
<1>3. QED
  BY <1>1, <1>2

LEMMA StopLayerType ==
  ASSUME StopLayer
  PROVE  frames' \in Seq(Buffer) /\ frameNow' = NoPage /\ displaying' \in BOOLEAN
<1>1. frames' \in Seq(Buffer)
  BY DEF StopLayer
<1>2. ~displaying' /\ displaying' \in BOOLEAN
  BY Zenon DEF StopLayer
<1>3. QED
  BY <1>1, <1>2 DEF StopLayer

LEMMA TypeInit == Init => TypeOK
<1> SUFFICES ASSUME Init PROVE TypeOK
  OBVIOUS
<1>1. page \in Page
  BY VideoAssumption DEF Init, Page
<1>2. frames \in Seq(Buffer)
  BY DEF Init
<1>3. inbox \subseteq Calls /\ live \subseteq Segment
  BY DEF Init
<1>4. /\ player = None /\ vo = "gone" /\ segments = None /\ linked = None
      /\ caller = None /\ mapped = None /\ frameNow = NoPage
      /\ drawn = NoBuffer /\ redrawn = NoBuffer
  BY DEF Init, None
<1>5. /\ connected \in BOOLEAN /\ stopAsked \in BOOLEAN /\ displaying \in BOOLEAN
      /\ prepare \in BOOLEAN /\ watched = {} /\ notices = {}
      /\ rt = "loop" /\ main = "loop" /\ crashed = FALSE /\ hit = FALSE
  BY DEF Init
<1>6. QED
  BY <1>1, <1>2, <1>3, <1>4, <1>5 DEF TypeOK

LEMMA TypeDriver == TypeOK /\ DriverStep => TypeOK'
<1> SUFFICES ASSUME TypeOK, DriverStep PROVE TypeOK'
  OBVIOUS
<1> USE DEF mapVars, layerVars, renderVars, endVars, mainVars
<1>1. CASE Launch
  <2>1. player' \in Player /\ page' \in Page
    BY <1>1, VideoAssumption DEF Launch, TypeOK, Player, Page, None
  <2>2. vo' = "idle" /\ connected' \in BOOLEAN
    BY <1>1 DEF Launch
  <2>3. watched' \subseteq Player /\ notices' \subseteq 1 .. player'
    <3>1. /\ player' = player + 1 /\ player \in Nat /\ notices' = notices
          /\ watched' = watched \cup {player'}
      BY <1>1 DEF Launch, TypeOK, Player, None
    <3>2. QED
      BY <2>1, <3>1 DEF TypeOK
  <2>4. QED
    BY <1>1, <2>1, <2>2, <2>3 DEF Launch, TypeOK
<1>2. ASSUME NEW op \in {"start", "stop", "render"}, NEW n \in Page \cup {NoPage},
             Send(op, n), vo # "gone"
      PROVE  inbox' \subseteq Calls
  <2>1. Call(op, n, player) \in Calls
    BY <1>2, CallType DEF TypeOK
  <2>2. QED
    BY <1>2, <2>1 DEF Send, TypeOK
<1>3. CASE Config
  <2>1. inbox' \subseteq Calls
    BY <1>2, <1>3 DEF Config, TypeOK
  <2>2. /\ vo' \in {"stopping", "opening"} /\ segments < MaxSegment
        /\ player \in Player /\ linked' \in {linked, None}
    BY <1>3 DEF Config, TypeOK
  <2>3. QED
    BY <1>3, <2>1, <2>2 DEF Config, TypeOK, Waits
<1>4. CASE OpenSegment
  <2>1. inbox' \subseteq Calls
    BY <1>2, <1>4 DEF OpenSegment, TypeOK
  <2>2. segments + 1 \in Segment /\ 0 \in Page /\ player \in Player
    BY <1>4, VideoAssumption DEF OpenSegment, TypeOK, Segment, Page, None
  <2>3. /\ segments' \in Segment \cup {None} /\ linked' \in Segment \cup {None}
        /\ page' \in Page /\ connected' \in BOOLEAN /\ vo' = "starting"
    BY <1>4, <2>2 DEF OpenSegment, TypeOK
  <2>4. QED
    BY <1>4, <2>1, <2>2, <2>3 DEF OpenSegment, TypeOK, Waits
<1>5. CASE Write
  BY <1>5 DEF Write, TypeOK
<1>6. CASE FlipPage
  <2>1. inbox' \subseteq Calls
    BY <1>2, <1>6 DEF FlipPage, TypeOK
  <2>2. QED
    BY <1>6, <2>1 DEF FlipPage, TypeOK, Waits
<1>7. CASE Uninit
  <2>1. inbox' \subseteq Calls
    BY <1>2, <1>7 DEF Uninit, TypeOK
  <2>2. vo' \in {"quitting", "gone"} /\ player \in Player /\ linked' \in {linked, None}
    BY <1>7 DEF Uninit, TypeOK
  <2>3. notices' \subseteq 1 .. player'
    <3>1. player' = player /\ notices' \subseteq notices \cup {player}
      BY <1>7 DEF Uninit, EndReported
    <3>2. QED
      BY <2>2, <3>1 DEF TypeOK, Player
  <2>4. QED
    BY <1>7, <2>1, <2>2, <2>3 DEF Uninit, TypeOK, Waits
<1>8. CASE Crash
  <2>1. player \in Player /\ notices' = notices \cup {player} /\ player' = player
    BY <1>8 DEF Crash, EndReported, TypeOK
  <2>2. notices' \subseteq 1 .. player'
    BY <2>1 DEF TypeOK, Player
  <2>3. QED
    BY <1>8, <2>2 DEF Crash, TypeOK
<1>9. QED
  BY <1>1, <1>3, <1>4, <1>5, <1>6, <1>7, <1>8 DEF DriverStep

LEMMA TypeRender == TypeOK /\ RenderStep => TypeOK'
<1> SUFFICES ASSUME TypeOK, RenderStep PROVE TypeOK'
  OBVIOUS
<1> USE DEF mapVars, endVars
<1>1. ASSUME NEW c \in inbox, ServeStart(c) PROVE TypeOK'
  <2>1. c.from \in Player
    BY DEF TypeOK, Calls
  <2>2. CASE linked # None
    <3>1. linked \in Segment /\ frames' = frames \o Wraps(linked)
      BY <1>1, <2>2 DEF ServeStart, TypeOK
    <3>2. frames' \in Seq(Buffer)
      BY <3>1, WrapsType DEF TypeOK
    <3>3. player' = player /\ notices' = notices
      BY <1>1, <2>2 DEF ServeStart, driverVars
    <3>4. notices' \subseteq 1 .. player'
      BY <3>3 DEF TypeOK
    <3>5. /\ mapped' \in Segment /\ live' \subseteq Segment
          /\ displaying' \in BOOLEAN /\ prepare' \in BOOLEAN
          /\ rt' = "preparing" /\ caller' \in Player
      BY <1>1, <2>1, <2>2, <3>1 DEF ServeStart, TypeOK
    <3>6. QED
      BY <1>1, <2>2, <3>2, <3>3, <3>4, <3>5 DEF ServeStart, TypeOK, driverVars
  <2>3. CASE linked = None
    <3>1. Reply(c.from)
      BY <1>1, <2>3 DEF ServeStart
    <3>2. QED
      BY <1>1, <2>1, <2>3, <3>1, ReplyType DEF ServeStart, TypeOK
  <2>4. QED
    BY <2>2, <2>3
<1>2. ASSUME NEW c \in inbox, ServeRender(c) PROVE TypeOK'
  <2>1. c.from \in Player /\ c.page \in Page \cup {NoPage}
    BY DEF TypeOK, Calls
  <2>2. frames' \in Seq(Buffer)
    BY <1>2 DEF ServeRender, TypeOK
  <2>3. drawn' \in Buffer \cup {NoBuffer}
    BY <1>2, <2>2, ShownType DEF ServeRender, Shown
  <2>4. QED
    BY <1>2, <2>1, <2>2, <2>3 DEF ServeRender, TypeOK, driverVars, endVars, mainVars
<1>3. ASSUME NEW c \in inbox, ServeStop(c) PROVE TypeOK'
  <2>1. c.from \in Player
    BY DEF TypeOK, Calls
  <2>2. frames' \in Seq(Buffer) /\ frameNow' = NoPage /\ displaying' \in BOOLEAN
    BY <1>3, StopLayerType DEF ServeStop
  <2>3. inbox' \subseteq Calls /\ live' \subseteq Segment
    BY <1>3 DEF ServeStop, TypeOK
  <2>4. /\ player' = player /\ vo' = vo /\ connected' = connected /\ page' = page
        /\ segments' = segments /\ linked' = linked /\ stopAsked' = stopAsked
        /\ rt' = "unmapping" /\ caller' \in Player /\ drawn' = drawn
        /\ mapped' = mapped /\ prepare' = prepare
        /\ main' = main /\ redrawn' = redrawn /\ notices' = notices
        /\ watched' = watched /\ crashed' = crashed /\ hit' = hit
    BY <1>3, <2>1 DEF ServeStop, driverVars, endVars, mainVars
  <2>5. QED
    BY <2>2, <2>3, <2>4 DEF TypeOK
<1>4. CASE Drawn
  <2>1. Reply(caller) /\ caller \in Player \cup {None}
    BY <1>4 DEF Drawn, TypeOK
  <2>2. QED
    BY <1>4, <2>1, ReplyType DEF Drawn, TypeOK, layerVars
<1>5. CASE PerformStop
  <2>1. /\ frames' \in Seq(Buffer) /\ frameNow' = NoPage
        /\ displaying' \in BOOLEAN /\ stopAsked' \in BOOLEAN
    BY <1>5, StopLayerType DEF PerformStop
  <2>2. /\ player' = player /\ vo' = vo /\ connected' = connected /\ page' = page
        /\ segments' = segments /\ linked' = linked
        /\ inbox' = inbox /\ live' = live
        /\ rt' = "unmapping" /\ caller' = None /\ drawn' = drawn
        /\ mapped' = mapped /\ prepare' = prepare
        /\ main' = main /\ redrawn' = redrawn /\ notices' = notices
        /\ watched' = watched /\ crashed' = crashed /\ hit' = hit
    BY <1>5 DEF PerformStop, driverVars, endVars, mainVars
  <2>3. QED
    BY <2>1, <2>2 DEF TypeOK
<1>6. CASE Unmap
  <2>1. mapped' = None /\ live' \subseteq Segment
    BY <1>6 DEF Unmap, Munmap, TypeOK
  <2>2. CASE caller # None
    <3>1. Reply(caller) /\ caller \in Player \cup {None}
      BY <1>6, <2>2 DEF Unmap, TypeOK
    <3>2. QED
      BY <1>6, <2>1, <2>2, <3>1, ReplyType DEF Unmap, TypeOK, layerVars
  <2>3. CASE caller = None
    <3>1. main' = "loop" /\ UNCHANGED notices
      BY <1>6, <2>3 DEF Unmap
    <3>2. QED
      BY <1>6, <2>1, <2>3, <3>1 DEF Unmap, TypeOK, layerVars, driverVars
  <2>4. QED
    BY <2>2, <2>3
<1>7. QED
  BY <1>1, <1>2, <1>3, <1>4, <1>5, <1>6 DEF RenderStep

LEMMA TypeMain == TypeOK /\ MainStep => TypeOK'
<1> SUFFICES ASSUME TypeOK, MainStep PROVE TypeOK'
  OBVIOUS
<1> USE DEF mapVars, layerVars, endVars
<1>1. CASE Redraw
  <2>1. redrawn' \in Buffer \cup {NoBuffer}
    BY <1>1, ShownType DEF Redraw, TypeOK
  <2>2. QED
    BY <1>1, <2>1 DEF Redraw, TypeOK, driverVars, renderVars
<1>2. CASE Redrawn
  BY <1>2 DEF Redrawn, TypeOK, driverVars, renderVars
<1>3. CASE Prepare
  <2>1. Reply(caller) /\ caller \in Player \cup {None}
    BY <1>3 DEF Prepare, TypeOK
  <2>2. QED
    BY <1>3, <2>1, ReplyType DEF Prepare, TypeOK
<1>4. ASSUME NEW p \in Player, HasTerminated(p) PROVE TypeOK'
  <2>1. /\ stopAsked' \in BOOLEAN /\ main' \in {"loop", "waiting"} /\ hit' \in BOOLEAN
        /\ watched' \subseteq Player /\ notices' \subseteq 1 .. player'
    BY <1>4 DEF HasTerminated, TypeOK, driverVars
  <2>2. /\ player' = player /\ vo' = vo /\ connected' = connected /\ page' = page
        /\ segments' = segments /\ linked' = linked /\ inbox' = inbox
        /\ live' = live /\ mapped' = mapped /\ prepare' = prepare
        /\ rt' = rt /\ caller' = caller /\ drawn' = drawn /\ redrawn' = redrawn
        /\ crashed' = crashed
        /\ frames' = frames /\ frameNow' = frameNow /\ displaying' = displaying
    BY <1>4 DEF HasTerminated, driverVars, renderVars
  <2>3. QED
    BY <2>1, <2>2 DEF TypeOK
<1>5. QED
  BY <1>1, <1>2, <1>3, <1>4 DEF MainStep

LEMMA TypeStutter == TypeOK /\ UNCHANGED vars => TypeOK'
BY DEF TypeOK, vars, driverVars, renderVars, mapVars, layerVars, endVars, mainVars

\* Every variable keeps its type, with crashes and without.
THEOREM VideoTypeCorrect == Spec => []TypeOK
<1>1. TypeOK /\ [Next]_vars => TypeOK'
  BY TypeDriver, TypeRender, TypeMain, TypeStutter DEF Next, Ended
<1>2. QED
  BY <1>1, TypeInit, PTL DEF Spec

-----------------------------------------------------------------------------
(* Until a process dies without uninit(): the display, the call that the   *)
(* driver has made and the display that the main thread stops, in step.    *)

LEMMA DisplayKept ==
  ASSUME UNCHANGED <<mapVars, layerVars, rt, caller>>, hit => hit'
  PROVE  /\ (Off => Off') /\ (RenderFree => RenderFree')
         /\ linked' = linked => (Showing => Showing')
BY DEF Off, Hidden, Unmapped, RenderFree, StopsForMain, Showing, On, Blank, Mapped,
  Wraps, mapVars, layerVars

\* Off the voStop that is performed for the main thread, a display is on or taken away.
LEMMA ShowingIs ==
  ASSUME Showing, ~StopsForMain
  PROVE  linked # None /\ (On \/ (hit /\ frames = <<>> /\ ~displaying /\ Unmapped))
BY DEF Showing, Blank

LEMMA ShowingSame ==
  ASSUME Showing, ~StopsForMain, UNCHANGED <<linked, mapVars, frames, displaying, hit>>
  PROVE  Showing'
BY ShowingIs DEF Showing, On, Blank, Mapped, Unmapped, Wraps, mapVars

LEMMA PlayerCalls == TypeOK /\ vo # "gone" => player # None
BY DEF TypeOK, Player, None

LEMMA InStepInit == Init => MainInStep /\ CallInStep
BY DEF Init, MainInStep, CallInStep, StopsForMain, RenderFree, Off, Hidden, Unmapped,
  Waits, None

LEMMA MainDriver ==
  ASSUME ~crashed', TypeOK, MainInStep, DriverStep PROVE MainInStep'
<1>1. /\ UNCHANGED <<main, stopAsked, rt, caller, frames, frameNow, displaying,
                     prepare, drawn, hit>>
      /\ vo' # "gone" => player' \notin notices'
  <2> USE DEF renderVars, layerVars, endVars, mainVars
  <2>1. CASE Launch
    <3>1. player' \notin notices
      BY <2>1 DEF Launch, TypeOK, Player, None
    <3>2. QED
      BY <2>1, <3>1 DEF Launch
  <2>2. CASE Config
    BY <2>2 DEF Config, MainInStep
  <2>3. CASE OpenSegment
    BY <2>3 DEF OpenSegment, MainInStep
  <2>4. CASE Write \/ FlipPage
    BY <2>4 DEF Write, FlipPage, MainInStep
  <2>5. CASE Uninit
    BY <2>5 DEF Uninit, MainInStep
  <2>6. CASE Crash
    BY <2>6 DEF Crash
  <2>7. QED
    BY <2>1, <2>2, <2>3, <2>4, <2>5, <2>6 DEF DriverStep
<1>2. QED
  BY <1>1 DEF MainInStep, StopsForMain, Hidden

LEMMA CallDriver ==
  ASSUME ~crashed', TypeOK, CallInStep, DriverStep PROVE CallInStep'
<1> USE DEF renderVars, mainVars, endVars
<1>1. CASE Launch
  <2>1. /\ vo = "gone" /\ vo' = "idle" /\ ~connected'
        /\ UNCHANGED <<linked, inbox, rt, caller, hit, mapVars, layerVars>>
    BY <1>1 DEF Launch
  <2>2. inbox' = {} /\ RenderFree' /\ Off' /\ linked' = None
    BY <2>1, DisplayKept DEF CallInStep, Waits
  <2>3. QED
    BY <2>1, <2>2 DEF CallInStep, Waits
<1>2. CASE Config
  <2>1. /\ vo = "idle" /\ inbox = {} /\ RenderFree
        /\ UNCHANGED <<connected, rt, caller, hit, player, mapVars, layerVars>>
    BY <1>2 DEF Config, CallInStep, Waits
  <2>2. CASE connected
    <3>1. /\ vo' = "stopping" /\ inbox' = {Call("stop", NoPage, player)}
          /\ connected' /\ linked' = linked
      BY <1>2, <2>1, <2>2 DEF Config, Send
    <3>2. Asked("stop", NoPage)'
      BY <2>1, <3>1, DisplayKept DEF Asked, Call
    <3>3. Showing'
      BY <2>1, <2>2, <3>1, DisplayKept DEF CallInStep
    <3>4. QED
      BY <3>1, <3>2, <3>3 DEF CallInStep, Waits
  <2>3. CASE ~connected
    <3>1. vo' = "opening" /\ inbox' = {} /\ Off' /\ linked' = None /\ RenderFree'
      BY <1>2, <2>1, <2>3, DisplayKept DEF Config, CallInStep
    <3>2. QED
      BY <2>1, <2>3, <3>1 DEF CallInStep, Waits
  <2>4. QED
    BY <2>2, <2>3
<1>3. CASE OpenSegment
  <2>1. /\ vo = "opening" /\ inbox = {} /\ RenderFree /\ Off
        /\ UNCHANGED <<rt, caller, hit, player, mapVars, layerVars>>
    BY <1>3 DEF OpenSegment, CallInStep, Waits
  <2>2. Off' /\ RenderFree'
    BY <2>1, DisplayKept
  <2>3. /\ vo' = "starting" /\ inbox' = {Call("start", NoPage, player)} /\ connected'
        /\ linked' = segments + 1
    BY <1>3, <2>1 DEF OpenSegment, Send
  <2>4. linked' # None
    BY <2>3, VideoAssumption DEF TypeOK, Segment, None
  <2>5. Asked("start", NoPage)'
    BY <2>1, <2>2, <2>3 DEF Asked, Call
  <2>6. QED
    BY <2>2, <2>3, <2>4, <2>5 DEF CallInStep, Waits
<1>4. CASE Write
  <2>1. /\ vo = "idle" /\ connected /\ vo' = "writing" /\ inbox = {} /\ RenderFree
        /\ Showing /\ PageFree
        /\ UNCHANGED <<connected, rt, caller, hit, linked, inbox, page, mapVars, layerVars>>
    BY <1>4 DEF Write, CallInStep, Waits
  <2>2. Showing' /\ PageFree' /\ RenderFree'
    BY <2>1, DisplayKept DEF PageFree, layerVars
  <2>3. QED
    BY <2>1, <2>2 DEF CallInStep, Waits
<1>5. CASE FlipPage
  <2>1. /\ vo = "writing" /\ vo' = "rendering" /\ inbox = {} /\ RenderFree
        /\ Showing /\ connected
        /\ UNCHANGED <<connected, rt, caller, hit, linked, page, player, mapVars, layerVars>>
        /\ inbox' = {Call("render", page, player)}
    BY <1>5 DEF FlipPage, CallInStep, Waits, Send
  <2>2. Showing' /\ RenderFree'
    BY <2>1, DisplayKept
  <2>3. Asked("render", page)'
    BY <2>1, <2>2 DEF Asked, Call
  <2>4. QED
    BY <2>1, <2>2, <2>3 DEF CallInStep, Waits
<1>6. CASE Uninit
  <2>1. /\ vo = "idle" /\ inbox = {} /\ RenderFree
        /\ UNCHANGED <<connected, rt, caller, hit, player, mapVars, layerVars>>
    BY <1>6 DEF Uninit, CallInStep, Waits
  <2>2. CASE connected
    <3>1. /\ vo' = "quitting" /\ inbox' = {Call("stop", NoPage, player)}
          /\ linked' = linked /\ connected'
      BY <1>6, <2>1, <2>2 DEF Uninit, Send
    <3>2. Asked("stop", NoPage)'
      BY <2>1, <3>1, DisplayKept DEF Asked, Call
    <3>3. Showing'
      BY <2>1, <2>2, <3>1, DisplayKept DEF CallInStep
    <3>4. QED
      BY <3>1, <3>2, <3>3 DEF CallInStep, Waits
  <2>3. CASE ~connected
    <3>1. vo' = "gone" /\ inbox' = {} /\ Off' /\ linked' = None /\ RenderFree'
      BY <1>6, <2>1, <2>3, DisplayKept DEF Uninit, CallInStep
    <3>2. QED
      BY <2>1, <2>3, <3>1 DEF CallInStep, Waits
  <2>4. QED
    BY <2>2, <2>3
<1>7. CASE Crash
  BY <1>7 DEF Crash
<1>8. QED
  BY <1>1, <1>2, <1>3, <1>4, <1>5, <1>6, <1>7 DEF DriverStep

\* A call that is served is the one the driver waits for.
LEMMA ServedCall ==
  ASSUME TypeOK, CallInStep, NEW c \in inbox
  PROVE  /\ c.from = player /\ RenderFree /\ inbox = {c} /\ connected
         /\ player # None /\ vo \in Waits
         /\ c.op = "start" => vo = "starting" /\ Off /\ linked # None
         /\ c.op = "render" => vo = "rendering" /\ Showing /\ c.page = page
         /\ c.op = "stop" => vo \in {"stopping", "quitting"} /\ Showing
<1>1. vo \in Waits /\ connected
  BY DEF CallInStep
<1>2. player # None
  BY <1>1, PlayerCalls DEF Waits
<1>3. CASE vo = "starting"
  <2>1. Asked("start", NoPage) /\ Off /\ linked # None
    BY <1>3 DEF CallInStep, Served
  <2>2. QED
    BY <1>1, <1>2, <1>3, <2>1 DEF Asked, Call
<1>4. CASE vo = "rendering"
  <2>1. Asked("render", page) /\ Showing
    BY <1>4 DEF CallInStep, Served
  <2>2. QED
    BY <1>1, <1>2, <1>4, <2>1 DEF Asked, Call
<1>5. CASE vo \in {"stopping", "quitting"}
  <2>1. Asked("stop", NoPage) /\ Showing
    BY <1>5 DEF CallInStep, Served
  <2>2. QED
    BY <1>1, <1>2, <1>5, <2>1 DEF Asked, Call
<1>6. QED
  BY <1>1, <1>3, <1>4, <1>5 DEF Waits

LEMMA ReplyStarting ==
  ASSUME Reply(player), vo = "starting"
  PROVE  vo' = "idle" /\ UNCHANGED <<player, connected, linked, page, notices>>
BY DEF Reply, Waits

LEMMA ReplyRendering ==
  ASSUME Reply(player), vo = "rendering"
  PROVE  /\ vo' = "idle" /\ page' = BufferCount - 1 - page
         /\ UNCHANGED <<player, connected, linked, notices>>
BY DEF Reply, Waits

LEMMA ReplyStop ==
  ASSUME Reply(player), vo \in {"stopping", "quitting"}
  PROVE  /\ vo' = IF vo = "stopping" THEN "opening" ELSE "gone"
         /\ vo' = "opening" => notices' = notices
         /\ linked' = None /\ UNCHANGED <<player, connected, page>>
BY DEF Reply, Waits

\* The render thread takes a call up.
LEMMA InStepServe ==
  ASSUME TypeOK, MainInStep, CallInStep, NEW c \in inbox,
         ServeStart(c) \/ ServeRender(c) \/ ServeStop(c)
  PROVE  MainInStep' /\ CallInStep'
<1>1. /\ c.from = player /\ inbox = {c} /\ connected /\ player # None
      /\ vo \in Waits
  BY ServedCall
<1>2. /\ rt = "loop" /\ ~StopsForMain /\ inbox \ {c} = {} /\ ~prepare
      /\ drawn = NoBuffer
  BY <1>1 DEF ServeStart, ServeRender, ServeStop, StopsForMain, MainInStep
<1>3. ASSUME rt' \in {"preparing", "drawing", "unmapping"}, caller' = player,
             UNCHANGED <<driverVars, stopAsked, main, hit, notices>>,
             prepare' <=> rt' = "preparing", rt' # "drawing" => drawn' = NoBuffer
      PROVE  MainInStep'
  <2>1. ~StopsForMain'
    BY <1>1, <1>3 DEF StopsForMain
  <2>2. QED
    BY <1>2, <1>3, <2>1 DEF MainInStep, driverVars
<1>4. CASE ServeStart(c)
  <2>1. vo = "starting" /\ Off /\ linked # None
    BY <1>4, ServedCall DEF ServeStart
  <2>2. /\ UNCHANGED <<driverVars, notices, stopAsked, drawn, frameNow, main, hit>>
        /\ mapped' = linked /\ live' = live \cup {linked} /\ frames' = frames \o Wraps(linked)
        /\ displaying' /\ prepare' /\ rt' = "preparing" /\ caller' = player /\ inbox' = {}
    BY <1>1, <1>2, <1>4, <2>1 DEF ServeStart, endVars
  <2>3. frames' = Wraps(linked) /\ live' = {linked} /\ frameNow' = NoPage
    <3>1. Wraps(linked) \in Seq(Buffer)
      BY <2>1, WrapsType DEF TypeOK
    <3>2. QED
      BY <2>1, <2>2, <3>1 DEF Off, Hidden, Unmapped
  <2>4. On' /\ Served("preparing")'
    BY <2>1, <2>2, <2>3 DEF On, Mapped, Served, driverVars, Wraps
  <2>5. CallInStep'
    BY <1>1, <2>1, <2>2, <2>3, <2>4 DEF CallInStep, Waits, driverVars
  <2>6. QED
    BY <1>2, <1>3, <2>2, <2>5
<1>5. CASE ServeRender(c)
  <2>1. vo = "rendering" /\ Showing /\ c.page = page
    BY <1>5, ServedCall DEF ServeRender
  <2>2. /\ UNCHANGED <<driverVars, notices, stopAsked, mapVars, prepare, main, hit,
                       frames, displaying>>
        /\ frameNow' = page /\ drawn' = Shown' /\ rt' = "drawing" /\ caller' = player
        /\ inbox' = {}
    BY <1>1, <1>2, <1>5, <2>1 DEF ServeRender, mainVars, endVars
  <2>3. Showing'
    BY <1>2, <2>1, <2>2, ShowingSame DEF driverVars
  <2>4. drawn' # NoBuffer => drawn'.seg = linked'
    <3>1. frames = <<>> \/ frames = Wraps(linked)
      BY <1>2, <2>1, ShowingIs DEF On
    <3>2. QED
      BY <2>2, <3>1, VideoAssumption DEF Shown, Wraps, driverVars
  <2>5. Served("drawing")'
    BY <2>2 DEF Served, driverVars
  <2>6. CallInStep'
    BY <1>1, <2>1, <2>2, <2>3, <2>4, <2>5 DEF CallInStep, Waits, driverVars
  <2>7. QED
    BY <1>2, <1>3, <2>2, <2>6
<1>6. CASE ServeStop(c)
  <2>1. vo \in {"stopping", "quitting"} /\ Showing
    BY <1>6, ServedCall DEF ServeStop
  <2>2. /\ UNCHANGED <<driverVars, notices, stopAsked, drawn, mapVars, prepare, main, hit>>
        /\ Hidden' /\ rt' = "unmapping" /\ caller' = player /\ inbox' = {}
    BY <1>1, <1>2, <1>6 DEF ServeStop, StopLayer, Hidden, mainVars, endVars
  <2>3. linked' # None /\ (Mapped' \/ (hit' /\ Unmapped')) /\ Served("unmapping")'
    BY <1>2, <2>1, <2>2, ShowingIs
      DEF On, Mapped, Unmapped, Served, driverVars, mapVars
  <2>4. CallInStep'
    BY <1>1, <2>1, <2>2, <2>3 DEF CallInStep, Waits, driverVars
  <2>5. QED
    BY <1>2, <1>3, <2>2, <2>4
<1>7. QED
  BY <1>4, <1>5, <1>6

LEMMA InStepDrawn ==
  ASSUME TypeOK, MainInStep, CallInStep, Drawn PROVE MainInStep' /\ CallInStep'
<1>1. rt = "drawing" /\ ~RenderFree /\ ~StopsForMain
  BY DEF Drawn, RenderFree, StopsForMain
<1>2. vo = "rendering" /\ Served("drawing") /\ Showing /\ frameNow = page
  BY <1>1 DEF CallInStep, Waits, Asked, Served
<1>3. /\ Reply(player) /\ rt' = "loop" /\ caller' = None /\ drawn' = NoBuffer
      /\ UNCHANGED <<inbox, stopAsked, mapVars, layerVars, prepare, main, hit>>
  BY <1>2 DEF Drawn, Served, endVars
<1>4. /\ vo' = "idle" /\ page' = BufferCount - 1 - page
      /\ UNCHANGED <<player, connected, linked, notices>>
  BY <1>2, <1>3, ReplyRendering
<1>5. Showing'
  BY <1>1, <1>2, <1>3, <1>4, ShowingSame DEF layerVars
<1>6. PageFree'
  BY <1>2, <1>3, <1>4 DEF PageFree, layerVars, TypeOK, Page
<1>7. connected' /\ inbox' = {} /\ RenderFree' /\ ~StopsForMain'
  BY <1>2, <1>3, <1>4 DEF CallInStep, Served, Waits, RenderFree, StopsForMain
<1>8. CallInStep'
  BY <1>4, <1>5, <1>6, <1>7 DEF CallInStep, Waits
<1>9. player' \notin notices'
  BY <1>2, <1>4 DEF MainInStep
<1>10. QED
  BY <1>1, <1>3, <1>7, <1>8, <1>9 DEF MainInStep

\* The display of a later process is stopped: it is blank from now on.
LEMMA InStepPerformStop ==
  ASSUME TypeOK, MainInStep, CallInStep, PerformStop PROVE MainInStep' /\ CallInStep'
<1>1. /\ rt = "loop" /\ stopAsked /\ ~StopsForMain /\ main = "waiting" /\ hit
      /\ ~prepare /\ drawn = NoBuffer
  BY DEF PerformStop, MainInStep, StopsForMain
<1>2. /\ UNCHANGED <<driverVars, inbox, drawn, mapVars, prepare, main, hit, notices>>
      /\ ~stopAsked' /\ Hidden' /\ frameNow' = NoPage /\ frames' = <<>> /\ ~displaying'
      /\ rt' = "unmapping" /\ caller' = None
  BY DEF PerformStop, StopLayer, Hidden, mainVars, endVars
<1>3. StopsForMain' /\ RenderFree'
  BY <1>2 DEF StopsForMain, RenderFree
<1>4. MainInStep'
  BY <1>1, <1>2, <1>3 DEF MainInStep, driverVars
<1>5. Off => Off'
  BY <1>2 DEF Off, Unmapped, mapVars
<1>6. Showing => Showing'
  <2> SUFFICES ASSUME Showing PROVE Showing'
    OBVIOUS
  <2>1. linked' # None /\ (Mapped' \/ Unmapped')
    BY <1>1, <1>2, ShowingIs DEF On, Mapped, Unmapped, mapVars, driverVars
  <2>2. QED
    BY <1>1, <1>2, <1>3, <2>1 DEF Showing, Blank
<1>7. PageFree'
  <2>1. page' \in Nat
    BY <1>2, VideoAssumption DEF TypeOK, Page, driverVars
  <2>2. QED
    BY <1>2, <2>1 DEF PageFree, NoPage
<1>8. /\ \A op, n : Asked(op, n) => Asked(op, n)'
      /\ ~Served("preparing") /\ ~Served("drawing") /\ ~Served("unmapping")
  BY <1>1, <1>2, <1>3 DEF Asked, Served, Call, driverVars
<1>9. UNCHANGED <<vo, connected, page, linked, inbox>>
  BY <1>2 DEF driverVars
<1>10. CallInStep'
  BY <1>3, <1>5, <1>6, <1>7, <1>8, <1>9 DEF CallInStep
<1>11. QED
  BY <1>4, <1>10

LEMMA InStepUnmap ==
  ASSUME TypeOK, MainInStep, CallInStep, Unmap PROVE MainInStep' /\ CallInStep'
<1>1. /\ rt = "unmapping" /\ rt' = "loop" /\ caller' = None
      /\ mapped' = None /\ live' = live \ {mapped}
      /\ UNCHANGED <<inbox, stopAsked, drawn, layerVars, prepare, hit>>
  BY DEF Unmap, Munmap, endVars
<1>2. ~StopsForMain' /\ RenderFree' /\ ~prepare /\ drawn = NoBuffer
  BY <1>1 DEF StopsForMain, RenderFree, MainInStep
<1>3. CASE caller # None
  <2>1. ~RenderFree /\ ~StopsForMain
    BY <1>1, <1>3 DEF RenderFree, StopsForMain
  <2>2. /\ vo \in {"stopping", "quitting"} /\ Served("unmapping") /\ Hidden
        /\ Mapped \/ Unmapped
    BY <1>1, <2>1 DEF CallInStep, Waits, Asked, Served
  <2>3. Reply(player) /\ main' = main
    BY <1>3, <2>2 DEF Unmap, Served
  <2>4. /\ vo' = IF vo = "stopping" THEN "opening" ELSE "gone"
        /\ vo' = "opening" => notices' = notices
        /\ linked' = None /\ UNCHANGED <<player, connected, page>>
    BY <2>2, <2>3, ReplyStop
  <2>5. Off'
    BY <1>1, <2>2 DEF Mapped, Unmapped, Off, Hidden, layerVars
  <2>6. inbox' = {}
    BY <1>1, <2>2 DEF Served
  <2>7. CallInStep'
    BY <1>2, <2>2, <2>4, <2>5, <2>6 DEF CallInStep, Waits
  <2>8. vo' # "gone" => player' \notin notices'
    BY <2>2, <2>4 DEF MainInStep
  <2>9. QED
    BY <1>1, <1>2, <2>1, <2>3, <2>7, <2>8 DEF MainInStep
<1>4. CASE caller = None
  <2>1. StopsForMain /\ ~stopAsked /\ Hidden
    BY <1>1, <1>4 DEF StopsForMain, MainInStep
  <2>2. main' = "loop" /\ UNCHANGED <<driverVars, notices>>
    BY <1>4 DEF Unmap
  <2>3. UNCHANGED <<player, vo, connected, page, linked, frameNow>>
    BY <1>1, <2>2 DEF driverVars, layerVars
  <2>4. MainInStep'
    BY <1>1, <1>2, <2>1, <2>2, <2>3 DEF MainInStep
  <2>5. Off => Off'
    BY <1>1 DEF Off, Hidden, Unmapped, layerVars
  <2>6. Showing => Showing'
    <3> SUFFICES ASSUME Showing PROVE Showing'
      OBVIOUS
    <3>1. Blank /\ linked # None
      BY <2>1 DEF Showing, On, Hidden
    <3>2. Unmapped'
      BY <1>1, <3>1 DEF Blank, Mapped, Unmapped
    <3>3. QED
      BY <1>1, <2>3, <3>1, <3>2 DEF Showing, Blank, layerVars
  <2>7. PageFree => PageFree'
    BY <2>3 DEF PageFree
  <2>8. /\ \A op, n : Asked(op, n) => Asked(op, n)'
        /\ ~Served("preparing") /\ ~Served("drawing")
    BY <1>1, <1>2, <2>3 DEF Asked, Served, Call
  <2>9. vo # "gone" => ~Served("unmapping")
    BY <1>4, PlayerCalls DEF Served
  <2>10. CallInStep'
    BY <1>1, <1>2, <2>3, <2>5, <2>6, <2>7, <2>8, <2>9 DEF CallInStep
  <2>11. QED
    BY <2>4, <2>10
<1>5. QED
  BY <1>3, <1>4

LEMMA InStepPrepare ==
  ASSUME TypeOK, MainInStep, CallInStep, Prepare PROVE MainInStep' /\ CallInStep'
<1>1. rt = "preparing" /\ ~RenderFree /\ ~StopsForMain
  BY DEF Prepare, MainInStep, RenderFree, StopsForMain
<1>2. vo = "starting" /\ Served("preparing") /\ On /\ linked # None /\ frameNow = NoPage
  BY <1>1 DEF CallInStep, Waits, Asked, Served
<1>3. /\ Reply(player) /\ rt' = "loop" /\ caller' = None /\ ~prepare'
      /\ UNCHANGED <<inbox, stopAsked, drawn, mapVars, layerVars, main, hit>>
  BY <1>2 DEF Prepare, Served, endVars
<1>4. vo' = "idle" /\ UNCHANGED <<player, connected, linked, page, notices>>
  BY <1>2, <1>3, ReplyStarting
<1>5. Showing'
  <2>1. Showing
    BY <1>2 DEF Showing
  <2>2. QED
    BY <1>1, <1>3, <1>4, <2>1, ShowingSame DEF layerVars
<1>6. PageFree'
  <2>1. page \in Nat
    BY VideoAssumption DEF TypeOK, Page
  <2>2. QED
    BY <1>2, <1>3, <1>4, <2>1 DEF PageFree, layerVars, NoPage
<1>7. connected' /\ inbox' = {} /\ RenderFree' /\ ~StopsForMain'
  BY <1>2, <1>3, <1>4 DEF CallInStep, Served, Waits, RenderFree, StopsForMain
<1>8. CallInStep'
  BY <1>4, <1>5, <1>6, <1>7 DEF CallInStep, Waits
<1>9. player' \notin notices' /\ drawn = NoBuffer
  BY <1>1, <1>2, <1>4 DEF MainInStep
<1>10. QED
  BY <1>1, <1>3, <1>7, <1>8, <1>9 DEF MainInStep

LEMMA CallKept ==
  ASSUME CallInStep, hit => hit',
         UNCHANGED <<driverVars, inbox, renderVars, mapVars, layerVars>>
  PROVE  CallInStep'
<1>1. UNCHANGED <<player, vo, connected, page, linked, rt, caller, drawn, frameNow>>
  BY DEF driverVars, renderVars, layerVars
<1>2. (Off => Off') /\ (Showing => Showing') /\ (RenderFree => RenderFree')
  BY <1>1, DisplayKept
<1>3. /\ (On => On') /\ (Hidden => Hidden') /\ (PageFree => PageFree')
      /\ (Mapped => Mapped') /\ (Unmapped => Unmapped')
  BY <1>1 DEF On, Hidden, Mapped, Unmapped, PageFree, Wraps, mapVars, layerVars
<1>4. /\ \A op, n : Asked(op, n) => Asked(op, n)'
      /\ \A at : Served(at) => Served(at)'
  BY <1>1, <1>2 DEF Asked, Served, Call
<1>5. QED
  BY <1>1, <1>2, <1>3, <1>4 DEF CallInStep

LEMMA MainKept ==
  ASSUME MainInStep, main' = "waiting" <=> main = "waiting",
         UNCHANGED <<driverVars, stopAsked, renderVars, layerVars, prepare, hit>>,
         notices' \subseteq notices
  PROVE  MainInStep'
<1>1. UNCHANGED <<player, vo, rt, drawn, StopsForMain, Hidden>>
  BY DEF driverVars, renderVars, layerVars, StopsForMain, Hidden
<1>2. QED
  BY <1>1 DEF MainInStep

LEMMA InStepTerminated ==
  ASSUME TypeOK, MainInStep, CallInStep, NEW p \in Player, HasTerminated(p)
  PROVE  MainInStep' /\ CallInStep'
<1>1. /\ UNCHANGED <<driverVars, inbox, renderVars, mapVars, layerVars, prepare>>
      /\ main = "loop" /\ p \in notices /\ notices' \subseteq notices
  BY DEF HasTerminated
<1>2. CASE p \in watched /\ mapped # None
  <2>1. stopAsked' = TRUE /\ main' = "waiting" /\ hit' = (hit \/ p # player)
    BY <1>2 DEF HasTerminated
  <2>2. vo # "gone"
    BY <1>2 DEF CallInStep, Off, Unmapped
  <2>3. hit'
    BY <1>1, <2>1, <2>2 DEF MainInStep
  <2>4. CallInStep'
    BY <1>1, <2>3, CallKept
  <2>5. /\ UNCHANGED <<player, vo, rt, drawn, StopsForMain, Hidden>>
        /\ ~StopsForMain
    BY <1>1 DEF driverVars, renderVars, layerVars, StopsForMain, Hidden, MainInStep
  <2>6. MainInStep'
    BY <1>1, <2>1, <2>3, <2>5 DEF MainInStep
  <2>7. QED
    BY <2>4, <2>6
<1>3. CASE ~(p \in watched /\ mapped # None)
  <2>1. UNCHANGED <<stopAsked, main, hit>>
    BY <1>3 DEF HasTerminated
  <2>2. QED
    BY <1>1, <2>1, MainKept, CallKept
<1>4. QED
  BY <1>2, <1>3

LEMMA InStepStep ==
  ASSUME ~crashed', TypeOK, MainInStep, CallInStep, [Next]_vars
  PROVE  MainInStep' /\ CallInStep'
<1>1. CASE DriverStep
  BY <1>1, MainDriver, CallDriver
<1>2. CASE RenderStep
  BY <1>2, InStepServe, InStepDrawn, InStepPerformStop, InStepUnmap DEF RenderStep
<1>3. CASE Redraw \/ Redrawn
  <2>1. /\ UNCHANGED <<driverVars, inbox, stopAsked, renderVars, mapVars, layerVars,
                       prepare, hit, notices>>
        /\ main' = "waiting" <=> main = "waiting"
    BY <1>3 DEF Redraw, Redrawn, endVars
  <2>2. QED
    BY <2>1, MainKept, CallKept
<1>4. CASE UNCHANGED vars
  <2>1. UNCHANGED <<driverVars, inbox, stopAsked, renderVars, mapVars, layerVars,
                    prepare, main, hit, notices>>
    BY <1>4 DEF vars, mainVars, endVars
  <2>2. QED
    BY <2>1, MainKept, CallKept
<1>5. QED
  BY <1>1, <1>2, <1>3, <1>4, InStepPrepare, InStepTerminated DEF Next, MainStep, Ended

\* A crash is remembered.
LEMMA CrashedStays ==
  ASSUME crashed, [Next]_vars PROVE crashed'
<1> USE DEF mainVars
<1>1. CASE DriverStep
  BY <1>1 DEF DriverStep, Launch, Config, OpenSegment, Write, FlipPage, Uninit, Crash
<1>2. CASE RenderStep
  BY <1>2 DEF RenderStep, ServeStart, ServeRender, ServeStop, Drawn, PerformStop, Unmap
<1>3. CASE MainStep
  BY <1>3 DEF MainStep, Redraw, Redrawn, Prepare, HasTerminated
<1>4. CASE UNCHANGED vars
  BY <1>4 DEF vars
<1>5. QED
  BY <1>1, <1>2, <1>3, <1>4 DEF Next, Ended

-----------------------------------------------------------------------------

\* Until a process dies without uninit(), driver and render thread agree on every
\* call; the main thread waits for a display to stop only when the end of an earlier
\* process was served after a later one had started its display (hit), which
\* launching without a look at the last notice allows.
THEOREM HandshakeHolds == Spec => []Handshake
<1>1. Init => Handshake
  BY InStepInit DEF Handshake
<1>2. TypeOK /\ Handshake /\ [Next]_vars => Handshake'
  BY InStepStep, CrashedStays DEF Handshake
<1>3. QED
  BY <1>1, <1>2, VideoTypeCorrect, PTL DEF Spec

\* Until a process dies without uninit(), the driver writes the one of two pages that
\* is not shown: flip_page changes pages only when render has returned, a new segment
\* starts with nothing shown, and a late notice only takes the shown page away.
THEOREM ShownNotWrittenHolds == Spec => []ShownNotWritten
<1>1. Handshake => ShownNotWritten
  BY DEF Handshake, CallInStep, ShownNotWritten, PageFree, Waits
<1>2. QED
  BY <1>1, HandshakeHolds, PTL

\* Until a process dies without uninit(), the layer holds the pages of the segment
\* that is mapped or none, and no mapping is lost, late notices included.
THEOREM FramesMappedHolds == Spec => []FramesMapped
<1>1. TypeOK /\ Handshake => FramesMapped
  <2> SUFFICES ASSUME TypeOK, Handshake, ~crashed PROVE FramesMapped
    BY DEF FramesMapped
  <2>1. \/ Off \/ Showing \/ (On /\ linked # None)
        \/ Hidden /\ linked # None /\ (Mapped \/ Unmapped)
    BY DEF Handshake, CallInStep, TypeOK, Waits
  <2>2. \/ frames = <<>> /\ (Unmapped \/ (Mapped /\ linked # None))
        \/ frames = Wraps(linked) /\ Mapped /\ linked # None
    BY <2>1 DEF Showing, Blank, Off, On, Hidden
  <2>3. QED
    BY <2>2 DEF FramesMapped, Mapped, Unmapped
<1>2. QED
  BY <1>1, HandshakeHolds, VideoTypeCorrect, PTL

\* When a process has ended with uninit(), as all before it, the display is off and
\* nothing is mapped, whether its end has been served or not.
THEOREM NothingLeftHolds == Spec => []NothingLeft
<1>1. Handshake => NothingLeft
  BY DEF Handshake, CallInStep, NothingLeft, Off, Hidden, Unmapped
<1>2. QED
  BY <1>1, HandshakeHolds, PTL

-----------------------------------------------------------------------------
(* What the render thread draws, with crashes too.                         *)

\* The frames of the layer, and the one that is drawn, are mapped; voStop has
\* taken the frames away before it unmaps them, on the thread that draws.
FramesLive ==
  /\ \A i \in 1 .. Len(frames) : frames[i].seg \in live
  /\ rt # "drawing" => drawn = NoBuffer
  /\ rt = "unmapping" => frames = <<>>
  /\ prepare => rt = "preparing"
  /\ DrawnMapped

LEMMA FramesLiveKept ==
  ASSUME FramesLive, UNCHANGED <<renderVars, mapVars, layerVars, prepare>>
  PROVE  FramesLive'
BY DEF FramesLive, DrawnMapped, renderVars, mapVars, layerVars

LEMMA FramesLiveRender ==
  ASSUME TypeOK, FramesLive, RenderStep PROVE FramesLive'
<1>1. ASSUME NEW c \in inbox, ServeStart(c) PROVE FramesLive'
  <2>1. CASE linked # None
    <3>1. /\ frames' = frames \o Wraps(linked) /\ live' = live \cup {linked}
          /\ drawn' = drawn /\ rt = "loop" /\ rt' = "preparing"
      BY <1>1, <2>1 DEF ServeStart
    <3>2. /\ Wraps(linked) \in Seq(Buffer)
          /\ \A i \in 1 .. Len(Wraps(linked)) : Wraps(linked)[i].seg = linked
      BY <2>1, WrapsType, VideoAssumption DEF TypeOK, Wraps
    <3>3. ASSUME NEW i \in 1 .. Len(frames') PROVE frames'[i].seg \in live'
      <4> DEFINE w == Wraps(linked)
      <4> HIDE DEF w
      <4>1. /\ frames \in Seq(Buffer) /\ w \in Seq(Buffer) /\ frames' = frames \o w
            /\ \A k \in 1 .. Len(w) : w[k].seg = linked
        BY <3>1, <3>2 DEF TypeOK, w
      <4>2. Len(frames') = Len(frames) + Len(w)
        BY <4>1
      <4>3. CASE i <= Len(frames)
        <5>1. frames'[i] = frames[i] /\ i \in 1 .. Len(frames)
          BY <4>1, <4>2, <4>3
        <5>2. QED
          BY <3>1, <5>1 DEF FramesLive
      <4>4. CASE i > Len(frames)
        <5>1. frames'[i] = w[i - Len(frames)] /\ i - Len(frames) \in 1 .. Len(w)
          BY <4>1, <4>2, <4>4
        <5>2. QED
          BY <3>1, <4>1, <5>1
      <4>5. QED
        BY <4>3, <4>4, <4>2, <4>1
    <3>4. QED
      BY <3>1, <3>3 DEF FramesLive, DrawnMapped
  <2>2. CASE linked = None
    <3>1. UNCHANGED <<rt, drawn, mapVars, frames, prepare>>
      BY <1>1, <2>2 DEF ServeStart
    <3>2. QED
      BY <3>1 DEF FramesLive, DrawnMapped, mapVars
  <2>3. QED
    BY <2>1, <2>2
<1>2. ASSUME NEW c \in inbox, ServeRender(c) PROVE FramesLive'
  <2>1. /\ frames' = frames /\ live' = live /\ drawn' = Shown'
        /\ rt = "loop" /\ rt' = "drawing" /\ prepare' = prepare
    BY <1>2 DEF ServeRender, mapVars
  <2>2. drawn' # NoBuffer => drawn'.seg \in live'
    BY <2>1 DEF FramesLive, Shown
  <2>3. QED
    BY <2>1, <2>2 DEF FramesLive, DrawnMapped
<1>3. CASE Drawn
  BY <1>3 DEF Drawn, FramesLive, DrawnMapped, mapVars, layerVars
<1>4. ASSUME rt = "loop", StopLayer, rt' = "unmapping", UNCHANGED <<drawn, prepare, mapVars>>
      PROVE  FramesLive'
  BY <1>4 DEF StopLayer, FramesLive, DrawnMapped, mapVars
<1>5. ASSUME NEW c \in inbox, ServeStop(c) PROVE FramesLive'
  BY <1>4, <1>5 DEF ServeStop
<1>6. CASE PerformStop
  BY <1>4, <1>6 DEF PerformStop
<1>7. CASE Unmap
  <2>1. /\ rt = "unmapping" /\ rt' = "loop" /\ prepare' = prepare
        /\ frames' = frames /\ drawn' = drawn
    BY <1>7 DEF Unmap, layerVars
  <2>2. QED
    BY <2>1 DEF FramesLive, DrawnMapped
<1>8. QED
  BY <1>1, <1>2, <1>3, <1>5, <1>6, <1>7 DEF RenderStep

LEMMA FramesLiveOther ==
  ASSUME FramesLive, DriverStep \/ MainStep PROVE FramesLive'
<1>1. CASE Prepare
  BY <1>1 DEF Prepare, FramesLive, DrawnMapped, mapVars, layerVars
<1>2. CASE DriverStep
  BY <1>2, FramesLiveKept DEF DriverStep, Launch, Config, OpenSegment, Write,
    FlipPage, Uninit, Crash
<1>3. CASE Redraw \/ Redrawn \/ \E p \in Player : HasTerminated(p)
  BY <1>3, FramesLiveKept DEF Redraw, Redrawn, HasTerminated
<1>4. QED
  BY <1>1, <1>2, <1>3 DEF MainStep

\* What the render thread draws stays mapped until it is drawn, whenever processes
\* die: voStop runs on that thread, and takes the frames away before the memory.
THEOREM DrawnMappedHolds == Spec => []DrawnMapped
<1>1. Init => FramesLive
  BY DEF Init, FramesLive, DrawnMapped
<1>2. TypeOK /\ FramesLive /\ [Next]_vars => FramesLive'
  <2> SUFFICES ASSUME TypeOK, FramesLive, [Next]_vars PROVE FramesLive'
    OBVIOUS
  <2>1. CASE UNCHANGED vars
    BY <2>1, FramesLiveKept DEF vars
  <2>2. QED
    BY <2>1, FramesLiveRender, FramesLiveOther DEF Next, Ended
<1>3. FramesLive => DrawnMapped
  BY DEF FramesLive
<1>4. QED
  BY <1>1, <1>2, <1>3, VideoTypeCorrect, PTL DEF Spec
=============================================================================
