---------------------------- MODULE PauseMirror ----------------------------
(***************************************************************************)
(* Pause and play across the two programs.  MPlayerX keeps a state of its  *)
(* own, "playing" or "paused", and never asks mplayer for it: it writes    *)
(* commands into mplayer's standard input and sets its state at once.      *)
(* mplayer takes them in its main loop and in its pause loop, each by its  *)
(* own rules; many commands end a pause by being processed at all.         *)
(*                                                                         *)
(* A command is named by what it does to a pause:                          *)
(*   pause, play   "pause 1" and "pause -1" (togglePause)                  *)
(*   step          "frame_step"                                            *)
(*   poll          "get_property time_pos", sent by a timer                *)
(*   force         any command with "pausing_keep_force"                   *)
(*   seek, drag    "pausing_keep seek" and, for the slider that is being   *)
(*                 dragged, "pausing_keep set_property time_pos"           *)
(*   sub           "sub_load"                                              *)
(* mplayer answers with lines, read in another thread of MPlayerX.         *)
(***************************************************************************)
EXTENDS Integers, Sequences, SequencesExt

CONSTANTS
  MaxPipe,    \* bound: commands that wait
  MaxEvents   \* bound: commands of the user and faults

ASSUME MirrorAssumption == MaxPipe \in Nat \ {0} /\ MaxEvents \in Nat

VARIABLES
  \* MPlayerX
  state,            \* CoreController.state
  pipe,             \* commands on their way
  log,              \* lines on their way back
  \* mplayer
  ppc,              \* where its main thread is
  cmd_queue,        \* a command that was only looked at
  osd_pause,        \* osd_function = OSD_PAUSE
  was_paused,
  mpx_startatpause,
  frames,           \* history: frames shown since it was last told to pause, up to 2
  events,           \* history: commands of the user and faults
  faults            \* history: what happened that the mirror may not survive

mirror == <<state, pipe, log>>
player == <<ppc, cmd_queue, osd_pause, was_paused, mpx_startatpause, frames>>
history == <<events, faults>>
vars == <<mirror, player, history>>

Init ==
  /\ state = "opened" /\ pipe = <<>> /\ log = <<>>
  /\ ppc = "starting" /\ cmd_queue = <<>>
  /\ osd_pause = FALSE /\ was_paused = FALSE
  /\ mpx_startatpause \in {0, 1}
  /\ frames = 0
  /\ events = 0 /\ faults = {}

Spend(kinds) ==
  /\ events < MaxEvents
  /\ events' = events + 1
  /\ faults' = faults \cup kinds

---------------------------------------------------------------------------
(* MPlayerX, on its main thread *)

Waiting == cmd_queue \o pipe

\* sendStringCommand: written at once, as a whole.
Send(cmds) ==
  /\ Len(pipe) + Len(cmds) <= MaxPipe
  /\ pipe' = pipe \o cmds

\* togglePause: in no other state does it do anything.
Toggle ==
  /\ \/ state = "playing" /\ Send(<<"pause">>) /\ state' = "paused"
     \/ state = "paused" /\ Send(<<"play">>) /\ state' = "playing"
  /\ Spend({})
  /\ UNCHANGED <<log, player>>

FrameStep ==
  /\ \/ state = "playing" /\ Send(<<"pause", "step">>)
     \/ state = "paused" /\ Send(<<"step">>)
  /\ state' = "paused"
  /\ Spend({})
  /\ UNCHANGED <<log, player>>

\* Variant: the position is asked for without ending a pause.
PollForced ==
  /\ state = "playing" /\ "force" \notin ToSet(Waiting) /\ Send(<<"force">>)
  /\ UNCHANGED <<state, log, player, history>>

\* getCurrentTime: "the playback time is only polled when not paused".  Bound:
\* one poll waits at a time, two would do no more than one.
Poll ==
  /\ state = "playing" /\ "poll" \notin ToSet(Waiting) /\ Send(<<"poll">>)
  /\ UNCHANGED <<state, log, player, history>>

\* The setters: volume, speed, subtitles, ...
Adjust ==
  /\ Send(<<"force">>) /\ Spend({})
  /\ UNCHANGED <<state, log, player>>

\* setTimePos, then LogAnalyzer.stop: lines not yet parsed are given up.
Seek ==
  /\ state # "opened"
  /\ \E c \in {"seek", "drag"}, n \in 0..Len(log) :
       /\ Send(<<c>>)
       /\ log' = SubSeq(log, 1, n)
       /\ Spend(IF n < Len(log) THEN {"unread"} ELSE {})
  /\ UNCHANGED <<state, player>>

LoadSub ==
  /\ state # "opened"
  /\ Send(<<"sub">>) /\ Spend({})
  /\ UNCHANGED <<state, log, player>>

\* Variant: a subtitle is taken for granted.
GotSubOnly ==
  /\ Send(<<"force">>)
  /\ UNCHANGED state

\* gotSubInfo: the new subtitle is shown; "if a subtitle is loaded while paused
\* ... playback will start automatically", so that the state follows.
GotSub ==
  IF state = "paused"
  THEN Send(<<"force", "play">>) /\ state' = "playing"
  ELSE Send(<<"force">>) /\ UNCHANGED state

\* logAnalyzeFinished
Deliver ==
  /\ log # <<>>
  /\ log' = Tail(log)
  /\ \/ Head(log) = "started" /\ state' = "playing" /\ UNCHANGED pipe
     \/ Head(log) = "startedPaused" /\ state' = "paused" /\ UNCHANGED pipe
     \/ Head(log) = "added" /\ GotSub
  /\ UNCHANGED <<player, history>>

MPlayerX == Toggle \/ FrameStep \/ Poll \/ Adjust \/ Seek \/ LoadSub

---------------------------------------------------------------------------
(* mplayer *)

\* mp_input_get_cmd: a command that was looked at comes first.
Get ==
  IF cmd_queue # <<>>
  THEN cmd_queue' = <<>> /\ UNCHANGED pipe
  ELSE pipe' = Tail(pipe) /\ UNCHANGED cmd_queue

\* MPX_PBST, before the first frame.
Announce ==
  /\ ppc = "starting"
  /\ log' = Append(log, IF mpx_startatpause = 1 THEN "startedPaused" ELSE "started")
  /\ ppc' = "decode"
  /\ UNCHANGED <<state, pipe, cmd_queue, osd_pause, was_paused, mpx_startatpause, frames, history>>

\* mp_input_check_interrupt: the stream waits for data and looks for a reason to
\* give up; a command that is none is thrown away.
Starve ==
  /\ ppc \in {"starting", "decode"}
  /\ Waiting # <<>>
  /\ Get
  /\ Spend(IF Head(Waiting) \in {"poll", "force"} THEN {} ELSE {"lost"})
  /\ UNCHANGED <<state, log, ppc, osd_pause, was_paused, mpx_startatpause, frames>>

\* A frame is shown.
Decode ==
  /\ ppc = "decode"
  /\ frames' = IF frames = 2 THEN 2 ELSE frames + 1
  /\ ppc' = "pause"
  /\ UNCHANGED <<mirror, cmd_queue, osd_pause, was_paused, mpx_startatpause, history>>

\* "Handle PAUSE": the start in pause is a command that is run here.
EnterPause ==
  /\ ppc = "pause"
  /\ mpx_startatpause' = IF mpx_startatpause = 1 THEN -1 ELSE mpx_startatpause
  /\ osd_pause' = (osd_pause \/ mpx_startatpause = 1)
  /\ IF osd_pause'
     THEN was_paused' = TRUE /\ ppc' = "loop" /\ frames' = 0
     ELSE UNCHANGED <<was_paused, frames>> /\ ppc' = "commands"
  /\ UNCHANGED <<mirror, cmd_queue, history>>

\* pause_loop looks at the next command and leaves it in the queue.
Peek ==
  /\ ppc = "loop" /\ cmd_queue = <<>> /\ pipe # <<>>
  /\ cmd_queue' = <<Head(pipe)>> /\ pipe' = Tail(pipe)
  /\ UNCHANGED <<state, log, ppc, osd_pause, was_paused, mpx_startatpause, frames, history>>

\* These two are done with inside of the loop ...
Stay ==
  /\ ppc = "loop" /\ cmd_queue \in {<<"force">>, <<"pause">>}
  /\ cmd_queue' = <<>>
  /\ UNCHANGED <<mirror, ppc, osd_pause, was_paused, mpx_startatpause, frames, history>>

\* ... any other ends it, and all but "play" are left for the main loop.
Leave ==
  /\ ppc = "loop" /\ cmd_queue # <<>> /\ cmd_queue \notin {<<"force">>, <<"pause">>}
  /\ cmd_queue' = IF cmd_queue = <<"play">> THEN <<>> ELSE cmd_queue
  /\ osd_pause' = FALSE
  /\ ppc' = "commands"
  /\ UNCHANGED <<mirror, was_paused, mpx_startatpause, frames, history>>

\* The argument of a pause command is read after the command is freed: what it
\* reads then may be anything.
ReadFreed ==
  /\ ppc = "loop" /\ cmd_queue \in {<<"pause">>, <<"play">>}
  /\ Spend({"freed"})
  /\ cmd_queue' = <<>>
  /\ IF cmd_queue = <<"pause">>
     THEN osd_pause' = FALSE /\ ppc' = "commands"
     ELSE UNCHANGED <<osd_pause, ppc>>
  /\ UNCHANGED <<mirror, was_paused, mpx_startatpause, frames>>

\* Variant: a seek forgets the pause.
KeepsForgotten(c) == IF c = "seek" THEN osd_pause' = FALSE ELSE UNCHANGED osd_pause

\* run_command for "pausing_keep"; a relative seek sets osd_function first.
Keeps(c) ==
  osd_pause' = IF was_paused THEN TRUE ELSE IF c = "seek" THEN FALSE ELSE osd_pause

\* run_command, in the main loop, until a command asks to go on with the frame.
Run ==
  /\ ppc = "commands" /\ Waiting # <<>>
  /\ Get
  /\ LET c == Head(Waiting) IN
       \/ /\ c \in {"pause", "step"}
          /\ osd_pause' = TRUE /\ frames' = 0
          /\ ppc' = "decode" /\ was_paused' = FALSE
          /\ UNCHANGED <<log, history>>
       \/ /\ c \in {"play", "poll", "force"}
          /\ UNCHANGED <<log, osd_pause, frames, ppc, was_paused, history>>
       \/ /\ c = "seek"
          /\ Keeps(c)
          /\ ppc' = "decode" /\ was_paused' = FALSE
          /\ UNCHANGED <<log, frames, history>>
       \/ /\ c = "drag"
          /\ Keeps(c)
          /\ UNCHANGED <<log, frames, ppc, was_paused, history>>
       \/ /\ c = "sub"
          /\ \/ log' = Append(log, "added") /\ UNCHANGED history
             \/ Spend({"unloaded"}) /\ UNCHANGED log
          /\ UNCHANGED <<osd_pause, frames, ppc, was_paused>>
  /\ UNCHANGED <<state, mpx_startatpause>>

NextFrame ==
  /\ ppc = "commands" /\ Waiting = <<>>
  /\ was_paused' = FALSE
  /\ ppc' = "decode"
  /\ UNCHANGED <<mirror, cmd_queue, osd_pause, mpx_startatpause, frames, history>>

Player ==
  \/ Announce \/ Decode \/ EnterPause \/ Peek \/ Stay \/ Leave \/ Run \/ NextFrame

Next == MPlayerX \/ Deliver \/ Player \/ Starve \/ ReadFreed

Spec == Init /\ [][Next]_vars

\* Both programs run, lines are read, and the timer goes off again and again;
\* its period is too long for the polls alone to keep run_command busy.
FairSpec ==
  Spec /\ WF_vars(Player) /\ SF_vars(NextFrame) /\ WF_vars(Deliver) /\ WF_vars(Poll)

---------------------------------------------------------------------------
(* Properties *)

\* The player is paused or about to be.
Halts == ppc = "loop" \/ osd_pause \/ mpx_startatpause = 1
InFlight == ToSet(Waiting) \cup ToSet(log)

\* What MPlayerX shows as paused is paused once nothing is on its way: no order
\* of commands, lines and subtitles leaves it playing (CoreController, line 512;
\* ControlUIView, lines 1660-1663).
PausedIsPaused == faults = {} /\ state = "paused" /\ InFlight = {} => Halts

\* While it is paused seeks and steps show one frame each, not more ("Play one
\* frame, then pause again", slave.txt, line 251).
OneFrame ==
  faults = {} /\ state = "paused" /\ InFlight \cap {"pause", "sub", "added"} = {} => frames <= 1

\* What MPlayerX shows as playing gets to play, whatever was lost: if it is not
\* the command that ends the pause it is the next poll.
PlayingPlays == state = "playing" ~> ~Halts \/ state # "playing"
=============================================================================
