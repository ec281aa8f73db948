-------------------------- MODULE PauseMirrorProofs --------------------------
(***************************************************************************)
(* Theorems about PauseMirror, for every bound on the commands that wait   *)
(* and on what the user does: what MPlayerX shows as paused is paused.     *)
(***************************************************************************)
EXTENDS PauseMirror, TLAPS, SequenceTheorems

Commands == {"pause", "play", "step", "poll", "force", "seek", "drag", "sub"}
Lines == {"started", "startedPaused", "added"}

\* The values the variables take.
TypeOK ==
  /\ state \in {"opened", "playing", "paused"}
  /\ pipe \in Seq(Commands) /\ log \in Seq(Lines)
  /\ ppc \in {"starting", "decode", "pause", "loop", "commands"}
  /\ cmd_queue \in Seq(Commands) /\ Len(cmd_queue) <= 1
  /\ osd_pause \in BOOLEAN /\ was_paused \in BOOLEAN
  /\ mpx_startatpause \in {0, 1, -1} /\ frames \in 0 .. 2
  /\ events \in Nat /\ faults \subseteq {"unread", "lost", "freed", "unloaded"}

\* Where mplayer may be with which flags.
Flags ==
  /\ ppc = "loop" => osd_pause /\ was_paused /\ frames = 0
  /\ was_paused => ppc \in {"loop", "commands"}
  /\ ppc = "commands" /\ osd_pause => was_paused
  /\ mpx_startatpause = 1 => ppc \in {"starting", "decode", "pause"}
  /\ ppc = "starting" => mpx_startatpause # -1 /\ frames = 0
  /\ cmd_queue # <<>> => ppc \in {"loop", "commands"}

\* Commands that leave a paused player paused, or pause it again.
Keeping == {"force", "seek", "drag", "step"}

\* The player is paused, or will be again with the command it has just left the
\* pause for, and has shown one frame at most for the last one.
Holds ==
  /\ frames <= (IF ppc = "pause" THEN 1 ELSE 0)
  /\ Halts \/ /\ ppc = "commands" /\ was_paused
              /\ cmd_queue \in {<<"seek">>, <<"drag">>, <<"step">>}

\* The commands that wait leave the player paused: there is a "pause" among them,
\* or it is held, and none that follows ends the pause.
Settles(w, held) ==
  \E k \in 0 .. Len(w) :
    /\ IF k = 0 THEN held ELSE w[k] = "pause"
    /\ \A j \in (k + 1) .. Len(w) : w[j] \in Keeping

Absent(x, s) == \A i \in 1 .. Len(s) : s[i] # x
Only(x, s) == \A i \in 1 .. Len(s) : s[i] = x

\* Until the first line is delivered only settings are sent; it says how the
\* player started.
Opening ==
  state = "opened" =>
    /\ Only("force", Waiting)
    /\ IF ppc = "starting" THEN log = <<>>
       ELSE log = <<IF mpx_startatpause = 0 THEN "started" ELSE "startedPaused">>
    /\ mpx_startatpause # 0 => Holds

Opened == state # "opened" => ppc # "starting" /\ Only("added", log)

Mirrors ==
  state = "paused" /\ Absent("sub", Waiting) /\ log = <<>> => Settles(Waiting, Holds)

\* What holds between the two programs while nothing went wrong.
Agree == Opening /\ Opened /\ Mirrors

\* The inductive invariant.
Mirrored == TypeOK /\ Flags /\ (faults = {} => Agree)

-----------------------------------------------------------------------------
(* The queue of commands.                                                  *)

LEMMA WaitingType == TypeOK => Waiting \in Seq(Commands)
BY ConcatProperties DEF TypeOK, Waiting

LEMMA LookedOne == TypeOK /\ cmd_queue # <<>> => Len(cmd_queue) = 1
<1>1. CASE TypeOK /\ cmd_queue # <<>>
  <2>1. cmd_queue \in Seq(Commands)
    BY <1>1 DEF TypeOK
  <2>2. Len(cmd_queue) \in Nat /\ Len(cmd_queue) # 0
    BY <1>1, <2>1, EmptySeq, LenProperties
  <2>3. Len(cmd_queue) <= 1
    BY <1>1 DEF TypeOK
  <2>4. \A n \in Nat : n # 0 /\ n <= 1 => n = 1
    OBVIOUS
  <2>5. QED
    BY <2>2, <2>3, <2>4
<1>2. QED
  BY <1>1

\* A command that is taken is the first that waits, and leaves the others.
LEMMA GetTakes ==
  ASSUME TypeOK, Waiting # <<>>, Get
  PROVE  /\ Waiting' = Tail(Waiting)
         /\ cmd_queue' = <<>> /\ pipe' \in Seq(Commands)
<1>0. cmd_queue \in Seq(Commands) /\ pipe \in Seq(Commands) /\ Len(cmd_queue) <= 1
  BY DEF TypeOK
<1>1. CASE cmd_queue # <<>>
  <2>1. Len(cmd_queue) = 1
    BY <1>1, LookedOne
  <2>2. cmd_queue' = <<>> /\ pipe' = pipe
    BY <1>1 DEF Get
  <2>3. Waiting' = pipe
    BY <1>0, <2>2, ConcatEmptySeq DEF Waiting
  <2>4. /\ Waiting \in Seq(Commands) /\ Len(Waiting) = 1 + Len(pipe)
        /\ \A i \in 1 .. Len(pipe) : Waiting[i + 1] = pipe[i]
    <3>1. /\ Len(Waiting) = 1 + Len(pipe) /\ Waiting \in Seq(Commands)
          /\ \A i \in 1 .. Len(cmd_queue) + Len(pipe) :
               Waiting[i] = IF i <= Len(cmd_queue) THEN cmd_queue[i]
                                                   ELSE pipe[i - Len(cmd_queue)]
      BY <1>0, <2>1, ConcatProperties, SMTT(20) DEF Waiting
    <3>2. Len(pipe) \in Nat
      BY <1>0, LenProperties
    <3>3. ASSUME NEW i \in 1 .. Len(pipe)
          PROVE  Waiting[i + 1] = pipe[i]
      <4>1. i + 1 \in 1 .. Len(cmd_queue) + Len(pipe) /\ ~(i + 1 <= Len(cmd_queue))
        BY <2>1, <3>2
      <4>2. (i + 1) - Len(cmd_queue) = i
        BY <2>1, <3>2
      <4>3. QED
        BY <3>1, <4>1, <4>2
    <3>4. QED
      BY <3>1, <3>3
  <2>5. /\ Tail(Waiting) \in Seq(Commands) /\ Len(Tail(Waiting)) = Len(pipe)
        /\ \A i \in 1 .. Len(pipe) : Tail(Waiting)[i] = Waiting[i + 1]
    <3>1. /\ Tail(Waiting) \in Seq(Commands) /\ Len(Tail(Waiting)) = Len(Waiting) - 1
          /\ \A i \in 1 .. Len(Tail(Waiting)) : Tail(Waiting)[i] = Waiting[i + 1]
      BY <2>4, HeadTailProperties
    <3>2. Len(pipe) \in Nat
      BY <1>0, LenProperties
    <3>3. Len(Tail(Waiting)) = Len(pipe)
      BY <2>4, <3>1, <3>2
    <3>4. QED
      BY <3>1, <3>3
  <2>6. Tail(Waiting) = pipe
    BY <1>0, <2>4, <2>5, SeqEqual
  <2>7. QED
    BY <1>0, <2>2, <2>3, <2>6
<1>2. CASE cmd_queue = <<>>
  <2>1. cmd_queue' = <<>> /\ pipe' = Tail(pipe)
    BY <1>2 DEF Get
  <2>2. Waiting = pipe
    BY <1>0, <1>2, ConcatEmptySeq DEF Waiting
  <2>3. Tail(pipe) \in Seq(Commands)
    BY <1>0, <2>2, HeadTailProperties
  <2>4. Waiting' = Tail(pipe)
    BY <2>1, <2>3, ConcatEmptySeq DEF Waiting
  <2>5. QED
    BY <2>1, <2>2, <2>3, <2>4
<1>3. QED
  BY <1>1, <1>2

\* A command that is sent waits behind all others.
LEMMA SendAppends ==
  ASSUME TypeOK, NEW cmds \in Seq(Commands), Send(cmds), UNCHANGED cmd_queue
  PROVE  Waiting' = Waiting \o cmds /\ pipe' \in Seq(Commands)
<1>1. pipe' = pipe \o cmds
  BY DEF Send
<1>2. Waiting' = cmd_queue \o (pipe \o cmds)
  BY <1>1 DEF Waiting
<1>3. QED
  BY <1>1, <1>2, ConcatAssociative, ConcatProperties, SMTT(20) DEF Waiting, TypeOK

-----------------------------------------------------------------------------
(* What settles a pause.                                                   *)

LEMMA SettlesSame ==
  ASSUME NEW w \in Seq(Commands), NEW h, NEW g, Settles(w, h),
         h /\ (\A j \in 1 .. Len(w) : w[j] \in Keeping) => g
  PROVE  Settles(w, g)
BY DEF Settles

LEMMA SettlesFree ==
  ASSUME NEW w \in Seq(Commands), NEW h, Settles(w, h), Absent("pause", w)
  PROVE  h /\ \A j \in 1 .. Len(w) : w[j] \in Keeping
BY DEF Settles, Absent

LEMMA SettlesSend ==
  ASSUME NEW w \in Seq(Commands), NEW h, NEW c \in Keeping, Settles(w, h)
  PROVE  Settles(w \o <<c>>, h)
<1>1. <<c>> \in Seq(Commands) /\ Len(<<c>>) = 1 /\ <<c>>[1] = c
  BY DEF Keeping, Commands
<1>2. /\ Len(w \o <<c>>) = Len(w) + 1 /\ Len(w) \in Nat
      /\ \A i \in 1 .. Len(w) + 1 : (w \o <<c>>)[i] = IF i <= Len(w) THEN w[i] ELSE c
  BY <1>1, ConcatProperties
<1>3. PICK k \in 0 .. Len(w) :
        /\ IF k = 0 THEN h ELSE w[k] = "pause"
        /\ \A j \in (k + 1) .. Len(w) : w[j] \in Keeping
  BY DEF Settles
<1>4. k \in 0 .. Len(w \o <<c>>)
  BY <1>2
<1>5. IF k = 0 THEN h ELSE (w \o <<c>>)[k] = "pause"
  BY <1>2, <1>3
<1>6. \A j \in (k + 1) .. Len(w \o <<c>>) : (w \o <<c>>)[j] \in Keeping
  BY <1>2, <1>3
<1>7. QED
  BY <1>4, <1>5, <1>6 DEF Settles

LEMMA SettlesPause ==
  ASSUME NEW w \in Seq(Commands), NEW h
  PROVE  Settles(w \o <<"pause">>, h)
<1>1. <<"pause">> \in Seq(Commands) /\ Len(<<"pause">>) = 1
  BY DEF Commands
<1>2. /\ Len(w \o <<"pause">>) = Len(w) + 1 /\ Len(w) \in Nat
      /\ (w \o <<"pause">>)[Len(w) + 1] = "pause"
  BY <1>1, ConcatProperties
<1>3. QED
  BY <1>2 DEF Settles

\* A command is taken: the "pause" itself, one that keeps it, or one before it.
LEMMA SettlesTake ==
  ASSUME NEW w \in Seq(Commands), w # <<>>, NEW h, NEW g, Settles(w, h),
         Head(w) = "pause" => g,
         h /\ Head(w) \in Keeping => g
  PROVE  Settles(Tail(w), g)
<1>1. /\ Len(w) \in Nat \ {0} /\ Tail(w) \in Seq(Commands)
      /\ Len(Tail(w)) = Len(w) - 1 /\ Head(w) = w[1]
      /\ \A i \in 1 .. Len(Tail(w)) : Tail(w)[i] = w[i + 1]
  BY EmptySeq, HeadTailProperties
<1>2. PICK k \in 0 .. Len(w) :
        /\ IF k = 0 THEN h ELSE w[k] = "pause"
        /\ \A j \in (k + 1) .. Len(w) : w[j] \in Keeping
  BY DEF Settles
<1>3. CASE k <= 1
  <2>1. g
    BY <1>1, <1>2, <1>3
  <2>2. \A j \in 1 .. Len(Tail(w)) : Tail(w)[j] \in Keeping
    BY <1>1, <1>2, <1>3
  <2>3. 0 \in 0 .. Len(Tail(w))
    BY <1>1
  <2>4. QED
    BY <2>1, <2>2, <2>3 DEF Settles
<1>4. CASE k > 1
  <2>1. k - 1 \in 0 .. Len(Tail(w)) /\ k - 1 # 0
    BY <1>1, <1>4
  <2>2. Tail(w)[k - 1] = "pause"
    BY <1>1, <1>2, <1>4
  <2>3. \A j \in ((k - 1) + 1) .. Len(Tail(w)) : Tail(w)[j] \in Keeping
    BY <1>1, <1>2, <1>4
  <2>4. QED
    BY <2>1, <2>2, <2>3 DEF Settles
<1>5. QED
  BY <1>3, <1>4

-----------------------------------------------------------------------------
(* Elements of sequences that grow at the end and shrink at the head.      *)

LEMMA AppendOne ==
  ASSUME NEW S, NEW w \in Seq(S), NEW c \in S
  PROVE  /\ w \o <<c>> \in Seq(S) /\ Len(w) \in Nat /\ Len(w \o <<c>>) = Len(w) + 1
         /\ \A i \in 1 .. Len(w) + 1 : (w \o <<c>>)[i] = IF i <= Len(w) THEN w[i] ELSE c
<1>1. <<c>> \in Seq(S) /\ Len(<<c>>) = 1 /\ <<c>>[1] = c
  OBVIOUS
<1>2. QED
  BY <1>1, ConcatProperties, LenProperties

LEMMA TakeOne ==
  ASSUME NEW S, NEW w \in Seq(S), w # <<>>
  PROVE  /\ Len(w) \in Nat \ {0} /\ Head(w) \in S /\ Tail(w) \in Seq(S)
         /\ Len(Tail(w)) = Len(w) - 1 /\ Head(w) = w[1]
         /\ \A i \in 1 .. Len(Tail(w)) : Tail(w)[i] = w[i + 1]
BY EmptySeq, HeadTailProperties

LEMMA AbsentSend ==
  ASSUME NEW S, NEW w \in Seq(S), NEW c \in S, NEW x, Absent(x, w \o <<c>>)
  PROVE  Absent(x, w) /\ c # x
<1>1. ASSUME NEW i \in 1 .. Len(w)
      PROVE  w[i] # x
  BY AppendOne DEF Absent
<1>2. c # x
  BY AppendOne DEF Absent
<1>3. QED
  BY <1>1, <1>2 DEF Absent

LEMMA AbsentTake ==
  ASSUME NEW S, NEW w \in Seq(S), w # <<>>, NEW x, Absent(x, Tail(w)), Head(w) # x
  PROVE  Absent(x, w)
<1>1. ASSUME NEW i \in 1 .. Len(w)
      PROVE  w[i] # x
  <2>1. CASE i = 1
    BY <2>1, TakeOne
  <2>2. CASE i # 1
    <3>1. i - 1 \in 1 .. Len(Tail(w)) /\ (i - 1) + 1 = i
      BY <2>2, TakeOne
    <3>2. Tail(w)[i - 1] = w[(i - 1) + 1] /\ Tail(w)[i - 1] # x
      BY <3>1, TakeOne DEF Absent
    <3>3. QED
      BY <3>1, <3>2
  <2>3. QED
    BY <2>1, <2>2
<1>2. QED
  BY <1>1 DEF Absent

LEMMA OnlySend ==
  ASSUME NEW S, NEW w \in Seq(S), NEW x \in S, Only(x, w)
  PROVE  Only(x, w \o <<x>>)
<1>1. ASSUME NEW i \in 1 .. Len(w \o <<x>>)
      PROVE  (w \o <<x>>)[i] = x
  BY AppendOne DEF Only
<1>2. QED
  BY <1>1 DEF Only

LEMMA OnlyTake ==
  ASSUME NEW S, NEW w \in Seq(S), w # <<>>, NEW x, Only(x, w)
  PROVE  Head(w) = x /\ Only(x, Tail(w))
<1>1. Head(w) = x
  BY TakeOne DEF Only
<1>2. ASSUME NEW i \in 1 .. Len(Tail(w))
      PROVE  Tail(w)[i] = x
  <2>1. i + 1 \in 1 .. Len(w)
    BY TakeOne
  <2>2. Tail(w)[i] = w[i + 1]
    BY TakeOne
  <2>3. QED
    BY <2>1, <2>2 DEF Only
<1>3. QED
  BY <1>1, <1>2 DEF Only

-----------------------------------------------------------------------------
(* Types and flags.                                                        *)

LEMMA SpendTypes ==
  ASSUME TypeOK, NEW kinds \in SUBSET {"unread", "lost", "freed", "unloaded"}, Spend(kinds)
  PROVE  /\ events' \in Nat /\ faults' \subseteq {"unread", "lost", "freed", "unloaded"}
BY DEF TypeOK, Spend

\* What the first command that waits is, when it was looked at already.
LEMMA HeadLooked ==
  ASSUME TypeOK, Waiting # <<>>
  PROVE  /\ Head(Waiting) \in Commands
         /\ cmd_queue # <<>> => cmd_queue = <<Head(Waiting)>>
<1>0. cmd_queue \in Seq(Commands) /\ pipe \in Seq(Commands)
  BY DEF TypeOK
<1>1. Head(Waiting) \in Commands
  BY WaitingType, TakeOne
<1>2. ASSUME cmd_queue # <<>>
      PROVE  cmd_queue = <<Head(Waiting)>>
  <2>3. Len(cmd_queue) = 1
    BY <1>2, LookedOne
  <2>4. Len(pipe) \in Nat
    BY <1>0, LenProperties
  <2>5. Waiting[1] = cmd_queue[1]
    BY <1>0, <2>3, <2>4, ConcatProperties DEF Waiting
  <2>6. Head(Waiting) = cmd_queue[1]
    BY <2>5, WaitingType, TakeOne
  <2>7. <<Head(Waiting)>> \in Seq(Commands) /\ Len(<<Head(Waiting)>>) = 1
        /\ <<Head(Waiting)>>[1] = Head(Waiting)
    BY <1>1
  <2>8. QED
    BY <1>0, <2>3, <2>6, <2>7, SeqEqual
<1>3. QED
  BY <1>1, <1>2

LEMMA PlayersUnchanged ==
  ASSUME TypeOK, UNCHANGED player
  PROVE  /\ ppc' \in {"starting", "decode", "pause", "loop", "commands"}
         /\ cmd_queue' \in Seq(Commands) /\ Len(cmd_queue') <= 1
         /\ osd_pause' \in BOOLEAN /\ was_paused' \in BOOLEAN
         /\ mpx_startatpause' \in {0, 1, -1} /\ frames' \in 0 .. 2
BY DEF TypeOK, player

\* The commands MPlayerX sends.
LEMMA SentCommands ==
  /\ \A c \in Commands : <<c>> \in Seq(Commands)
  /\ <<"pause", "step">> \in Seq(Commands) /\ <<"force", "play">> \in Seq(Commands)
BY DEF Commands

LEMMA CommandTypes ==
  ASSUME TypeOK, MPlayerX
  PROVE  TypeOK'
<1>1. CASE Toggle
  <2>1. state' \in {"playing", "paused"} /\ log' = log /\ UNCHANGED player /\ Spend({})
    BY <1>1 DEF Toggle
  <2>2. pipe' \in Seq(Commands)
    BY <1>1, <2>1, SendAppends, SentCommands DEF Toggle, Commands, player
  <2>3. QED
    BY <2>1, <2>2, PlayersUnchanged, SpendTypes DEF TypeOK
<1>2. CASE FrameStep
  <2>1. state' = "paused" /\ log' = log /\ UNCHANGED player /\ Spend({})
    BY <1>2 DEF FrameStep
  <2>2. pipe' \in Seq(Commands)
    BY <1>2, <2>1, SendAppends, SentCommands DEF FrameStep, Commands, player
  <2>3. QED
    BY <2>1, <2>2, PlayersUnchanged, SpendTypes DEF TypeOK
<1>3. CASE Poll
  <2>1. UNCHANGED <<state, log, player, history>>
    BY <1>3 DEF Poll
  <2>2. pipe' \in Seq(Commands)
    BY <1>3, <2>1, SendAppends, SentCommands DEF Poll, Commands, player
  <2>3. QED
    BY <2>1, <2>2, PlayersUnchanged DEF TypeOK, history
<1>4. CASE Adjust
  <2>1. UNCHANGED <<state, log, player>> /\ Spend({})
    BY <1>4 DEF Adjust
  <2>2. pipe' \in Seq(Commands)
    BY <1>4, <2>1, SendAppends, SentCommands DEF Adjust, Commands, player
  <2>3. QED
    BY <2>1, <2>2, PlayersUnchanged, SpendTypes DEF TypeOK
<1>5. CASE Seek
  <2>1. UNCHANGED <<state, player>>
    BY <1>5 DEF Seek
  <2>2. PICK c \in {"seek", "drag"}, n \in 0 .. Len(log) :
          /\ Send(<<c>>) /\ log' = SubSeq(log, 1, n)
          /\ Spend(IF n < Len(log) THEN {"unread"} ELSE {})
    BY <1>5 DEF Seek
  <2>3. pipe' \in Seq(Commands)
    BY <2>1, <2>2, SendAppends, SentCommands DEF Commands, player
  <2>4. log' \in Seq(Lines)
    BY <2>2, LenProperties, SubSeqProperties DEF TypeOK
  <2>5. events' \in Nat /\ faults' \subseteq {"unread", "lost", "freed", "unloaded"}
    BY <2>2, SpendTypes
  <2>6. QED
    BY <2>1, <2>3, <2>4, <2>5, PlayersUnchanged DEF TypeOK
<1>6. CASE LoadSub
  <2>1. UNCHANGED <<state, log, player>> /\ Spend({})
    BY <1>6 DEF LoadSub
  <2>2. pipe' \in Seq(Commands)
    BY <1>6, <2>1, SendAppends, SentCommands DEF LoadSub, Commands, player
  <2>3. QED
    BY <2>1, <2>2, PlayersUnchanged, SpendTypes DEF TypeOK
<1>7. QED
  BY <1>1, <1>2, <1>3, <1>4, <1>5, <1>6 DEF MPlayerX

LEMMA DeliverTypes ==
  ASSUME TypeOK, Deliver
  PROVE  TypeOK'
<1>1. log \in Seq(Lines) /\ log # <<>> /\ log' = Tail(log) /\ UNCHANGED player /\ UNCHANGED history
  BY DEF Deliver, TypeOK
<1>2. log' \in Seq(Lines)
  BY <1>1, TakeOne
<1>3. state' \in {"opened", "playing", "paused"} /\ pipe' \in Seq(Commands)
  <2>1. CASE UNCHANGED pipe /\ state' \in {"playing", "paused"}
    BY <2>1 DEF TypeOK
  <2>2. CASE GotSub
    <3>1. state' \in {"opened", "playing", "paused"}
      BY <2>2 DEF GotSub, TypeOK
    <3>2. Send(<<"force", "play">>) \/ Send(<<"force">>)
      BY <2>2 DEF GotSub
    <3>3. QED
      BY <1>1, <3>1, <3>2, SendAppends, SentCommands DEF Commands, player
  <2>3. QED
    BY <2>1, <2>2 DEF Deliver
<1>4. QED
  BY <1>1, <1>2, <1>3, PlayersUnchanged DEF TypeOK, history

LEMMA PlayerTypes ==
  ASSUME TypeOK, Player \/ Starve \/ ReadFreed
  PROVE  TypeOK'
<1>0. <<>> \in Seq(Commands) /\ Len(<<>>) = 0
  BY EmptySeq
<1>1. CASE Announce
  <2>1. Append(log, "started") \in Seq(Lines) /\ Append(log, "startedPaused") \in Seq(Lines)
    BY DEF TypeOK, Lines
  <2>2. log' \in Seq(Lines)
    BY <1>1, <2>1 DEF Announce
  <2>3. QED
    BY <1>1, <2>2 DEF Announce, TypeOK, history
<1>2. CASE Decode
  BY <1>2 DEF Decode, TypeOK, history, mirror
<1>3. CASE EnterPause
  <2>1. mpx_startatpause' \in {0, 1, -1} /\ osd_pause' \in BOOLEAN
    BY <1>3 DEF EnterPause, TypeOK
  <2>2. was_paused' \in BOOLEAN /\ frames' \in 0 .. 2 /\ ppc' \in {"loop", "commands"}
    <3>1. \/ was_paused' = TRUE /\ frames' = 0 /\ ppc' = "loop"
          \/ was_paused' = was_paused /\ frames' = frames /\ ppc' = "commands"
      BY <1>3, Zenon DEF EnterPause
    <3>2. was_paused' \in BOOLEAN
      BY <3>1, Zenon DEF TypeOK
    <3>3. QED
      BY <3>1, <3>2 DEF TypeOK
  <2>3. UNCHANGED <<mirror, cmd_queue, history>>
    BY <1>3 DEF EnterPause
  <2>4. QED
    BY <2>1, <2>2, <2>3 DEF TypeOK, mirror, history
<1>4. CASE Peek
  <2>1. pipe \in Seq(Commands) /\ pipe # <<>>
    BY <1>4 DEF Peek, TypeOK
  <2>2. Head(pipe) \in Commands /\ Tail(pipe) \in Seq(Commands)
    BY <2>1, HeadTailProperties
  <2>3. <<Head(pipe)>> \in Seq(Commands) /\ Len(<<Head(pipe)>>) = 1
    BY <2>2
  <2>4. cmd_queue' \in Seq(Commands) /\ Len(cmd_queue') <= 1 /\ pipe' \in Seq(Commands)
    BY <1>4, <2>2, <2>3 DEF Peek
  <2>5. QED
    BY <1>4, <2>4 DEF Peek, TypeOK, history
<1>5. CASE Stay \/ ReadFreed
  <2>1. cmd_queue' = <<>> /\ UNCHANGED <<mirror, was_paused, mpx_startatpause, frames>>
    BY <1>5 DEF Stay, ReadFreed
  <2>2. cmd_queue' \in Seq(Commands) /\ Len(cmd_queue') <= 1
    BY <1>0, <2>1
  <2>3. osd_pause' \in BOOLEAN /\ ppc' \in {"loop", "commands"}
    BY <1>5 DEF Stay, ReadFreed, TypeOK
  <2>4. events' \in Nat /\ faults' \subseteq {"unread", "lost", "freed", "unloaded"}
    BY <1>5, SpendTypes DEF Stay, ReadFreed, history, TypeOK
  <2>5. QED
    BY <2>1, <2>2, <2>3, <2>4 DEF TypeOK, mirror
<1>6. CASE Leave
  <2>1. cmd_queue' \in Seq(Commands) /\ Len(cmd_queue') <= 1
    <3>1. CASE cmd_queue' = <<>>
      BY <1>0, <3>1
    <3>2. CASE cmd_queue' = cmd_queue
      BY <3>2 DEF TypeOK
    <3>3. QED
      BY <1>6, <3>1, <3>2 DEF Leave
  <2>2. QED
    BY <1>6, <2>1 DEF Leave, TypeOK, mirror, history
<1>7. CASE Starve
  <2>1. Waiting # <<>> /\ Get
    BY <1>7 DEF Starve
  <2>2. cmd_queue' \in Seq(Commands) /\ Len(cmd_queue') <= 1 /\ pipe' \in Seq(Commands)
    BY <1>0, <2>1, GetTakes
  <2>3. events' \in Nat /\ faults' \subseteq {"unread", "lost", "freed", "unloaded"}
    BY <1>7, SpendTypes DEF Starve
  <2>4. QED
    BY <1>7, <2>2, <2>3 DEF Starve, TypeOK
<1>8. CASE Run
  <2>1. Waiting # <<>> /\ Get /\ UNCHANGED <<state, mpx_startatpause>>
    BY <1>8 DEF Run
  <2>2. cmd_queue' \in Seq(Commands) /\ Len(cmd_queue') <= 1 /\ pipe' \in Seq(Commands)
    BY <1>0, <2>1, GetTakes
  <2>3. /\ osd_pause' \in BOOLEAN /\ was_paused' \in BOOLEAN
        /\ frames' \in 0 .. 2 /\ ppc' \in {"commands", "decode"}
    <3>1. osd_pause' = osd_pause \/ osd_pause' = TRUE \/ osd_pause' = FALSE
      BY <1>8, Zenon DEF Run, Keeps
    <3>2. was_paused' = was_paused \/ was_paused' = FALSE
      BY <1>8, Zenon DEF Run
    <3>3. frames' = frames \/ frames' = 0
      BY <1>8, Zenon DEF Run
    <3>4. ppc' = "commands" \/ ppc' = "decode"
      BY <1>8, Zenon DEF Run
    <3>5. osd_pause' \in BOOLEAN /\ was_paused' \in BOOLEAN
      BY <3>1, <3>2, Zenon DEF TypeOK
    <3>6. QED
      BY <3>3, <3>4, <3>5 DEF TypeOK
  <2>4. log' \in Seq(Lines)
    <3>1. Append(log, "added") \in Seq(Lines)
      BY DEF TypeOK, Lines
    <3>2. log' = log \/ log' = Append(log, "added")
      BY <1>8 DEF Run
    <3>3. QED
      BY <3>1, <3>2 DEF TypeOK
  <2>5. events' \in Nat /\ faults' \subseteq {"unread", "lost", "freed", "unloaded"}
    <3>1. UNCHANGED history \/ Spend({"unloaded"})
      BY <1>8 DEF Run
    <3>2. QED
      BY <3>1, SpendTypes DEF history, TypeOK
  <2>6. QED
    BY <2>1, <2>2, <2>3, <2>4, <2>5 DEF TypeOK
<1>9. CASE NextFrame
  BY <1>9 DEF NextFrame, TypeOK, mirror, history
<1>10. QED
  BY <1>1, <1>2, <1>3, <1>4, <1>5, <1>6, <1>7, <1>8, <1>9 DEF Player

LEMMA TypeStep == TypeOK /\ [Next]_vars => TypeOK'
<1>1. ASSUME TypeOK, UNCHANGED vars
      PROVE  TypeOK'
  BY <1>1 DEF TypeOK, vars, mirror, player, history
<1>2. QED
  BY <1>1, CommandTypes, DeliverTypes, PlayerTypes DEF Next

LEMMA FlagsPlayer ==
  ASSUME TypeOK, Flags, Player \/ Starve \/ ReadFreed
  PROVE  Flags'
<1>1. CASE Announce
  BY <1>1 DEF Announce, Flags
<1>2. CASE Decode
  BY <1>2 DEF Decode, Flags
<1>3. CASE EnterPause
  <2>1. mpx_startatpause' # 1 /\ cmd_queue' = <<>> /\ was_paused = FALSE
    BY <1>3 DEF EnterPause, Flags, TypeOK
  <2>2. \/ was_paused' = TRUE /\ frames' = 0 /\ ppc' = "loop" /\ osd_pause'
        \/ was_paused' = was_paused /\ ppc' = "commands" /\ ~osd_pause'
    BY <1>3, Zenon DEF EnterPause
  <2>3. QED
    BY <2>1, <2>2 DEF Flags
<1>4. CASE Peek
  BY <1>4 DEF Peek, Flags
<1>5. CASE Stay
  BY <1>5 DEF Stay, Flags
<1>6. CASE ReadFreed
  <2>1. /\ ppc = "loop" /\ cmd_queue' = <<>>
        /\ UNCHANGED <<was_paused, mpx_startatpause, frames>>
        /\ \/ osd_pause' = FALSE /\ ppc' = "commands"
           \/ UNCHANGED <<osd_pause, ppc>>
    BY <1>6, Zenon DEF ReadFreed
  <2>2. QED
    BY <2>1 DEF Flags
<1>7. CASE Leave
  BY <1>7 DEF Leave, Flags
<1>8. CASE Starve
  <2>1. cmd_queue' = <<>>
    BY <1>8, GetTakes DEF Starve
  <2>2. QED
    BY <1>8, <2>1 DEF Starve, Flags
<1>9. CASE Run
  <2>1. cmd_queue' = <<>> /\ ppc = "commands" /\ mpx_startatpause' = mpx_startatpause
    BY <1>9, GetTakes DEF Run
  <2>2. \/ ppc' = "decode" /\ was_paused' = FALSE
        \/ /\ UNCHANGED <<ppc, was_paused>>
           /\ osd_pause' = osd_pause \/ was_paused
    BY <1>9, Zenon DEF Run, Keeps
  <2>3. QED
    BY <2>1, <2>2 DEF Flags
<1>10. CASE NextFrame
  <2>1. cmd_queue = <<>>
    BY <1>10, ConcatEqualIffEmpty DEF NextFrame, TypeOK, Waiting
  <2>2. QED
    BY <1>10, <2>1 DEF NextFrame, Flags
<1>11. QED
  BY <1>1, <1>2, <1>3, <1>4, <1>5, <1>6, <1>7, <1>8, <1>9, <1>10 DEF Player

LEMMA FlagsStep == TypeOK /\ Flags /\ [Next]_vars => Flags'
<1>1. ASSUME Flags, UNCHANGED player
      PROVE  Flags'
  BY <1>1 DEF Flags, player
<1>2. ASSUME MPlayerX \/ Deliver \/ UNCHANGED vars
      PROVE  UNCHANGED player
  BY <1>2 DEF MPlayerX, Toggle, FrameStep, Poll, Adjust, Seek, LoadSub, Deliver, vars
<1>3. QED
  BY <1>1, <1>2, FlagsPlayer DEF Next

-----------------------------------------------------------------------------
(* The two programs keep agreeing, while nothing goes wrong.               *)

LEMMA FaultsGrow == [Next]_vars /\ faults' = {} => faults = {}
<1>1. ASSUME NEW kinds, Spend(kinds), faults' = {}
      PROVE  faults = {} /\ kinds = {}
  BY <1>1 DEF Spend
<1>2. ASSUME UNCHANGED faults, faults' = {}
      PROVE  faults = {}
  BY <1>2
<1>3. ASSUME [Next]_vars
      PROVE  UNCHANGED faults \/ \E kinds : Spend(kinds)
  <2>1. CASE MPlayerX
    BY <2>1, Zenon DEF MPlayerX, Toggle, FrameStep, Poll, Adjust, Seek, LoadSub, history
  <2>2. CASE Deliver \/ UNCHANGED vars
    BY <2>2, Zenon DEF Deliver, vars, history
  <2>3. CASE Player
    BY <2>3, Zenon DEF Player, Announce, Decode, EnterPause, Peek, Stay, Leave, Run, NextFrame,
                history
  <2>4. CASE Starve \/ ReadFreed
    BY <2>4, Zenon DEF Starve, ReadFreed
  <2>5. QED
    BY <1>3, <2>1, <2>2, <2>3, <2>4 DEF Next
<1>4. QED
  BY <1>1, <1>2, <1>3

\* A command that keeps a pause is sent.
LEMMA SendMirrors ==
  ASSUME TypeOK, Mirrors, NEW c \in Keeping, Send(<<c>>), state = "paused",
         UNCHANGED <<log, player>>
  PROVE  Mirrors'
<1>1. c \in Commands /\ <<c>> \in Seq(Commands)
  BY SentCommands DEF Keeping, Commands
<1>2. Waiting' = Waiting \o <<c>> /\ Waiting \in Seq(Commands)
  BY <1>1, SendAppends, WaitingType DEF player
<1>3. Holds' <=> Holds
  BY DEF Holds, Halts, player
<1>4. ASSUME Absent("sub", Waiting'), log' = <<>>
      PROVE  Settles(Waiting', Holds')
  <2>1. Absent("sub", Waiting) /\ log = <<>>
    BY <1>1, <1>2, <1>4, AbsentSend
  <2>2. Settles(Waiting, Holds)
    BY <2>1 DEF Mirrors
  <2>3. Settles(Waiting, Holds')
    BY <1>2, <1>3, <2>2, SettlesSame
  <2>4. QED
    BY <1>2, <2>3, SettlesSend
<1>5. QED
  BY <1>4 DEF Mirrors

\* A command is taken: what follows is as the command leaves it.
LEMMA TakeMirrors ==
  ASSUME TypeOK, Mirrors, Waiting # <<>>, Get, UNCHANGED <<state, log>>,
         Head(Waiting) # "sub",
         Head(Waiting) = "pause" => Holds',
         Holds /\ Head(Waiting) \in Keeping => Holds'
  PROVE  Mirrors'
<1>1. Waiting' = Tail(Waiting) /\ Waiting \in Seq(Commands)
  BY GetTakes, WaitingType
<1>2. ASSUME state' = "paused", Absent("sub", Waiting'), log' = <<>>
      PROVE  Settles(Waiting', Holds')
  <2>1. Absent("sub", Waiting)
    BY <1>1, <1>2, AbsentTake
  <2>2. Settles(Waiting, Holds)
    BY <1>2, <2>1 DEF Mirrors
  <2>3. QED
    BY <1>1, <2>2, SettlesTake
<1>3. QED
  BY <1>2 DEF Mirrors

\* Before the first line has been delivered settings alone are taken.
LEMMA TakeOpening ==
  ASSUME TypeOK, Opening, state = "opened", Waiting # <<>>, Get
  PROVE  Head(Waiting) = "force" /\ Only("force", Waiting')
BY GetTakes, WaitingType, OnlyTake DEF Opening

LEMMA AgreeCommands ==
  ASSUME TypeOK, Agree, MPlayerX, faults' = {}
  PROVE  Agree'
<1>0. UNCHANGED player
  BY DEF MPlayerX, Toggle, FrameStep, Poll, Adjust, Seek, LoadSub
<1>1. Holds' <=> Holds
  BY <1>0 DEF Holds, Halts, player
<1>2. ASSUME UNCHANGED log, state # "opened", state' # "opened"
      PROVE  Opening' /\ Opened'
  BY <1>0, <1>2 DEF Agree, Opening, Opened, player
<1>3. CASE Toggle
  <2>1. state \in {"playing", "paused"} /\ state' \in {"playing", "paused"} /\ UNCHANGED log
    BY <1>3 DEF Toggle
  <2>2. ASSUME state' = "paused"
        PROVE  Settles(Waiting', Holds')
    <3>1. Send(<<"pause">>)
      BY <1>3, <2>2 DEF Toggle
    <3>2. Waiting' = Waiting \o <<"pause">>
      BY <1>0, <3>1, SendAppends, SentCommands DEF Commands, player
    <3>3. QED
      BY <3>2, WaitingType, SettlesPause
  <2>3. QED
    BY <1>2, <2>1, <2>2 DEF Agree, Mirrors
<1>4. CASE FrameStep
  <2>1. state \in {"playing", "paused"} /\ state' = "paused" /\ UNCHANGED log
    BY <1>4 DEF FrameStep
  <2>2. CASE state = "playing"
    <3>1. Send(<<"pause", "step">>)
      BY <1>4, <2>2 DEF FrameStep
    <3>2. Waiting' = Waiting \o <<"pause", "step">>
      BY <1>0, <3>1, SendAppends, SentCommands DEF player
    <3>3. <<"pause", "step">> = <<"pause">> \o <<"step">>
      OBVIOUS
    <3>4. Waiting' = (Waiting \o <<"pause">>) \o <<"step">>
      BY <3>2, <3>3, WaitingType, SentCommands, ConcatAssociative DEF Commands
    <3>5. Waiting \o <<"pause">> \in Seq(Commands)
      BY WaitingType, SentCommands, ConcatProperties DEF Commands
    <3>6. Settles(Waiting \o <<"pause">>, Holds')
      BY WaitingType, SettlesPause
    <3>7. Settles(Waiting', Holds')
      BY <3>4, <3>5, <3>6, SettlesSend DEF Keeping
    <3>8. QED
      BY <1>2, <2>1, <3>7 DEF Agree, Mirrors
  <2>3. CASE state = "paused"
    <3>1. Send(<<"step">>)
      BY <1>4, <2>3 DEF FrameStep
    <3>2. Mirrors'
      BY <1>0, <2>1, <2>3, <3>1, SendMirrors DEF Agree, Keeping
    <3>3. QED
      BY <1>2, <2>1, <3>2 DEF Agree
  <2>4. QED
    BY <2>1, <2>2, <2>3
<1>5. CASE Poll
  BY <1>2, <1>5 DEF Poll, Agree, Mirrors
<1>6. CASE Adjust
  <2>1. UNCHANGED <<state, log>> /\ Send(<<"force">>)
    BY <1>6 DEF Adjust
  <2>2. CASE state = "opened"
    <3>1. Waiting' = Waiting \o <<"force">>
      BY <1>0, <2>1, SendAppends, SentCommands DEF Commands, player
    <3>2. Only("force", Waiting')
      BY <2>2, <3>1, WaitingType, OnlySend DEF Agree, Opening, Commands
    <3>3. Opening'
      BY <1>0, <1>1, <2>1, <2>2, <3>2 DEF Agree, Opening, player
    <3>4. QED
      BY <2>1, <2>2, <3>3 DEF Agree, Opened, Mirrors
  <2>3. CASE state = "playing"
    BY <1>2, <2>1, <2>3 DEF Agree, Mirrors
  <2>4. CASE state = "paused"
    <3>1. Mirrors'
      BY <1>0, <2>1, <2>4, SendMirrors DEF Agree, Keeping
    <3>2. QED
      BY <1>2, <2>1, <2>4, <3>1 DEF Agree
  <2>5. QED
    BY <2>2, <2>3, <2>4 DEF TypeOK
<1>7. CASE Seek
  <2>1. PICK c \in {"seek", "drag"}, n \in 0 .. Len(log) :
          /\ Send(<<c>>) /\ log' = SubSeq(log, 1, n)
          /\ Spend(IF n < Len(log) THEN {"unread"} ELSE {})
    BY <1>7 DEF Seek
  <2>2. UNCHANGED state /\ state # "opened"
    BY <1>7 DEF Seek
  <2>3. ~(n < Len(log))
    BY <2>1 DEF Spend
  <2>4. log \in Seq(Lines) /\ Len(log) \in Nat
    BY LenProperties DEF TypeOK
  <2>5. n = Len(log)
    BY <2>3, <2>4
  <2>6. log' = log
    BY <2>1, <2>4, <2>5, SubSeqFull
  <2>7. CASE state = "playing"
    BY <1>2, <2>2, <2>6, <2>7 DEF Agree, Mirrors
  <2>8. CASE state = "paused"
    <3>1. Mirrors'
      BY <1>0, <2>1, <2>2, <2>6, <2>8, SendMirrors DEF Agree, Keeping
    <3>2. QED
      BY <1>2, <2>2, <2>6, <3>1 DEF Agree
  <2>9. QED
    BY <2>2, <2>7, <2>8 DEF TypeOK
<1>8. CASE LoadSub
  <2>1. UNCHANGED <<state, log>> /\ Send(<<"sub">>) /\ state # "opened"
    BY <1>8 DEF LoadSub
  <2>2. Waiting' = Waiting \o <<"sub">> /\ Waiting \in Seq(Commands)
    BY <1>0, <2>1, SendAppends, SentCommands, WaitingType DEF Commands, player
  <2>3. ~Absent("sub", Waiting')
    BY <2>2, AbsentSend DEF Commands
  <2>4. QED
    BY <1>2, <2>1, <2>3 DEF Agree, Mirrors
<1>9. QED
  BY <1>3, <1>4, <1>5, <1>6, <1>7, <1>8 DEF MPlayerX

\* A line is delivered: the first one tells how the player started, each other
\* one that a subtitle is there.
LEMMA AgreeDeliver ==
  ASSUME TypeOK, Flags, Agree, Deliver
  PROVE  Agree'
<1>0. /\ UNCHANGED player /\ log \in Seq(Lines) /\ log # <<>> /\ log' = Tail(log)
      /\ Head(log) = log[1] /\ Len(log) \in Nat \ {0}
  BY TakeOne DEF Deliver, TypeOK
<1>1. Holds' <=> Holds
  BY <1>0 DEF Holds, Halts, player
<1>2. CASE state = "opened"
  <2>1. /\ ppc # "starting"
        /\ log = <<IF mpx_startatpause = 0 THEN "started" ELSE "startedPaused">>
    BY <1>0, <1>2 DEF Agree, Opening
  <2>2. log' = <<>> /\ log[1] = IF mpx_startatpause = 0 THEN "started" ELSE "startedPaused"
    BY <1>0, <2>1
  <2>3. Opened'
    BY <1>0, <2>1, <2>2, EmptySeq DEF Opened, Only, player
  <2>4. CASE mpx_startatpause = 0
    <3>1. state' = "playing"
      BY <1>0, <2>2, <2>4 DEF Deliver
    <3>2. QED
      BY <2>3, <3>1 DEF Agree, Opening, Mirrors
  <2>5. CASE mpx_startatpause # 0
    <3>1. state' = "paused" /\ UNCHANGED pipe
      BY <1>0, <2>2, <2>5 DEF Deliver
    <3>2. Waiting' = Waiting /\ Waiting \in Seq(Commands)
      BY <1>0, <3>1, WaitingType DEF Waiting, player
    <3>3. Holds' /\ Only("force", Waiting')
      BY <1>1, <1>2, <2>5, <3>2 DEF Agree, Opening
    <3>4. Settles(Waiting', Holds')
      <4>1. 0 \in 0 .. Len(Waiting')
        BY <3>2, LenProperties
      <4>2. \A j \in 1 .. Len(Waiting') : Waiting'[j] \in Keeping
        BY <3>3 DEF Only, Keeping
      <4>3. QED
        BY <3>3, <4>1, <4>2 DEF Settles
    <3>5. QED
      BY <2>3, <3>1, <3>4 DEF Agree, Opening, Mirrors
  <2>6. QED
    BY <2>4, <2>5
<1>3. CASE state # "opened"
  <2>1. Head(log) = "added" /\ Only("added", log') /\ ppc # "starting"
    BY <1>0, <1>3, OnlyTake DEF Agree, Opened
  <2>2. GotSub
    BY <2>1 DEF Deliver
  <2>3. state' = "playing"
    BY <1>3, <2>2 DEF GotSub, TypeOK
  <2>4. QED
    BY <1>0, <2>1, <2>3 DEF Agree, Opening, Opened, Mirrors, player
<1>4. QED
  BY <1>2, <1>3

\* What a step of mplayer that writes no line has to show.
LEMMA StaysAgreed ==
  ASSUME Opening, Opened, UNCHANGED <<state, log>>,
         ppc' = "starting" <=> ppc = "starting",
         mpx_startatpause' = 0 <=> mpx_startatpause = 0,
         state = "opened" => Only("force", Waiting'),
         state = "opened" /\ Holds => Holds'
  PROVE  Opening' /\ Opened'
<1>1. Opened'
  BY DEF Opened
<1>2. ASSUME state = "opened"
      PROVE  Opening'
  <2>1. IF ppc' = "starting" THEN log' = <<>>
        ELSE log' = <<IF mpx_startatpause' = 0 THEN "started" ELSE "startedPaused">>
    <3>1. CASE ppc = "starting"
      BY <1>2, <3>1 DEF Opening
    <3>2. CASE ppc # "starting" /\ mpx_startatpause = 0
      BY <1>2, <3>2 DEF Opening
    <3>3. CASE ppc # "starting" /\ mpx_startatpause # 0
      BY <1>2, <3>3 DEF Opening
    <3>4. QED
      BY <3>1, <3>2, <3>3
  <2>2. Only("force", Waiting') /\ (mpx_startatpause' # 0 => Holds')
    BY <1>2 DEF Opening
  <2>3. QED
    BY <2>1, <2>2, Zenon DEF Opening
<1>3. state # "opened" => Opening'
  BY DEF Opening
<1>4. QED
  BY <1>1, <1>2, <1>3

\* ... and one that takes no command either.
LEMMA StaysMirrored ==
  ASSUME TypeOK, Agree, UNCHANGED <<state, log, Waiting>>,
         ppc' = "starting" <=> ppc = "starting",
         mpx_startatpause' = 0 <=> mpx_startatpause = 0,
         Holds => Holds'
  PROVE  Agree'
<1>1. Opening' /\ Opened'
  BY StaysAgreed DEF Agree, Opening
<1>2. ASSUME state' = "paused", Absent("sub", Waiting'), log' = <<>>
      PROVE  Settles(Waiting', Holds')
  <2>1. Settles(Waiting, Holds)
    BY <1>2 DEF Agree, Mirrors
  <2>2. QED
    BY <2>1, WaitingType, SettlesSame
<1>3. QED
  BY <1>1, <1>2 DEF Agree, Mirrors

\* A command is taken in the main loop.
LEMMA AgreeRun ==
  ASSUME TypeOK, Flags, Agree, Run, faults' = {}
  PROVE  Agree'
<1>0. /\ Waiting # <<>> /\ Get /\ ppc = "commands"
      /\ UNCHANGED <<state, mpx_startatpause>> /\ cmd_queue' = <<>>
  BY GetTakes DEF Run
<1>1. Head(Waiting) \in Commands /\ (cmd_queue # <<>> => cmd_queue = <<Head(Waiting)>>)
  BY <1>0, HeadLooked
<1>2. Holds => frames <= 0 /\ (was_paused \/ ~osd_pause)
  BY <1>0 DEF Holds, Flags
<1>3. state = "opened" => Head(Waiting) = "force" /\ Only("force", Waiting')
  BY <1>0, TakeOpening DEF Agree
<1>4. ppc' # "starting"
  BY <1>0, Zenon DEF Run
<1>5. ASSUME UNCHANGED log, Head(Waiting) # "sub",
             Head(Waiting) = "pause" => Holds',
             Holds /\ Head(Waiting) \in Keeping => Holds'
      PROVE  Agree'
  <2>1. Mirrors'
    BY <1>0, <1>5, TakeMirrors DEF Agree
  <2>2. Opening' /\ Opened'
    BY <1>0, <1>3, <1>4, <1>5, StaysAgreed DEF Agree, Keeping
  <2>3. QED
    BY <2>1, <2>2 DEF Agree
<1>6. CASE Head(Waiting) \in {"pause", "step"}
  <2>1. osd_pause' = TRUE /\ frames' = 0 /\ ppc' = "decode" /\ UNCHANGED log
    BY <1>6 DEF Run
  <2>2. Holds'
    BY <2>1 DEF Holds, Halts
  <2>3. QED
    BY <1>5, <1>6, <2>1, <2>2
<1>7. CASE Head(Waiting) \in {"play", "poll", "force"}
  <2>1. UNCHANGED <<log, osd_pause, frames, ppc, was_paused>>
    BY <1>7 DEF Run
  <2>2. ASSUME Head(Waiting) = "force", Holds
        PROVE  Holds'
    <3>1. cmd_queue \notin {<<"seek">>, <<"drag">>, <<"step">>}
      <4>1. cmd_queue # <<>> => cmd_queue = <<"force">>
        BY <1>1, <2>2
      <4>2. <<>> # <<"seek">> /\ <<>> # <<"drag">> /\ <<>> # <<"step">>
        OBVIOUS
      <4>3. <<"force">> # <<"seek">> /\ <<"force">> # <<"drag">> /\ <<"force">> # <<"step">>
        OBVIOUS
      <4>4. QED
        BY <4>1, <4>2, <4>3
    <3>2. Halts /\ frames <= 0
      BY <1>0, <2>2, <3>1 DEF Holds
    <3>3. QED
      BY <1>0, <2>1, <3>2 DEF Holds, Halts
  <2>3. QED
    BY <1>5, <1>7, <2>1, <2>2 DEF Keeping
<1>8. CASE Head(Waiting) \in {"seek", "drag"}
  <2>1. UNCHANGED <<log, frames>> /\ ppc' \in {"decode", "commands"}
    BY <1>0, <1>8 DEF Run
  <2>2. osd_pause' = IF was_paused THEN TRUE ELSE IF Head(Waiting) = "seek" THEN FALSE ELSE osd_pause
    BY <1>8, Zenon DEF Run, Keeps
  <2>3. ASSUME Holds
        PROVE  Holds'
    <3>1. was_paused /\ frames <= 0
      BY <1>0, <2>3 DEF Holds, Halts, Flags
    <3>2. osd_pause' = TRUE
      BY <2>2, <3>1
    <3>3. QED
      BY <2>1, <3>1, <3>2 DEF Holds, Halts
  <2>4. QED
    BY <1>5, <1>8, <2>1, <2>3
<1>9. CASE Head(Waiting) = "sub"
  <2>1. \/ log' = Append(log, "added")
        \/ Spend({"unloaded"})
    BY <1>9 DEF Run
  <2>2. log' = Append(log, "added")
    BY <2>1 DEF Spend
  <2>3. state # "opened" /\ log \in Seq(Lines) /\ Only("added", log)
    BY <1>3, <1>9 DEF Agree, Opened, TypeOK
  <2>4. log' = log \o <<"added">>
    BY <2>2, <2>3, AppendProperties DEF Lines
  <2>5. Only("added", log') /\ log' # <<>>
    <3>1. Only("added", log')
      BY <2>3, <2>4, OnlySend DEF Lines
    <3>2. Len(log') # 0
      BY <2>3, <2>4, AppendOne DEF Lines
    <3>3. QED
      BY <3>1, <3>2, EmptySeq
  <2>6. QED
    BY <1>0, <1>4, <2>3, <2>5 DEF Agree, Opening, Opened, Mirrors
<1>10. QED
  BY <1>1, <1>6, <1>7, <1>8, <1>9 DEF Commands

\* A command is taken where it cannot end a pause, or is lost.
LEMMA AgreeTake ==
  ASSUME TypeOK, Flags, Agree, Stay \/ Starve, faults' = {}
  PROVE  Agree'
<1>1. Waiting # <<>> /\ Get /\ cmd_queue' = <<>>
  <2>1. CASE Stay
    <3>1. cmd_queue # <<>> /\ cmd_queue' = <<>> /\ UNCHANGED pipe
      BY <2>1 DEF Stay, mirror
    <3>2. Waiting # <<>>
      BY <3>1, ConcatEqualIffEmpty DEF Waiting, TypeOK
    <3>3. QED
      BY <3>1, <3>2 DEF Get
  <2>2. CASE Starve
    BY <2>2, GetTakes DEF Starve
  <2>3. QED
    BY <2>1, <2>2
<1>2. UNCHANGED <<state, log, ppc, osd_pause, was_paused, mpx_startatpause, frames>>
  BY DEF Stay, Starve, mirror
<1>3. Head(Waiting) \in {"poll", "force", "pause"}
      /\ (Head(Waiting) = "pause" => ppc = "loop")
  <2>1. CASE Stay
    <3>1. cmd_queue = <<"force">> \/ cmd_queue = <<"pause">>
      BY <2>1 DEF Stay
    <3>2. cmd_queue = <<Head(Waiting)>>
      BY <1>1, <3>1, HeadLooked
    <3>3. QED
      BY <2>1, <3>1, <3>2 DEF Stay
  <2>2. CASE Starve
    BY <2>2 DEF Starve, Spend
  <2>3. QED
    BY <2>1, <2>2
<1>4. ppc # "commands"
  BY DEF Stay, Starve
<1>5. Holds => Holds'
  BY <1>2, <1>4 DEF Holds, Halts
<1>6. ppc = "loop" => Holds'
  BY <1>2 DEF Holds, Halts, Flags
<1>7. Mirrors'
  BY <1>1, <1>2, <1>3, <1>5, <1>6, TakeMirrors DEF Agree
<1>8. state = "opened" => Only("force", Waiting')
  BY <1>1, TakeOpening DEF Agree
<1>9. Opening' /\ Opened'
  BY <1>2, <1>5, <1>8, StaysAgreed DEF Agree
<1>10. QED
  BY <1>7, <1>9 DEF Agree

LEMMA AgreePlayer ==
  ASSUME TypeOK, Flags, Agree, Player \/ Starve \/ ReadFreed, faults' = {}
  PROVE  Agree'
<1>1. CASE Announce
  <2>1. /\ ppc = "starting" /\ ppc' = "decode"
        /\ log' = Append(log, IF mpx_startatpause = 1 THEN "startedPaused" ELSE "started")
        /\ UNCHANGED <<state, Waiting, cmd_queue, osd_pause, mpx_startatpause, frames>>
    BY <1>1 DEF Announce, Waiting
  <2>2. state = "opened" /\ log = <<>>
    BY <2>1 DEF Agree, Opened, Opening
  <2>3. mpx_startatpause \in {0, 1} /\ frames = 0
    BY <2>1 DEF Flags, TypeOK
  <2>4. log' = <<IF mpx_startatpause = 0 THEN "started" ELSE "startedPaused">>
    BY <2>1, <2>2, <2>3
  <2>5. mpx_startatpause # 0 => Holds'
    BY <2>1, <2>3 DEF Holds, Halts
  <2>6. Opening'
    BY <2>1, <2>2, <2>4, <2>5 DEF Agree, Opening
  <2>7. QED
    BY <2>1, <2>2, <2>6 DEF Agree, Opened, Mirrors
<1>2. CASE Decode
  <2>1. /\ ppc = "decode" /\ ppc' = "pause"
        /\ frames' = IF frames = 2 THEN 2 ELSE frames + 1
        /\ UNCHANGED <<state, log, Waiting, osd_pause, mpx_startatpause>>
    BY <1>2 DEF Decode, Waiting, mirror
  <2>2. frames <= 0 => frames' <= 1
    BY <2>1 DEF TypeOK
  <2>3. ASSUME Holds
        PROVE  Holds'
    <3>1. frames <= 0 /\ Halts
      BY <2>1, <2>3 DEF Holds
    <3>2. frames' <= 1 /\ Halts'
      BY <2>1, <2>2, <3>1 DEF Halts
    <3>3. QED
      BY <2>1, <3>2 DEF Holds
  <2>4. QED
    BY <2>1, <2>3, StaysMirrored
<1>3. CASE EnterPause
  <2>1. /\ ppc = "pause" /\ UNCHANGED <<state, log, Waiting>>
        /\ mpx_startatpause' = IF mpx_startatpause = 1 THEN -1 ELSE mpx_startatpause
        /\ osd_pause' = (osd_pause \/ mpx_startatpause = 1)
    BY <1>3 DEF EnterPause, Waiting, mirror
  <2>2. /\ osd_pause' => ppc' = "loop" /\ frames' = 0
        /\ ppc' \in {"loop", "commands"}
    BY <1>3, Zenon DEF EnterPause
  <2>3. mpx_startatpause' = 0 <=> mpx_startatpause = 0
    BY <2>1
  <2>4. ASSUME Holds
        PROVE  Holds'
    <3>1. osd_pause \/ mpx_startatpause = 1
      BY <2>1, <2>4, Zenon DEF Holds, Halts
    <3>2. ppc' = "loop" /\ frames' = 0
      BY <2>1, <2>2, <3>1, Zenon
    <3>3. QED
      BY <3>2 DEF Holds, Halts
  <2>5. QED
    BY <2>1, <2>2, <2>3, <2>4, StaysMirrored
<1>4. CASE Peek
  <2>1. /\ ppc = "loop" /\ cmd_queue = <<>> /\ pipe # <<>>
        /\ cmd_queue' = <<Head(pipe)>> /\ pipe' = Tail(pipe)
        /\ UNCHANGED <<state, log, ppc, osd_pause, mpx_startatpause, frames>>
    BY <1>4 DEF Peek
  <2>2. Waiting' = Waiting
    <3>1. pipe \in Seq(Commands) /\ <<Head(pipe)>> \in Seq(Commands)
          /\ Tail(pipe) \in Seq(Commands)
      BY <2>1, TakeOne, SentCommands DEF TypeOK
    <3>2. <<Head(pipe)>> \o Tail(pipe) = pipe
      <4>1. /\ Len(<<Head(pipe)>> \o Tail(pipe)) = Len(pipe)
            /\ <<Head(pipe)>> \o Tail(pipe) \in Seq(Commands)
        BY <2>1, <3>1, TakeOne, ConcatProperties
      <4>2. ASSUME NEW i \in 1 .. Len(pipe)
            PROVE  (<<Head(pipe)>> \o Tail(pipe))[i] = pipe[i]
        BY <2>1, <3>1, TakeOne, ConcatProperties
      <4>3. QED
        BY <3>1, <4>1, <4>2, SeqEqual
    <3>3. Waiting = pipe
      BY <2>1, <3>1, ConcatEmptySeq DEF Waiting
    <3>4. QED
      BY <2>1, <3>2, <3>3 DEF Waiting
  <2>3. Holds => Holds'
    BY <2>1 DEF Holds, Halts
  <2>4. QED
    BY <2>1, <2>2, <2>3, StaysMirrored
<1>5. CASE Leave
  <2>1. /\ ppc = "loop" /\ ppc' = "commands" /\ cmd_queue # <<>>
        /\ cmd_queue # <<"force">> /\ cmd_queue # <<"pause">>
        /\ cmd_queue' = IF cmd_queue = <<"play">> THEN <<>> ELSE cmd_queue
        /\ UNCHANGED <<state, pipe, log, was_paused, mpx_startatpause, frames>>
    BY <1>5 DEF Leave, mirror
  <2>2. Waiting # <<>>
    BY <2>1, ConcatEqualIffEmpty DEF Waiting, TypeOK
  <2>3. cmd_queue = <<Head(Waiting)>> /\ Head(Waiting) \in Commands
    BY <2>1, <2>2, HeadLooked
  <2>4. state # "opened"
    BY <2>1, <2>2, <2>3, WaitingType, OnlyTake DEF Agree, Opening
  <2>5. Opening' /\ Opened'
    BY <2>1, <2>4 DEF Agree, Opening, Opened
  <2>6. CASE cmd_queue = <<"play">>
    <3>1. Get /\ Head(Waiting) = "play"
      BY <2>1, <2>3, <2>6 DEF Get
    <3>2. Mirrors'
      BY <2>1, <2>2, <3>1, TakeMirrors DEF Agree, Keeping
    <3>3. QED
      BY <2>5, <3>2 DEF Agree
  <2>7. CASE cmd_queue # <<"play">>
    <3>1. cmd_queue' = cmd_queue /\ Waiting' = Waiting
      BY <2>1, <2>7 DEF Waiting
    <3>2. Head(Waiting) \in Keeping => Head(Waiting) \in {"seek", "drag", "step"}
      BY <2>1, <2>3 DEF Keeping
    <3>3. Head(Waiting) \in Keeping => Holds'
      BY <2>1, <2>3, <3>1, <3>2 DEF Holds, Flags
    <3>4. ASSUME state' = "paused", Absent("sub", Waiting'), log' = <<>>
          PROVE  Settles(Waiting', Holds')
      <4>1. Settles(Waiting, Holds)
        BY <2>1, <3>1, <3>4 DEF Agree, Mirrors
      <4>2. (\A j \in 1 .. Len(Waiting) : Waiting[j] \in Keeping) => Head(Waiting) \in Keeping
        BY <2>2, WaitingType, TakeOne
      <4>3. QED
        BY <3>1, <3>3, <4>1, <4>2, WaitingType, SettlesSame
    <3>5. QED
      BY <2>5, <3>4 DEF Agree, Mirrors
  <2>8. QED
    BY <2>6, <2>7
<1>6. CASE Run
  BY <1>6, AgreeRun
<1>7. CASE NextFrame
  <2>1. /\ ppc = "commands" /\ ppc' = "decode" /\ Waiting = <<>>
        /\ UNCHANGED <<state, log, Waiting, cmd_queue, osd_pause, mpx_startatpause, frames>>
    BY <1>7 DEF NextFrame, Waiting, mirror
  <2>2. cmd_queue = <<>>
    BY <2>1, ConcatEqualIffEmpty DEF Waiting, TypeOK
  <2>3. Holds => Holds'
    BY <2>1, <2>2 DEF Holds, Halts
  <2>4. QED
    BY <2>1, <2>3, StaysMirrored
<1>8. ~ReadFreed
  BY DEF ReadFreed, Spend
<1>9. QED
  BY <1>1, <1>2, <1>3, <1>4, <1>5, <1>6, <1>7, <1>8, AgreeTake DEF Player

-----------------------------------------------------------------------------
(* The invariant and what it gives.                                        *)

LEMMA MirroredInit == Init => Mirrored
<1>1. <<>> \in Seq(Commands) /\ <<>> \in Seq(Lines) /\ Len(<<>>) = 0
  BY EmptySeq
<1>2. ASSUME Init
      PROVE  TypeOK /\ Flags
  <2>1. cmd_queue \in Seq(Commands) /\ Len(cmd_queue) <= 1
        /\ pipe \in Seq(Commands) /\ log \in Seq(Lines)
    <3>1. Len(<<>>) <= 1
      BY <1>1
    <3>2. QED
      BY <1>1, <1>2, <3>1, Zenon DEF Init
  <2>2. TypeOK
    <3>1. /\ state \in {"opened", "playing", "paused"}
          /\ ppc \in {"starting", "decode", "pause", "loop", "commands"}
          /\ osd_pause \in BOOLEAN /\ was_paused \in BOOLEAN
      BY <1>2 DEF Init
    <3>2. /\ mpx_startatpause \in {0, 1, -1} /\ frames \in 0 .. 2
          /\ events \in Nat /\ faults \subseteq {"unread", "lost", "freed", "unloaded"}
      BY <1>2 DEF Init
    <3>3. QED
      BY <2>1, <3>1, <3>2, Zenon DEF TypeOK
  <2>3. Flags
    BY <1>2 DEF Init, Flags
  <2>4. QED
    BY <2>2, <2>3
<1>3. ASSUME Init
      PROVE  Agree
  <2>1. Waiting = <<>>
    BY <1>1, <1>3, ConcatEmptySeq DEF Init, Waiting
  <2>2. Only("force", Waiting)
    BY <1>1, <2>1 DEF Only
  <2>3. mpx_startatpause # 0 => Holds
    BY <1>3 DEF Init, Holds, Halts
  <2>4. QED
    BY <1>3, <2>2, <2>3 DEF Init, Agree, Opening, Opened, Mirrors
<1>4. QED
  BY <1>2, <1>3 DEF Mirrored

LEMMA MirroredStep == Mirrored /\ [Next]_vars => Mirrored'
<1>1. ASSUME Mirrored, [Next]_vars, faults' = {}
      PROVE  Agree'
  <2>1. TypeOK /\ Flags /\ Agree
    BY <1>1, FaultsGrow DEF Mirrored
  <2>2. CASE UNCHANGED vars
    BY <2>1, <2>2 DEF Agree, Opening, Opened, Mirrors, Settles, Holds, Halts, Waiting,
                      vars, mirror, player
  <2>3. QED
    BY <1>1, <2>1, <2>2, AgreeCommands, AgreeDeliver, AgreePlayer DEF Next
<1>2. QED
  BY <1>1, TypeStep, FlagsStep DEF Mirrored

\* The invariant: types, what the flags of the two loops say, and, until something
\* fails, that the commands on their way leave mplayer as MPlayerX shows it.
THEOREM MirrorInvariant == Spec => []Mirrored
BY MirroredInit, MirroredStep, PTL DEF Spec

\* The variables of both programs keep their types, at most one command is
\* looked at ahead of its turn, and few frames are counted.
THEOREM MirrorTypeCorrect == Spec => []TypeOK
BY MirrorInvariant, PTL DEF Mirrored

LEMMA NothingIn ==
  ASSUME NEW S, NEW s \in Seq(S), NEW x, x \notin ToSet(s)
  PROVE  Absent(x, s)
BY DEF Absent, ToSet

\* What MPlayerX shows as paused is paused once nothing is on its way between the
\* programs: no order in which the user pauses, steps, seeks and loads subtitles,
\* mplayer takes the commands and the lines come back leaves it playing.
THEOREM PausedIsPausedHolds == Spec => []PausedIsPaused
<1>1. ASSUME Mirrored
      PROVE  PausedIsPaused
  <2>1. SUFFICES ASSUME faults = {}, state = "paused", InFlight = {}
                 PROVE  Halts
    BY DEF PausedIsPaused
  <2>2. Waiting \in Seq(Commands) /\ log \in Seq(Lines)
    BY <1>1, WaitingType DEF Mirrored, TypeOK
  <2>3. Waiting = <<>> /\ log = <<>>
    BY <2>1, <2>2, EmptySeq DEF InFlight, ToSet
  <2>4. Len(Waiting) = 0 /\ Settles(Waiting, Holds)
    BY <1>1, <2>1, <2>2, <2>3, EmptySeq DEF Mirrored, Agree, Mirrors, Absent
  <2>5. Holds
    BY <2>4 DEF Settles
  <2>6. cmd_queue = <<>>
    BY <1>1, <2>3, ConcatEqualIffEmpty DEF Mirrored, TypeOK, Waiting
  <2>7. QED
    BY <2>5, <2>6 DEF Holds
<1>2. QED
  BY <1>1, MirrorInvariant, PTL

\* While MPlayerX shows a pause, and no further "pause" and no subtitle is on its
\* way, mplayer has shown one frame at most since it was last told to pause: a
\* seek or a step shows one, whatever else waits in the pipe.
THEOREM OneFrameHolds == Spec => []OneFrame
<1>1. ASSUME Mirrored
      PROVE  OneFrame
  <2>1. SUFFICES ASSUME faults = {}, state = "paused",
                        InFlight \cap {"pause", "sub", "added"} = {}
                 PROVE  frames <= 1
    BY DEF OneFrame
  <2>2. Waiting \in Seq(Commands) /\ log \in Seq(Lines)
    BY <1>1, WaitingType DEF Mirrored, TypeOK
  <2>3. "pause" \notin ToSet(Waiting) /\ "sub" \notin ToSet(Waiting) /\ "added" \notin ToSet(log)
    BY <2>1 DEF InFlight
  <2>4. Absent("pause", Waiting) /\ Absent("sub", Waiting) /\ Absent("added", log)
    BY <2>2, <2>3, NothingIn
  <2>5. log = <<>>
    <3>1. Only("added", log)
      BY <1>1, <2>1 DEF Mirrored, Agree, Opened
    <3>2. QED
      BY <2>2, <2>4, <3>1, TakeOne, OnlyTake DEF Absent, Only
  <2>6. Settles(Waiting, Holds)
    BY <1>1, <2>1, <2>4, <2>5 DEF Mirrored, Agree, Mirrors
  <2>7. Holds
    BY <2>2, <2>4, <2>6, SettlesFree
  <2>8. frames \in 0 .. 2
    BY <1>1 DEF Mirrored, TypeOK
  <2>9. QED
    BY <2>7, <2>8 DEF Holds
<1>2. QED
  BY <1>1, MirrorInvariant, PTL
=============================================================================
