--------------------------- MODULE EventLoopProofs ---------------------------
(***************************************************************************)
(* Proofs about EventLoop, for any number of events, commands, signals and *)
(* edits, any set of paths and any reload failures.                        *)
(***************************************************************************)
EXTENDS EventLoop, SequenceTheorems, TLAPS

(* The definitions that only group variables.                              *)
USE DEF vars, xvars, sockvars, confvars, envvars

(***************************************************************************)
(* Type correctness.                                                       *)
(***************************************************************************)
LEMMA TypeInit == Init => TypeOK
<1> SUFFICES ASSUME Init PROVE TypeOK
  OBVIOUS
<1>1. /\ xsock \in Seq(XKinds) /\ xq \in Seq(XKinds)
      /\ ctlq \in Seq(Commands) /\ newq \in Seq(Commands)
  BY EmptySeq DEF Init
<1>2. file \in [Paths -> {"absent", "stale", "cur", "new"}]
  BY DEF Init
<1>3. QED
  BY <1>1, <1>2 DEF Init, TypeOK, Control

(* The environment's steps keep the types. *)
LEMMA TypeEnvironment == TypeOK /\ Environment => TypeOK'
<1> SUFFICES ASSUME TypeOK, Environment PROVE TypeOK'
  OBVIOUS
<1>1. CASE \E k \in XKinds : XSend(k)
  BY <1>1 DEF TypeOK, XSend
<1>2. CASE XClose
  BY <1>2 DEF TypeOK, XClose
<1>3. CASE \E p \in Paths, c \in Commands : SendCommand(p, c)
  <2>1. PICK p \in Paths, c \in Commands : SendCommand(p, c)
    BY <1>3
  <2>2. \A q \in Seq(Commands) : Append(q, c) \in Seq(Commands)
    BY AppendProperties
  <2>3. ctlq' \in Seq(Commands) /\ newq' \in Seq(Commands)
    BY <2>1, <2>2 DEF TypeOK, SendCommand
  <2>4. QED
    BY <2>1, <2>3 DEF TypeOK, SendCommand
<1>4. CASE \E s \in {"quit", "reload"} : Kill(s)
  BY <1>4 DEF TypeOK, Kill
<1>5. CASE Edit
  BY <1>5 DEF TypeOK, Edit
<1>6. QED
  BY <1>1, <1>2, <1>3, <1>4, <1>5 DEF Environment

(* A round trip moves the socket's events to libxcb's queue.               *)
LEMMA RoundTripType ==
  ASSUME TypeOK, MayRoundTrip
  PROVE  /\ xsock' \in Seq(XKinds)
         /\ xq' \in Seq(XKinds)
         /\ conn' \in {"ok", "broken", "noticed"}
<1>1. xq \o xsock \in Seq(XKinds) /\ <<>> \in Seq(XKinds)
  BY ConcatProperties, EmptySeq DEF TypeOK
<1>2. QED
  BY <1>1 DEF TypeOK, MayRoundTrip, RoundTrip

(* The steps of the loop keep the types. *)
LEMMA TypeLoop == TypeOK /\ Loop => TypeOK'
<1> SUFFICES ASSUME TypeOK, Loop PROVE TypeOK'
  OBVIOUS
<1>1. CASE Poll
  <2> DEFINE avail == IF xq # <<>> THEN xq ELSE xsock
  <2>1. avail \in Seq(XKinds) /\ <<>> \in Seq(XKinds)
    BY EmptySeq DEF TypeOK
  <2>2. avail # <<>> => Head(avail) \in XKinds /\ Tail(avail) \in Seq(XKinds)
    BY <2>1, HeadTailProperties
  <2>3. xq' \in Seq(XKinds) /\ xsock' \in Seq(XKinds)
    BY <1>1, <2>1, <2>2 DEF Poll, TypeOK
  <2>4. polled' \in {"event", "error", "empty"}
    BY <1>1, <2>2, KindsAssumption DEF Poll
  <2>5. QED
    BY <1>1, <2>3, <2>4 DEF Poll, TypeOK
<1>2. CASE Handle
  BY <1>2, RoundTripType DEF TypeOK, Handle
<1>3. CASE Render
  BY <1>3, RoundTripType DEF TypeOK, Render
<1>4. CASE WakeForCommand \/ WakeForX \/ WakeForSignal
  BY <1>4 DEF TypeOK, WakeForCommand, WakeForX, WakeForSignal
<1>5. CASE RunCommand
  BY <1>5, RoundTripType DEF TypeOK, RunCommand
<1>6. CASE NoMoreCommands \/ CheckFlags
  BY <1>6 DEF TypeOK, NoMoreCommands, CheckFlags
<1>7. CASE ReadConf
  BY <1>7 DEF TypeOK, ReadConf
<1>8. CASE InitCrash
  BY <1>8 DEF TypeOK, InitCrash, Orphan
<1>9. CASE InitFail
  BY <1>9, RoundTripType DEF TypeOK, InitFail
<1>10. CASE InitBind
  BY <1>10, RoundTripType DEF TypeOK, InitBind, Bind
<1>11. CASE LateFail
  BY <1>11, RoundTripType DEF TypeOK, LateFail, Bind
<1>12. CASE Swap
  <2>1. file' \in [Paths -> {"absent", "stale", "cur", "new"}]
    BY <1>12 DEF TypeOK, Swap, SwapWith, Orphan
  <2>2. /\ xsock' \in Seq(XKinds) /\ xq' \in Seq(XKinds)
        /\ conn' \in {"ok", "broken", "noticed"}
    BY <1>12, RoundTripType DEF Swap, SwapWith
  <2>3. newq' \in Seq(Commands)
    BY <1>12, EmptySeq DEF Swap, SwapWith
  <2>4. QED
    BY <1>12, <2>1, <2>2, <2>3 DEF TypeOK, Swap, SwapWith
<1>13. CASE Exit
  BY <1>13 DEF TypeOK, Exit, Bind
<1>14. QED
  BY <1>1, <1>2, <1>3, <1>4, <1>5, <1>6, <1>7, <1>8, <1>9, <1>10, <1>11,
     <1>12, <1>13 DEF Loop

(***************************************************************************)
(* Every state of the loop has the types of TypeOK.                        *)
(***************************************************************************)
THEOREM TypeCorrect == Spec => []TypeOK
<1>1. TypeOK /\ UNCHANGED vars => TypeOK'
  BY DEF TypeOK
<1>2. TypeOK /\ [Next]_vars => TypeOK'
  BY <1>1, TypeEnvironment, TypeLoop DEF Next
<1>3. QED
  BY TypeInit, <1>2, PTL DEF Spec

(***************************************************************************)
(* The strengthenings.  rie_quit is only ever set while the loop is on its *)
(* way to look at it; the flag of an event's redraw only between handler   *)
(* and rendering; a signal asks for a version that exists.                 *)
(***************************************************************************)
QuitPending == quit => pc \in {"ctl", "signals"}
RedrawPending == render = "event" => pc = "render"
AskedOnDisk == asked <= disk

(* Only Poll leads to the wait, and only Poll can leave events behind.     *)
LEMMA StrandedInductive ==
  TypeOK /\ NoStrandedEvents /\ [Next]_vars => NoStrandedEvents'
<1> SUFFICES ASSUME TypeOK, NoStrandedEvents, [Next]_vars
             PROVE  NoStrandedEvents'
  OBVIOUS
<1>1. CASE Environment
  BY <1>1 DEF NoStrandedEvents, Environment, XSend, XClose, SendCommand, Kill,
              Edit
<1>2. CASE Poll
  <2> DEFINE avail == IF xq # <<>> THEN xq ELSE xsock
  <2>1. avail # <<>> => Head(avail) \in {"event", "error"}
    BY HeadTailProperties, KindsAssumption DEF TypeOK
  <2>2. xq' # <<>> => avail # <<>>
    BY <1>2 DEF Poll
  <2>3. QED
    BY <1>2, <2>1, <2>2 DEF NoStrandedEvents, Poll
<1>3. CASE Loop /\ ~Poll
  (* no other step of the loop leads to the wait *)
  BY <1>3 DEF NoStrandedEvents, Loop, Handle, Render, WakeForCommand, WakeForX,
     WakeForSignal, RunCommand, NoMoreCommands, CheckFlags, ReadConf, InitCrash,
     InitFail, InitBind, LateFail, Swap, SwapWith, Exit
<1>4. CASE UNCHANGED vars
  BY <1>4 DEF NoStrandedEvents
<1>5. QED
  BY <1>1, <1>2, <1>3, <1>4 DEF Next

(* The redraw flag of an event does not outlive the rendering.             *)
LEMMA RedrawInductive == RedrawPending /\ [Next]_vars => RedrawPending'
<1> SUFFICES ASSUME RedrawPending, [Next]_vars PROVE RedrawPending'
  OBVIOUS
<1>1. CASE Environment
  BY <1>1 DEF RedrawPending, Environment, XSend, XClose, SendCommand, Kill, Edit
<1>2. CASE Loop
  BY <1>2 DEF RedrawPending, Loop, Poll, Handle, Render, WakeForCommand,
     WakeForX, WakeForSignal, RunCommand, NoMoreCommands, CheckFlags, ReadConf,
     InitCrash, InitFail, InitBind, LateFail, Swap, SwapWith, Exit
<1>3. CASE UNCHANGED vars
  BY <1>3 DEF RedrawPending
<1>4. QED
  BY <1>1, <1>2, <1>3 DEF Next

(* rie_quit is set on the way to CheckFlags and cleared there.             *)
LEMMA QuitInductive == QuitPending /\ [Next]_vars => QuitPending'
<1> SUFFICES ASSUME QuitPending, [Next]_vars PROVE QuitPending'
  OBVIOUS
<1>1. CASE Environment
  BY <1>1 DEF QuitPending, Environment, XSend, XClose, SendCommand, Kill, Edit
<1>2. CASE Loop
  BY <1>2 DEF QuitPending, Loop, Poll, Handle, Render, WakeForCommand,
     WakeForX, WakeForSignal, RunCommand, NoMoreCommands, CheckFlags, ReadConf,
     InitCrash, InitFail, InitBind, LateFail, Swap, SwapWith, Exit
<1>3. CASE UNCHANGED vars
  BY <1>3 DEF QuitPending
<1>4. QED
  BY <1>1, <1>2, <1>3 DEF Next

ReloadInv == AskedOnDisk /\ SignalReloadNotLost

(* A request to reload moves from the kernel to rie_reload to the reload.  *)
LEMMA ReloadInductive == TypeOK /\ ReloadInv /\ [Next]_vars => ReloadInv'
<1> SUFFICES ASSUME TypeOK, ReloadInv, [Next]_vars PROVE ReloadInv'
  OBVIOUS
<1> USE DEF TypeOK, ReloadInv, AskedOnDisk, SignalReloadNotLost, Ended
<1>1. CASE Environment
  BY <1>1 DEF Environment, XSend, XClose, SendCommand, Kill, Edit
<1>2. CASE Poll \/ Handle \/ Render
  BY <1>2 DEF Poll, Handle, Render
<1>3. CASE WakeForCommand \/ WakeForX \/ WakeForSignal
  BY <1>3 DEF WakeForCommand, WakeForX, WakeForSignal
<1>4. CASE RunCommand \/ NoMoreCommands
  BY <1>4 DEF RunCommand, NoMoreCommands
<1>5. CASE CheckFlags
  BY <1>5 DEF CheckFlags
<1>6. CASE ReadConf
  (* the file read is at least as new as any a signal has asked for *)
  BY <1>6 DEF ReadConf
<1>7. CASE InitCrash \/ InitFail \/ InitBind \/ LateFail \/ Swap \/ Exit
  BY <1>7 DEF InitCrash, InitFail, InitBind, LateFail, Swap, SwapWith, Exit
<1>8. CASE UNCHANGED vars
  BY <1>8
<1>9. QED
  BY <1>1, <1>2, <1>3, <1>4, <1>5, <1>6, <1>7, <1>8 DEF Next, Loop

(* Each step that creates, moves or closes a socket keeps the names.       *)
LEMMA NamesInductive == TypeOK /\ NamesBelong /\ [Next]_vars => NamesBelong'
<1> SUFFICES ASSUME TypeOK, NamesBelong, [Next]_vars PROVE NamesBelong'
  OBVIOUS
<1> USE DEF TypeOK, NamesBelong, Running
<1>1. CASE Environment
  BY <1>1 DEF Environment, XSend, XClose, SendCommand, Kill, Edit
<1>2. CASE Poll \/ Handle \/ Render
  BY <1>2 DEF Poll, Handle, Render
<1>3. CASE WakeForCommand \/ WakeForX \/ WakeForSignal
  BY <1>3 DEF WakeForCommand, WakeForX, WakeForSignal
<1>4. CASE RunCommand \/ NoMoreCommands \/ CheckFlags \/ ReadConf
  BY <1>4 DEF RunCommand, NoMoreCommands, CheckFlags, ReadConf
<1>5. CASE InitCrash
  BY <1>5 DEF InitCrash, Orphan
<1>6. CASE InitFail
  BY <1>6 DEF InitFail
<1>7. CASE InitBind
  BY <1>7 DEF InitBind, Bind
<1>8. CASE LateFail
  BY <1>8 DEF LateFail, Bind
<1>9. CASE Swap
  BY <1>9 DEF Swap, SwapWith, Orphan
<1>10. CASE Exit
  BY <1>10 DEF Exit, Bind
<1>11. CASE UNCHANGED vars
  BY <1>11
<1>12. QED
  BY <1>1, <1>2, <1>3, <1>4, <1>5, <1>6, <1>7, <1>8, <1>9, <1>10, <1>11
     DEF Next, Loop

(***************************************************************************)
(* rieman never sleeps on events it has in memory, except after an         *)
(* asynchronous X error or on a connection it knows to be lost.            *)
(***************************************************************************)
THEOREM NoEventStranded == Spec => []NoStrandedEvents
<1>1. Init => NoStrandedEvents
  BY DEF Init, NoStrandedEvents
<1>2. QED
  BY <1>1, TypeCorrect, StrandedInductive, PTL DEF Spec

(***************************************************************************)
(* A redraw an event has asked for is done before rieman sleeps.           *)
(***************************************************************************)
THEOREM RedrawDone == Spec => []RedrawNotForgotten
<1>1. Init => RedrawPending
  BY DEF Init, RedrawPending
<1>2. RedrawPending => RedrawNotForgotten
  BY DEF RedrawPending, RedrawNotForgotten
<1>3. QED
  BY <1>1, <1>2, RedrawInductive, PTL DEF Spec

(***************************************************************************)
(* A SIGUSR1 is served by reading the configuration as it was when the     *)
(* signal was sent, or later; until then it is pending somewhere.          *)
(***************************************************************************)
THEOREM SignalNotLost == Spec => []SignalReloadNotLost
<1>1. Init => ReloadInv
  BY DEF Init, ReloadInv, AskedOnDisk, SignalReloadNotLost
<1>2. ReloadInv => SignalReloadNotLost
  BY DEF ReloadInv
<1>3. QED
  BY <1>1, <1>2, TypeCorrect, ReloadInductive, PTL DEF Spec

(***************************************************************************)
(* Control sockets are reachable under their configured paths only.        *)
(***************************************************************************)
THEOREM SocketNames == Spec => []NamesBelong
<1>1. Init => NamesBelong
  BY DEF Init, NamesBelong, Running
<1>2. QED
  BY <1>1, TypeCorrect, NamesInductive, PTL DEF Spec

(***************************************************************************)
(* A pager told to quit reads no configuration.                            *)
(***************************************************************************)
THEOREM QuitFirst == Spec => QuitBeforeReload
<1>1. Init => QuitPending
  BY DEF Init, QuitPending
<1>2. QuitPending /\ [Next]_vars
        => [quit => attempted' = attempted]_<<quit, attempted>>
  BY DEF QuitPending, Next, Environment, XSend, XClose, SendCommand, Kill, Edit,
     Loop, Poll, Handle, Render, WakeForCommand, WakeForX, WakeForSignal,
     RunCommand, NoMoreCommands, CheckFlags, ReadConf, InitCrash, InitFail,
     InitBind, LateFail, Swap, SwapWith, Exit
<1>3. QED
  BY <1>1, <1>2, QuitInductive, PTL DEF Spec, QuitBeforeReload

(* While a new socket is bound, the running pager's path is as it was      *)
(* unless it is the same.                                                  *)
ControlInv ==
  /\ ControlReachable
  /\ ~taken /\ ctl # NoPath /\ ctl # newctl /\ pc = "bound" => file[ctl] = "cur"

(***************************************************************************)
(* A command sent to the configured path reaches the running pager unless  *)
(* a reload since then has failed in or after taking that path over,       *)
(* whichever steps of reloads fail.                                        *)
(***************************************************************************)
THEOREM ControlStaysReachable == Spec => []ControlReachable
<1> USE DEF ControlInv, ControlReachable, PathNamesSocket, TypeOK, Control
<1>1. Init => ControlInv
  BY DEF Init
<1>2. TypeOK /\ ControlInv /\ [Next]_vars => ControlInv'
  <2> SUFFICES ASSUME TypeOK, ControlInv, [Next]_vars
               PROVE  ControlInv'
    OBVIOUS
  <2>1. CASE Environment
    BY <2>1 DEF Environment, XSend, XClose, SendCommand, Kill, Edit
  <2>2. CASE Poll \/ Handle \/ Render
    BY <2>2 DEF Poll, Handle, Render
  <2>3. CASE WakeForCommand \/ WakeForX \/ WakeForSignal
    BY <2>3 DEF WakeForCommand, WakeForX, WakeForSignal
  <2>4. CASE RunCommand \/ NoMoreCommands \/ CheckFlags \/ ReadConf
    BY <2>4 DEF RunCommand, NoMoreCommands, CheckFlags, ReadConf
  <2>5. CASE InitCrash \/ InitFail \/ Exit
    BY <2>5 DEF InitCrash, InitFail, Exit
  <2>6. CASE InitBind
    <3>1. ctl \in Paths => file'[ctl] = IF ctl = newctl THEN file'[newctl]
                                        ELSE file[ctl]
      BY <2>6 DEF InitBind, Bind
    <3>2. CASE pc' = "bound" /\ UNCHANGED taken
      BY <2>6, <3>1, <3>2 DEF InitBind
    <3>3. CASE pc' = "poll" /\ taken' = (taken \/ newctl = ctl)
      BY <2>6, <3>1, <3>3 DEF InitBind
    <3>4. QED
      BY <2>6, <3>2, <3>3 DEF InitBind
  <2>7. CASE LateFail
    <3>1. ctl \in Paths /\ ctl # newctl => file'[ctl] = file[ctl]
      BY <2>7 DEF LateFail, Bind
    <3>2. QED
      BY <2>7, <3>1 DEF LateFail
  <2>8. CASE Swap
    BY <2>8 DEF Swap, SwapWith
  <2>9. CASE UNCHANGED vars
    BY <2>9
  <2>10. QED
    BY <2>1, <2>2, <2>3, <2>4, <2>5, <2>6, <2>7, <2>8, <2>9 DEF Next, Loop
<1>3. ControlInv => ControlReachable
  OBVIOUS
<1>4. QED
  BY <1>1, <1>2, <1>3, TypeCorrect, PTL DEF Spec

(* Moving events from the socket to the queue keeps their order.           *)
LEMMA ReadIsStutter ==
  ASSUME TypeOK, RoundTrip
  PROVE  xq' \o xsock' = xq \o xsock
<1>1. xq \o xsock \in Seq(XKinds)
  BY ConcatProperties DEF TypeOK
<1>2. (xq \o xsock) \o <<>> = xq \o xsock
  BY <1>1, ConcatEmptySeq
<1>3. QED
  BY <1>2 DEF RoundTrip

(* rie_xcb_next_event() takes the oldest event of the channel, or none.    *)
LEMMA PollIsTake ==
  ASSUME TypeOK, Poll
  PROVE  Channel!Take \/ Channel!NoEvent
<1> DEFINE avail == IF xq # <<>> THEN xq ELSE xsock
<1>1. CASE conn # "noticed" /\ xq # <<>>
  <2>1. /\ xq' = Tail(xq) /\ xsock' = xsock /\ polled' = Head(xq)
        /\ UNCHANGED conn
    BY <1>1 DEF Poll
  <2>2. /\ xq \o xsock \in Seq(XKinds) /\ xq \o xsock # <<>>
        /\ Head(xq \o xsock) = Head(xq)
        /\ Tail(xq \o xsock) = Tail(xq) \o xsock
    BY <1>1 DEF TypeOK
  <2>3. QED
    BY <1>1, <2>1, <2>2 DEF Channel!Take
<1>2. CASE conn # "noticed" /\ xq = <<>> /\ xsock # <<>>
  <2>1. /\ xq' = Tail(xsock) /\ xsock' = <<>> /\ polled' = Head(xsock)
        /\ UNCHANGED conn
    BY <1>2 DEF Poll
  <2>2. xq \o xsock = xsock /\ Tail(xsock) \o <<>> = Tail(xsock)
    BY <1>2, ConcatEmptySeq, HeadTailProperties DEF TypeOK
  <2>3. QED
    BY <1>2, <2>1, <2>2 DEF Channel!Take
<1>3. CASE conn = "noticed" \/ (xq = <<>> /\ xsock = <<>>)
  <2>1. /\ polled' = "empty" /\ UNCHANGED <<xq, xsock>>
        /\ conn = "noticed" => conn' = "noticed"
    BY <1>3 DEF Poll
  <2>2. <<>> \o <<>> = <<>>
    BY EmptySeq, ConcatEmptySeq
  <2>3. QED
    BY <1>3, <2>1, <2>2 DEF Channel!NoEvent
<1>4. QED
  BY <1>1, <1>2, <1>3

(* A step that may read the socket leaves the channel as it is.            *)
LEMMA MayReadIsStutter ==
  ASSUME TypeOK, MayRoundTrip, UNCHANGED polled
  PROVE  Channel!Lose \/ UNCHANGED <<xq \o xsock, polled, conn = "noticed">>
<1>1. xq' \o xsock' = xq \o xsock
  BY ReadIsStutter DEF MayRoundTrip
<1>2. (conn = "noticed") => (conn' = "noticed")
  BY DEF MayRoundTrip, RoundTrip
<1>3. QED
  BY <1>1, <1>2 DEF Channel!Lose

(***************************************************************************)
(* The kernel's socket and libxcb's queue implement one FIFO channel.      *)
(***************************************************************************)
THEOREM ChannelRefined == Spec => ChannelInOrder
<1>1. Init => Channel!Init
  <2>1. <<>> \o <<>> = <<>>
    BY EmptySeq, ConcatEmptySeq
  <2>2. QED
    BY <2>1 DEF Init, Channel!Init
<1>2. TypeOK /\ [Next]_vars => [Channel!Next]_(Channel!vars)
  <2> SUFFICES ASSUME TypeOK, [Next]_vars
               PROVE  Channel!Next \/ UNCHANGED Channel!vars
    OBVIOUS
  <2>1. ASSUME NEW k \in XKinds, XSend(k) PROVE Channel!Send(k)
    <3>1. /\ xsock' = Append(xsock, k) /\ UNCHANGED <<xq, conn, polled>>
          /\ conn = "ok"
      BY <2>1 DEF XSend
    <3>2. xq \o Append(xsock, k) = Append(xq \o xsock, k)
      BY <2>1 DEF TypeOK
    <3>3. QED
      BY <3>1, <3>2 DEF Channel!Send
  <2>2. CASE XClose
    BY <2>2 DEF XClose, Channel!vars
  <2>3. CASE \/ \E p \in Paths, c \in Commands : SendCommand(p, c)
             \/ \E s \in {"quit", "reload"} : Kill(s)
             \/ Edit
    BY <2>3 DEF SendCommand, Kill, Edit, Channel!vars
  <2>4. CASE Poll
    BY <2>4, PollIsTake DEF Channel!Next
  <2>5. CASE \/ Handle \/ Render \/ RunCommand \/ InitFail \/ InitBind
             \/ LateFail \/ Swap
    <3>1. MayRoundTrip /\ UNCHANGED polled
      BY <2>5 DEF Handle, Render, RunCommand, InitFail, InitBind, LateFail,
         Swap, SwapWith
    <3>2. QED
      BY <3>1, MayReadIsStutter DEF Channel!Next, Channel!vars
  <2>6. CASE \/ WakeForCommand \/ WakeForX \/ WakeForSignal
             \/ NoMoreCommands \/ CheckFlags \/ ReadConf \/ InitCrash \/ Exit
    BY <2>6 DEF WakeForCommand, WakeForX, WakeForSignal, NoMoreCommands,
       CheckFlags, ReadConf, InitCrash, Exit, Channel!vars
  <2>7. CASE UNCHANGED vars
    BY <2>7 DEF Channel!vars
  <2>8. QED
    BY <2>1, <2>2, <2>3, <2>4, <2>5, <2>6, <2>7
       DEF Next, Environment, Loop, Channel!Next
<1>3. QED
  BY <1>1, <1>2, TypeCorrect, PTL DEF Spec, ChannelInOrder, Channel!Spec
=============================================================================
