------------------------------ MODULE EventLoop ------------------------------
(***************************************************************************)
(* The main loop of rieman: the drain loop over X events, the wait in      *)
(* pselect(), the control socket, the signal handler and the reload of the *)
(* configuration (rie_event.c, rie_control.c, rieman.c).                   *)
(*                                                                         *)
(* rieman is one thread.  What makes the loop hard is around it: the X     *)
(* server writes to a socket that libxcb copies into a queue of its own    *)
(* whenever the program waits for any reply; users write datagrams to the  *)
(* control socket and send signals at any moment; the configuration file   *)
(* is edited while it is being read.  Each of those is an action of the    *)
(* environment here, interleaved between the steps of the loop.            *)
(*                                                                         *)
(* What an event handler does to the pager is left to the other modules:   *)
(* a handler only succeeds with or without asking for a redraw, or fails.  *)
(***************************************************************************)
EXTENDS Integers, Sequences

CONSTANTS
  MaxEvents,   (* X events and X errors the server sends (bounds the model) *)
  MaxCommands, (* datagrams the control socket accepts (bounds the model)   *)
  MaxSignals,  (* signals sent to the process (bounds the model)            *)
  MaxEdits,    (* edits of the configuration file (bounds the model)        *)
  XKinds,      (* what the server sends: "event", and "error" where the     *)
               (* asynchronous X errors are of interest                     *)
  Faults,      (* which steps of a reload may fail                          *)
  Paths,       (* the paths a configuration may name as control.socket      *)
  NoPath       (* no control.socket configured                              *)

AllFaults == {"conf", "gfx", "init", "bind", "late"}

ASSUME BoundsAssumption ==
  /\ MaxEvents \in Nat
  /\ MaxCommands \in Nat
  /\ MaxSignals \in Nat
  /\ MaxEdits \in Nat

ASSUME KindsAssumption ==
  /\ XKinds \subseteq {"event", "error"}
  /\ Faults \subseteq AllFaults
  /\ NoPath \notin Paths

VARIABLES
  pc,        (* where the process is in its loop                            *)
  xsock,     (* X events in the kernel, not yet read by libxcb              *)
  xq,        (* X events libxcb has read and the loop has not taken         *)
  conn,      (* the X connection: "ok", "broken", or "noticed" by libxcb    *)
  polled,    (* what the last rie_xcb_next_event() call found               *)
  render,    (* pager->render, and who set it ("no" is 0)                   *)
  quit,      (* rie_quit                                                    *)
  reload,    (* rie_reload                                                  *)
  sigs,      (* signals pending: they are blocked outside pselect()         *)
  file,      (* what each path names: nothing, a socket nobody holds, or    *)
             (* the socket of the running pager or of the one being loaded  *)
  ctl,       (* pager->ctl->path of the running pager, or NoPath            *)
  ctlq,      (* datagrams queued on the running pager's control socket      *)
  newctl,    (* the control path of the pager being loaded, or NoPath       *)
  newq,      (* datagrams queued on the socket of the pager being loaded    *)
  taken,     (* history: a reload that failed had taken the running pager's *)
             (* control path over                                           *)
  disk,      (* version of the configuration file                           *)
  diskctl,   (* the control.socket it configures, or NoPath                 *)
  attempted, (* the version the last rie_pager_new() has read               *)
  asked,     (* history: the version on disk when SIGUSR1 was last sent     *)
  sent,      (* history: X events sent                                      *)
  accepted,  (* history: datagrams accepted by the kernel                   *)
  kills      (* history: signals sent                                       *)

xvars    == <<xsock, xq, conn>>
sockvars == <<file, ctl, ctlq, newctl, newq, taken>>
confvars == <<disk, diskctl, attempted>>
envvars  == <<asked, sent, accepted, kills>>
vars     == <<pc, polled, render, quit, reload, sigs,
              xvars, sockvars, confvars, envvars>>

Running == pc \notin {"exited", "crashed"}
Commands == {"reload", "exit", "tile", "other"}
Control == Paths \union {NoPath}

(* The path p, if there is one, names w from now on.                       *)
Bind(p, w) == [q \in Paths |-> IF q = p THEN w ELSE file[q]]

TypeOK ==
  /\ pc \in {"poll", "handle", "render", "wait", "ctl", "signals", "reload",
             "init", "bound", "exit", "exited", "crashed"}
  /\ xsock \in Seq(XKinds)
  /\ xq \in Seq(XKinds)
  /\ conn \in {"ok", "broken", "noticed"}
  /\ polled \in {"event", "error", "empty"}
  /\ render \in {"no", "event", "tile", "init"}
  /\ quit \in BOOLEAN
  /\ reload \in BOOLEAN
  /\ sigs \subseteq {"quit", "reload"}
  /\ file \in [Paths -> {"absent", "stale", "cur", "new"}]
  /\ ctl \in Control
  /\ ctlq \in Seq(Commands)
  /\ newctl \in Control
  /\ newq \in Seq(Commands)
  /\ taken \in BOOLEAN
  /\ disk \in Nat
  /\ diskctl \in Control
  /\ attempted \in Nat
  /\ asked \in Nat
  /\ sent \in Nat
  /\ accepted \in Nat
  /\ kills \in Nat

(***************************************************************************)
(* main(): the pager is initialised (rie_pager_init() rendered it and left *)
(* the render flag set by the handlers it ran) and the loop is entered.    *)
(***************************************************************************)
Init ==
  /\ pc = "poll"
  /\ xsock = <<>> /\ xq = <<>> /\ conn = "ok" /\ polled = "empty"
  /\ render = "init"
  /\ quit = FALSE /\ reload = FALSE /\ sigs = {}
  /\ diskctl \in Control
  /\ ctl = diskctl
  /\ file = [p \in Paths |-> IF p = ctl THEN "cur" ELSE "absent"]
  /\ ctlq = <<>> /\ newctl = NoPath /\ newq = <<>> /\ taken = FALSE
  /\ disk = 0 /\ attempted = 0 /\ asked = 0
  /\ sent = 0 /\ accepted = 0 /\ kills = 0

-----------------------------------------------------------------------------
(* The environment. *)

(* The X server sends an event, or the error of an unchecked request.      *)
XSend(k) ==
  /\ Running /\ conn = "ok" /\ sent < MaxEvents
  /\ xsock' = Append(xsock, k)
  /\ sent' = sent + 1
  /\ UNCHANGED <<pc, xq, conn, polled, render, quit, reload, sigs,
                 sockvars, confvars, asked, accepted, kills>>

(* The X server goes away; rieman learns of it by reading the connection.  *)
XClose ==
  /\ Running /\ conn = "ok"
  /\ conn' = "broken"
  /\ UNCHANGED <<pc, xsock, xq, polled, render, quit, reload, sigs,
                 sockvars, confvars, envvars>>

(* rieman -m <path> <command>: the datagram goes to the socket the path    *)
(* names at that moment; with no live socket there, sendto() fails and     *)
(* nothing is accepted.                                                    *)
SendCommand(p, c) ==
  /\ Running /\ accepted < MaxCommands
  /\ \/ file[p] = "cur" /\ ctlq' = Append(ctlq, c) /\ UNCHANGED newq
     \/ file[p] = "new" /\ newq' = Append(newq, c) /\ UNCHANGED ctlq
  /\ accepted' = accepted + 1
  /\ UNCHANGED <<pc, xvars, polled, render, quit, reload, sigs, file,
                 ctl, newctl, taken, confvars, asked, sent, kills>>

(* kill: a signal that is already pending is not queued twice.             *)
Kill(s) ==
  /\ Running /\ kills < MaxSignals
  /\ sigs' = sigs \union {s}
  /\ asked' = IF s = "reload" THEN disk ELSE asked
  /\ kills' = kills + 1
  /\ UNCHANGED <<pc, xvars, polled, render, quit, reload, sockvars,
                 confvars, sent, accepted>>

(* The user edits the configuration file, control.socket included.         *)
Edit ==
  /\ Running /\ disk < MaxEdits
  /\ disk' = disk + 1
  /\ diskctl' \in Control
  /\ UNCHANGED <<pc, xvars, polled, render, quit, reload, sigs,
                 sockvars, attempted, envvars>>

Environment ==
  \/ \E k \in XKinds : XSend(k)
  \/ XClose
  \/ \E p \in Paths, c \in Commands : SendCommand(p, c)
  \/ \E s \in {"quit", "reload"} : Kill(s)
  \/ Edit

-----------------------------------------------------------------------------
(* The drain loop. *)

(* Mutant of RoundTrip: what is read is put in front of the queue.         *)
ReadInFront ==
  /\ conn # "noticed"
  /\ xq' = xsock \o xq
  /\ xsock' = <<>>
  /\ conn' = IF conn = "ok" THEN "ok" ELSE "noticed"

(* Waiting for the reply to any request makes libxcb read the socket: the  *)
(* events found before the reply join the queue.  If the connection is     *)
(* gone, this is where libxcb notices.                                     *)
RoundTrip ==
  /\ conn # "noticed"
  /\ xq' = xq \o xsock
  /\ xsock' = <<>>
  /\ conn' = IF conn = "ok" THEN "ok" ELSE "noticed"

MayRoundTrip == RoundTrip \/ UNCHANGED xvars

(* rie_xcb_next_event(): take the head of the queue, reading the socket    *)
(* only when the queue is empty.  An error is logged, freed and reported   *)
(* as "no event", which ends the drain loop.                               *)
Poll ==
  /\ pc = "poll"
  /\ LET avail == IF xq # <<>> THEN xq ELSE xsock
         usable == conn # "noticed" /\ avail # <<>>
     IN  \/ /\ usable
            /\ xq' = Tail(avail)
            /\ xsock' = IF xq # <<>> THEN xsock ELSE <<>>
            /\ polled' = Head(avail)
            /\ pc' = IF Head(avail) = "event" THEN "handle" ELSE "wait"
            /\ UNCHANGED conn
         \/ /\ ~usable
            /\ polled' = "empty"
            /\ pc' = "wait"
            /\ conn' = IF conn = "ok" THEN "ok" ELSE "noticed"
            /\ UNCHANGED <<xq, xsock>>
  /\ UNCHANGED <<render, quit, reload, sigs, sockvars, confvars,
                 envvars>>

(* Mutant of Handle: the redraw is left to the next event.                 *)
HandleNoRender ==
  /\ pc = "handle"
  /\ MayRoundTrip
  /\ render' \in {render, "event"}
  /\ pc' \in {"poll", "exit"}
  /\ UNCHANGED <<polled, quit, reload, sigs, sockvars, confvars,
                 envvars>>

(* The handler found for the event: it may ask for a redraw, and the error *)
(* of any handler ends the loop.                                           *)
Handle ==
  /\ pc = "handle"
  /\ MayRoundTrip
  /\ \/ render' = "event" /\ pc' = "render"
     \/ /\ UNCHANGED render
        /\ pc' = IF render # "no" THEN "render" ELSE "poll"
     \/ UNCHANGED render /\ pc' = "exit"
  /\ UNCHANGED <<polled, quit, reload, sigs, sockvars, confvars,
                 envvars>>

(* Mutant of Render: one event is handled per wake-up.                     *)
RenderThenWait ==
  /\ pc = "render"
  /\ MayRoundTrip
  /\ render' = "no"
  /\ pc' = "wait"
  /\ UNCHANGED <<polled, quit, reload, sigs, sockvars, confvars,
                 envvars>>

(* rie_render(); its errors are ignored and the flag is cleared.           *)
Render ==
  /\ pc = "render"
  /\ MayRoundTrip
  /\ render' = "no"
  /\ pc' = "poll"
  /\ UNCHANGED <<polled, quit, reload, sigs, sockvars, confvars,
                 envvars>>

-----------------------------------------------------------------------------
(* rie_event_wait(): pselect() over the X connection and the control       *)
(* socket, the only place where signals are delivered.                     *)

XReadable == xsock # <<>> \/ conn # "ok"

WakeForCommand ==
  /\ pc = "wait" /\ ctl # NoPath /\ ctlq # <<>>
  /\ pc' = "ctl"
  /\ UNCHANGED <<xvars, polled, render, quit, reload, sigs, sockvars,
                 confvars, envvars>>

WakeForX ==
  /\ pc = "wait" /\ XReadable
  /\ ~(ctl # NoPath /\ ctlq # <<>>)
  /\ pc' = IF conn = "noticed" THEN "exit" ELSE "signals"
  /\ UNCHANGED <<xvars, polled, render, quit, reload, sigs, sockvars,
                 confvars, envvars>>

(* Mutant of WakeForSignal: the handler forgets SIGUSR1.                   *)
WakeNoReload ==
  /\ pc = "wait" /\ sigs # {}
  /\ quit' = (quit \/ "quit" \in sigs)
  /\ sigs' = {}
  /\ pc' = "signals"
  /\ UNCHANGED <<xvars, polled, render, reload, sockvars, confvars,
                 envvars>>

(* Every pending signal is delivered and pselect() fails with EINTR.  With *)
(* a readable descriptor the signals may also stay pending (the other two  *)
(* wake-ups).                                                              *)
WakeForSignal ==
  /\ pc = "wait" /\ sigs # {}
  /\ quit' = (quit \/ "quit" \in sigs)
  /\ reload' = (reload \/ "reload" \in sigs)
  /\ sigs' = {}
  /\ pc' = "signals"
  /\ UNCHANGED <<xvars, polled, render, sockvars, confvars, envvars>>

(* rie_control_handle_socket_event(): the commands are received and run    *)
(* one after the other until the socket is empty, with no X event handled  *)
(* in between.                                                             *)
RunCommand ==
  /\ pc = "ctl" /\ ctlq # <<>>
  /\ MayRoundTrip
  /\ ctlq' = Tail(ctlq)
  /\ reload' = (reload \/ Head(ctlq) = "reload")
  /\ quit' = (quit \/ Head(ctlq) = "exit")
  /\ render' = IF Head(ctlq) = "tile" THEN "tile" ELSE render
  /\ UNCHANGED <<pc, polled, sigs, file, ctl, newctl, newq, taken, confvars,
                 envvars>>

(* Mutant of NoMoreCommands: the flags the commands set are not looked at. *)
CommandsThenPoll ==
  /\ pc = "ctl" /\ ctlq = <<>>
  /\ pc' = "poll"
  /\ UNCHANGED <<xvars, polled, render, quit, reload, sigs, sockvars,
                 confvars, envvars>>

NoMoreCommands ==
  /\ pc = "ctl" /\ ctlq = <<>>
  /\ pc' = "signals"
  /\ UNCHANGED <<xvars, polled, render, quit, reload, sigs, sockvars,
                 confvars, envvars>>

-----------------------------------------------------------------------------
(* Mutant of CheckFlags: the reload first, the request to quit kept.       *)
ReloadFirst ==
  /\ pc = "signals"
  /\ reload' = FALSE
  /\ IF reload
     THEN pc' = "reload" /\ UNCHANGED quit
     ELSE quit' = FALSE /\ pc' = IF quit THEN "exit" ELSE "poll"
  /\ UNCHANGED <<xvars, polled, render, sigs, sockvars, confvars,
                 envvars>>

(* Mutant of CheckFlags: both flags are cleared, the reload served.        *)
ClearBoth ==
  /\ pc = "signals"
  /\ quit' = FALSE /\ reload' = FALSE
  /\ pc' = IF reload THEN "reload" ELSE IF quit THEN "exit" ELSE "poll"
  /\ UNCHANGED <<xvars, polled, render, sigs, sockvars, confvars,
                 envvars>>

(* The flags are looked at once per wake-up, the request to quit first.    *)
CheckFlags ==
  /\ pc = "signals"
  /\ quit' = FALSE
  /\ IF quit
     THEN pc' = "exit" /\ UNCHANGED reload
     ELSE /\ reload' = FALSE
          /\ pc' = IF reload THEN "reload" ELSE "poll"
  /\ UNCHANGED <<xvars, polled, render, sigs, sockvars, confvars,
                 envvars>>

(* rie_event_reload(), step by step: rie_pager_new() reads the file.       *)
ReadConf ==
  /\ pc = "reload"
  /\ attempted' = disk
  /\ newctl' = diskctl
  /\ \/ pc' = "init"
     \/ "conf" \in Faults /\ pc' = "poll"
  /\ UNCHANGED <<xvars, polled, render, quit, reload, sigs, file, ctl,
                 ctlq, newq, taken, disk, diskctl, envvars>>

(* A socket that is closed stays in the file system as a dead name.        *)
Orphan(f) == [p \in Paths |-> IF f[p] = "cur" THEN "stale" ELSE f[p]]

(* rie_pager_init(): layout, graphics and skin; a failure there leaves the *)
(* new pager without a skin, which rie_pager_delete() dereferences.        *)
InitCrash ==
  /\ pc = "init" /\ "gfx" \in Faults
  /\ pc' = "crashed"
  /\ file' = Orphan(file)
  /\ UNCHANGED <<xvars, polled, render, quit, reload, sigs, ctl, ctlq,
                 newctl, newq, taken, confvars, envvars>>

(* Mutant of InitFail: the control socket is made before the events are    *)
(* initialised and the window hints set.                                   *)
InitFailBound ==
  /\ pc = "init" /\ "init" \in Faults
  /\ MayRoundTrip
  /\ pc' = "poll"
  /\ file' = Bind(newctl, "stale")
  /\ UNCHANGED <<polled, render, quit, reload, sigs, ctl, ctlq, newctl,
                 newq, taken, confvars, envvars>>

(* rie_event_init() or the window hints fail: the new pager is deleted and *)
(* the old one goes on.                                                    *)
InitFail ==
  /\ pc = "init" /\ "init" \in Faults
  /\ MayRoundTrip
  /\ pc' = "poll"
  /\ UNCHANGED <<polled, render, quit, reload, sigs, sockvars,
                 confvars, envvars>>

(* rie_control_new(): whatever the path names is unlinked, then the new    *)
(* socket is bound to it.                                                  *)
InitBind ==
  /\ pc = "init"
  /\ MayRoundTrip
  /\ \/ /\ pc' = "bound"
        /\ file' = Bind(newctl, "new")
        /\ UNCHANGED taken
     \/ /\ newctl # NoPath /\ "bind" \in Faults
        /\ pc' = "poll"
        /\ file' = Bind(newctl, "absent")
        /\ taken' = (taken \/ newctl = ctl)
  /\ UNCHANGED <<polled, render, quit, reload, sigs, ctl, ctlq, newctl,
                 newq, confvars, envvars>>

(* rie_event_reload() runs rie_event_init() again: if it fails now, the    *)
(* new socket is closed under the path it has taken over.                  *)
LateFail ==
  /\ pc = "bound" /\ "late" \in Faults
  /\ MayRoundTrip
  /\ pc' = "poll"
  /\ file' = Bind(newctl, "stale")
  /\ taken' = (taken \/ newctl = ctl)
  /\ newq' = <<>>
  /\ UNCHANGED <<polled, render, quit, reload, sigs, ctl, ctlq, newctl,
                 confvars, envvars>>

(* The rest of a swap, given what becomes of the names.                    *)
SwapWith(f) ==
  /\ pc = "bound"
  /\ MayRoundTrip
  /\ pc' = "poll"
  /\ file' = f
  /\ ctl' = newctl
  /\ ctlq' = newq
  /\ newq' = <<>>
  /\ taken' = FALSE
  /\ render' = "init"
  /\ UNCHANGED <<polled, quit, reload, sigs, newctl, confvars, envvars>>

(* Mutant of Swap: the old socket is not closed.                           *)
SwapLeaks ==
  SwapWith([p \in Paths |-> IF p = newctl THEN "cur" ELSE file[p]])

(* The old pager is deleted, its socket closed with what is queued on it,  *)
(* and the new pager takes its place; the socket file is not removed.      *)
Swap ==
  SwapWith([p \in Paths |-> IF p = newctl THEN "cur" ELSE Orphan(file)[p]])

(* rie_pager_delete(pager, 1): the control path is removed, the sockets    *)
(* are closed.                                                             *)
Exit ==
  /\ pc = "exit"
  /\ pc' = "exited"
  /\ file' = Bind(ctl, "absent")
  /\ UNCHANGED <<xvars, polled, render, quit, reload, sigs, ctl, ctlq,
                 newctl, newq, taken, confvars, envvars>>

Loop ==
  \/ Poll \/ Handle \/ Render
  \/ WakeForCommand \/ WakeForX \/ WakeForSignal
  \/ RunCommand \/ NoMoreCommands
  \/ CheckFlags
  \/ ReadConf \/ InitCrash \/ InitFail \/ InitBind \/ LateFail \/ Swap
  \/ Exit

Next == Environment \/ Loop

Spec == Init /\ [][Next]_vars

(* The kernel keeps scheduling the one thread of the program.              *)
FairSpec == Spec /\ WF_vars(Loop)

-----------------------------------------------------------------------------
Ended == pc \in {"exit", "exited", "crashed"}

(***************************************************************************)
(* rieman goes to sleep in pselect() with events left in libxcb's queue    *)
(* only when the drain loop was ended by an X error (rie_xcb_next_event()  *)
(* reports it as the end of the queue) or the connection is lost.  Nothing *)
(* will make the X descriptor readable for those events.                   *)
(***************************************************************************)
NoStrandedEvents ==
  pc = "wait" /\ xq # <<>> => polled = "error" \/ conn = "noticed"

(***************************************************************************)
(* The kernel socket and libxcb's queue together behave as one FIFO        *)
(* channel, although replies awaited by handlers, renderings, commands and *)
(* reloads move events from one to the other at any moment.                *)
(***************************************************************************)
Channel == INSTANCE XChannel WITH
             chan <- xq \o xsock, last <- polled, lost <- (conn = "noticed")

ChannelInOrder == Channel!Spec

(***************************************************************************)
(* A SIGUSR1 is never lost: as long as the file it asked for has not been  *)
(* read, the request is pending in the kernel, in rie_reload, or being     *)
(* served, whatever else arrives meanwhile (signals sent during a reload   *)
(* included).                                                              *)
(***************************************************************************)
SignalReloadNotLost ==
  asked > attempted => \/ "reload" \in sigs
                       \/ reload
                       \/ pc = "reload"
                       \/ Ended

(***************************************************************************)
(* A redraw asked for by an event is done before rieman sleeps.  (One asked *)
(* for by the tile command, which runs outside the drain loop, waits for   *)
(* the next event.)                                                        *)
(***************************************************************************)
RedrawNotForgotten == pc \in {"wait", "ctl", "signals"} => render # "event"

(* The path of the running pager's configuration names its socket, when no *)
(* socket of another pager is bound.                                       *)
PathNamesSocket ==
  ctl # NoPath /\ pc \notin {"bound", "exited", "crashed"} =>
    file[ctl] = "cur"

(***************************************************************************)
(* A command sent to the configured path reaches the running pager, unless *)
(* a reload since it was put into service has failed in or after the bind  *)
(* of a socket to the same path.  Reloads that fail before that, reloads   *)
(* that change the path and fail, and edits of the file do not cut it off, *)
(* and the next reload that succeeds makes good for any that failed.       *)
(***************************************************************************)
ControlReachable == ~taken => PathNamesSocket

(***************************************************************************)
(* "reload failed, keeping old configuration": the control socket of the   *)
(* old configuration is kept with it and reached under its path.           *)
(***************************************************************************)
ReloadKeepsControl == PathNamesSocket

(***************************************************************************)
(* The live control sockets have no other names than the configured ones:  *)
(* the running pager's socket is named by the path of its configuration    *)
(* (and by nothing once rieman has ended), the socket of a pager being     *)
(* loaded only by the path of the new configuration and only until the     *)
(* reload is over.  So no command can reach a pager that has been replaced *)
(* or was never put into service.                                          *)
(***************************************************************************)
NamesBelong ==
  \A p \in Paths :
    /\ file[p] = "cur" => p = ctl /\ Running
    /\ file[p] = "new" => p = newctl /\ pc = "bound"

(***************************************************************************)
(* Once rieman has been told to quit it never reads a configuration again: *)
(* the request to quit is served before a reload asked for together with   *)
(* it, in whichever order the two arrived.                                 *)
(***************************************************************************)
QuitBeforeReload == [][quit => attempted' = attempted]_<<quit, attempted>>

(***************************************************************************)
(* "reload failed, keeping old configuration": whatever makes a reload     *)
(* fail, the pager that was running goes on.                               *)
(***************************************************************************)
ReloadKeepsPager == pc # "crashed"

(***************************************************************************)
(* Every event is eventually taken from the connection, unless rieman      *)
(* ends, or the drain loop was last ended by an asynchronous X error and   *)
(* nothing has woken it since.                                             *)
(***************************************************************************)
EventsHandled ==
  <>[](Ended \/ polled = "error" \/ (xq = <<>> /\ xsock = <<>>))

(***************************************************************************)
(* "exit - terminate the process": an exit command accepted on the control *)
(* socket ends the program.                                                *)
(***************************************************************************)
ExitHonoured ==
  (\E i \in DOMAIN ctlq : ctlq[i] = "exit") ~> pc \in {"exited", "crashed"}

(***************************************************************************)
(* An exit command accepted on the control socket ends the program, unless *)
(* a reload begins to initialise a new pager before the command is read:   *)
(* signals, events, reloads of files that are refused and redraws do not   *)
(* keep it from being run.                                                 *)
(***************************************************************************)
ExitUnlessReload ==
  (\E i \in DOMAIN ctlq : ctlq[i] = "exit")
    ~> pc \in {"exited", "crashed", "init", "bound"}

(***************************************************************************)
(* SIGTERM and SIGINT end the program, even if events, commands and        *)
(* reload requests arrive before it is delivered.                          *)
(***************************************************************************)
QuitHonoured == "quit" \in sigs ~> pc \in {"exited", "crashed"}

(***************************************************************************)
(* A SIGUSR1 makes rieman read the file as it was when the signal was sent, *)
(* or a later version of it.                                               *)
(***************************************************************************)
ReloadHonoured == asked > attempted ~> attempted >= asked \/ Ended
=============================================================================
