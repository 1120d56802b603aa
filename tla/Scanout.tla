------------------------------ MODULE Scanout ------------------------------
(***************************************************************************)
(* The demonstrations cube.c, fft.c and fft_cpu.c: a program takes a screen *)
(* from the DRM of the kernel, shows frame after frame in two or more       *)
(* buffers with page flips, and gives the screen back.  The kernel puts a   *)
(* buffer on the screen at a vertical blank and then sends an event, and a  *)
(* signal may end the program at any time.                                  *)
(*                                                                         *)
(* cube.c and fft.c draw on the GPU, into the buffers of a GBM surface that *)
(* they lock and release; fft_cpu.c has two of its own.                     *)
(***************************************************************************)
EXTENDS Spectrum, Sequences

CONSTANTS
  Boards,  \* what the kernel says of connectors, encoders and CRTCs
  Buffers, \* those of a surface
  NONE

Dumb == {"bufs[0]", "bufs[1]"} \* those of fft_cpu.c
CONSOLE == "console" \* a frame buffer that is not the program's
ASSUME ScanoutAssumption ==
  /\ Cardinality(Buffers) >= 2
  /\ NONE \notin Buffers \cup Dumb \cup {CONSOLE} /\ CONSOLE \notin Buffers

(* The lists of a board refer to each other as those of the kernel do.      *)
Sound(b) ==
  LET Crtcs == {b.crtcs[j] : j \in DOMAIN b.crtcs}
  IN /\ b.crtcs \in Seq(Nat \ {0})
     /\ b.encoders \in Seq([crtc : Crtcs \cup {0}, possible : SUBSET Crtcs])
     /\ b.connectors \in Seq([connected : BOOLEAN, modes : Seq([preferred : BOOLEAN, rows : Nat \ {0}]),
                               encoder : 0 .. Len(b.encoders), encoders : Seq(1 .. Len(b.encoders))])
ASSUME BoardsAssumption == \A b \in Boards : Sound(b)

VARIABLES
  prog,    \* "cube", "fft" or "fft_cpu"
  board,   \* [connectors, encoders, crtcs], in the order the kernel gives them
  crtc,    \* for each CRTC: its frame buffer and its connectors
  flip,    \* the buffer of the flip that waits for the vertical blank, or NONE
  event,   \* an event of a flip has not been read yet
  running,
  pc,      \* where main() is
  out,     \* what drm_init() chose: [connector, crtc, rows, orig], or NONE
  bo, next, locked, wrapped, \* buffer shown, buffer drawn, those locked and those with a frame buffer
  waiting,
  sig, peak, level \* the signal, the marks, and the levels of the frame that is drawn

kernel == <<crtc, flip, event>>
picture == <<sig, peak, level>>
buffers == <<bo, next, locked, wrapped>>
vars == <<prog, board, kernel, running, pc, out, buffers, waiting, picture>>

(* By exit(), or by a NULL pointer.                                         *)
Ended == {"exit", "crashed"}

Pool == IF prog = "fft_cpu" THEN Dumb ELSE Buffers

-----------------------------------------------------------------------------
(* The kernel.                                                              *)

OFF == [fb |-> NONE, heads |-> {}]

Driving(c) == {i \in DOMAIN board.connectors :
                 board.connectors[i].encoder # 0 /\ board.encoders[board.connectors[i].encoder].crtc = c}
AtFirst(c) == IF Driving(c) = {} THEN OFF ELSE [fb |-> CONSOLE, heads |-> Driving(c)]

(* drmModeSetCrtc(): a flip that waits is done or dropped first, and a      *)
(* connector is taken from the CRTC that had it.                            *)
SetCrtc(c, fb, connector) ==
  /\ crtc' = [d \in DOMAIN crtc |->
       CASE d = c -> [fb |-> fb, heads |-> {connector}]
         [] d # c /\ crtc[d].heads = {connector} -> OFF
         [] OTHER -> [crtc[d] EXCEPT !.heads = @ \ {connector}]]
  /\ flip' = NONE

VBlank ==
  /\ flip # NONE
  /\ crtc' = [crtc EXCEPT ![out.crtc].fb = flip] /\ flip' = NONE /\ event' = TRUE
  /\ UNCHANGED <<prog, board, running, pc, out, buffers, waiting, picture>>

Signal ==
  /\ running /\ pc \notin Ended
  /\ running' = FALSE
  /\ pc' = (IF pc = "poll" THEN "wait" ELSE pc) \* poll() is interrupted
  /\ UNCHANGED <<prog, board, kernel, out, buffers, waiting, picture>>

-----------------------------------------------------------------------------
(* drm_init()                                                               *)

First(S) == CHOOSE x \in S : \A y \in S : x <= y

Usable == {i \in DOMAIN board.connectors : board.connectors[i].connected /\ board.connectors[i].modes # <<>>}
Connector == board.connectors[First(Usable)]

BestMode(modes) ==
  LET preferred == {i \in DOMAIN modes : modes[i].preferred}
  IN modes[IF preferred = {} THEN 1 ELSE First(preferred)]

\* The CRTC the connector has, or the first one that one of its encoders can
\* use; 0 if there is none.
CrtcFor(c) ==
  LET current == IF c.encoder = 0 THEN 0 ELSE board.encoders[c.encoder].crtc
      Possible(i) == {j \in DOMAIN board.crtcs : board.crtcs[j] \in board.encoders[c.encoders[i]].possible}
      able == {i \in DOMAIN c.encoders : Possible(i) # {}}
  IN CASE current # 0 -> current
       [] current = 0 /\ able # {} -> board.crtcs[First(Possible(First(able)))]
       [] OTHER -> 0

Leave == pc' = "clean" \* exit() closes the device

drm_init ==
  /\ pc = "drm_init"
  /\ \/ Leave /\ UNCHANGED out \* the device or its resources are not to be had
     \/ /\ Usable # {} /\ CrtcFor(Connector) # 0
        /\ out' = [connector |-> First(Usable), crtc |-> CrtcFor(Connector),
                   rows |-> BestMode(Connector.modes).rows, orig |-> crtc[CrtcFor(Connector)]]
        /\ pc' = (IF prog = "fft_cpu" THEN "create_fb" ELSE "egl_init")
  /\ UNCHANGED <<prog, board, kernel, running, buffers, waiting, picture>>

(* The program ends when any of its calls fails.                            *)
egl_init ==
  /\ pc = "egl_init" /\ (Leave \/ pc' = "gl_init")
  /\ UNCHANGED <<prog, board, kernel, running, out, buffers, waiting, picture>>
gl_init ==
  /\ pc = "gl_init" /\ (Leave \/ pc' = "begin")
  /\ UNCHANGED <<prog, board, kernel, running, out, buffers, waiting, picture>>

(* The second buffer may fail when there is a first.                        *)
create_fb ==
  /\ pc = "create_fb"
  /\ \/ Leave /\ wrapped' \in {{}, {"bufs[0]"}}
     \/ pc' = "begin" /\ wrapped' = Dumb
  /\ UNCHANGED <<prog, board, kernel, running, out, bo, next, locked, waiting, picture>>

-----------------------------------------------------------------------------
(* A frame.                                                                 *)

Back == IF prog # "fft_cpu" THEN Pool \ locked ELSE IF bo = NONE THEN {"bufs[0]"} ELSE Dumb \ {bo}

(* draw() starts: pc is "first" or "draw" until the picture is complete.    *)
DrawInto(target) ==
  /\ next' = target
  /\ IF prog = "cube" THEN UNCHANGED <<sig, level>>
     ELSE /\ sig' = gen_samples(sig)
          /\ \E raw \in [Bins -> -1 .. out.rows] : level' = [b \in Bins |-> Clamped(raw[b], out.rows)]

StartDraw ==
  /\ \/ pc = "begin" /\ pc' = "first"
     \/ pc = "top" /\ running /\ pc' = "draw"
  /\ \E b \in Back : DrawInto(b)
  /\ UNCHANGED <<prog, board, kernel, running, out, bo, locked, wrapped, waiting, peak>>

(* The picture is complete: eglSwapBuffers() and the lock of the buffer.    *)
(* The surface may have none to give, and fb_for_bo() does not look at that.*)
FinishDraw ==
  /\ \/ pc = "first" /\ pc' = "set"
     \/ pc = "draw" /\ pc' = "flip"
     \/ pc \in {"first", "draw"} /\ prog # "fft_cpu" /\ pc' = "crash"
  /\ IF prog = "cube" THEN UNCHANGED peak
     ELSE peak' = IF prog = "fft" THEN Peaks_fft(peak, level) ELSE Peaks_fft_cpu(peak, level)
  /\ level' = [b \in Bins |-> 0]
  /\ locked' = (IF pc' = "crash" \/ prog = "fft_cpu" THEN locked ELSE locked \cup {next})
  /\ UNCHANGED <<prog, board, kernel, running, out, bo, next, wrapped, waiting, sig>>

(* The frame buffer of a locked buffer is made when it is used first; if    *)
(* that fails it has none, and the call that is to show it fails.           *)
fb_for_bo(ok) ==
  /\ next \in wrapped => ok
  /\ wrapped' = IF ok THEN wrapped \cup {next} ELSE wrapped

FirstShown ==
  /\ pc = "set"
  /\ \E ok \in BOOLEAN :
       /\ fb_for_bo(ok)
       /\ \/ ok /\ SetCrtc(out.crtc, next, out.connector) /\ bo' = next /\ pc' = "top"
          \/ Leave /\ UNCHANGED <<crtc, flip, bo>> \* also where Weston has the screen
  /\ UNCHANGED <<prog, board, event, running, out, next, locked, waiting, picture>>

PageFlip ==
  /\ pc = "flip" /\ waiting' = TRUE
  /\ \E ok \in BOOLEAN :
       /\ fb_for_bo(ok)
       /\ \/ ok /\ flip = NONE /\ flip' = next /\ pc' = "wait" /\ UNCHANGED locked
          \/ UNCHANGED flip /\ locked' = locked \ {next} /\ pc' = "restore"
  /\ UNCHANGED <<prog, board, crtc, event, running, out, bo, next, picture>>

(* The loop that sleeps until the flip is done.                             *)
Wait ==
  /\ pc = "wait"
  /\ IF waiting /\ running THEN pc' = "enter" /\ UNCHANGED <<bo, locked>>
     ELSE pc' = "top" /\ bo' = next /\ locked' = locked \ {bo}
  /\ UNCHANGED <<prog, board, kernel, running, out, next, wrapped, waiting, picture>>

(* A signal between the test and poll() does not interrupt poll().          *)
EnterPoll ==
  /\ pc = "enter" /\ pc' = "poll"
  /\ UNCHANGED <<prog, board, kernel, running, out, buffers, waiting, picture>>

drmHandleEvent ==
  /\ pc = "poll" /\ event
  /\ event' = FALSE /\ waiting' = FALSE /\ pc' = "wait"
  /\ UNCHANGED <<prog, board, crtc, flip, running, out, buffers, picture>>

\* Wrong variants: a poll() that waits for ever, and one that is not repeated.
PollTimeout_never == FALSE /\ UNCHANGED vars
PollTimeout_goes_on ==
  /\ pc = "poll" /\ waiting' = FALSE /\ pc' = "wait"
  /\ UNCHANGED <<prog, board, kernel, running, out, buffers, picture>>

PollTimeout ==
  /\ pc = "poll" /\ ~event /\ pc' = "wait"
  /\ UNCHANGED <<prog, board, kernel, running, out, buffers, waiting, picture>>

LeaveLoop ==
  /\ pc = "top" /\ ~running /\ pc' = "restore"
  /\ UNCHANGED <<prog, board, kernel, running, out, buffers, waiting, picture>>

-----------------------------------------------------------------------------

\* Wrong variant: the screen is restored with what is on it now.
Restore_current ==
  /\ pc = "restore" /\ pc' = "clean"
  /\ SetCrtc(out.crtc, crtc[out.crtc].fb, out.connector)
  /\ UNCHANGED <<prog, board, event, running, out, buffers, waiting, picture>>

(* The frame buffer the CRTC had; without one the call fails.               *)
Restore ==
  /\ pc = "restore" /\ pc' = "clean"
  /\ IF out.orig.fb = NONE THEN UNCHANGED <<crtc, flip>> ELSE SetCrtc(out.crtc, out.orig.fb, out.connector)
  /\ UNCHANGED <<prog, board, event, running, out, buffers, waiting, picture>>

(* A CRTC whose frame buffer is removed, by the program or as its device is *)
(* closed, goes dark; the kernel closes the device of a program that crashes.*)
Clean ==
  /\ \/ pc = "clean" /\ pc' = "exit"
     \/ pc = "crash" /\ pc' = "crashed"
  /\ crtc' = [c \in DOMAIN crtc |-> IF crtc[c].fb \in Pool THEN OFF ELSE crtc[c]]
  /\ flip' = NONE /\ event' = FALSE /\ waiting' = FALSE
  /\ bo' = NONE /\ next' = NONE /\ locked' = {} /\ wrapped' = {}
  /\ sig' = signal_init /\ peak' = [b \in Bins |-> 0] /\ UNCHANGED level
  /\ UNCHANGED <<prog, board, running, out>>

Init ==
  /\ prog \in {"cube", "fft", "fft_cpu"} /\ board \in Boards
  /\ crtc = [c \in {board.crtcs[j] : j \in DOMAIN board.crtcs} |-> AtFirst(c)]
  /\ flip = NONE /\ event = FALSE /\ running = TRUE /\ pc = "drm_init" /\ out = NONE
  /\ bo = NONE /\ next = NONE /\ locked = {} /\ wrapped = {} /\ waiting = FALSE
  /\ sig = signal_init /\ peak = [b \in Bins |-> 0] /\ level = [b \in Bins |-> 0]

Main ==
  \/ drm_init \/ egl_init \/ gl_init \/ create_fb
  \/ StartDraw \/ FinishDraw \/ FirstShown \/ PageFlip \/ Wait \/ EnterPoll
  \/ drmHandleEvent \/ PollTimeout \/ LeaveLoop \/ Restore \/ Clean

Next == Main \/ VBlank \/ Signal

(* The program is scheduled, and poll() returns after a second; there may   *)
(* never be another vertical blank.                                         *)
Spec == Init /\ [][Next]_vars /\ WF_vars(Main)

-----------------------------------------------------------------------------
(* A frame is drawn where nobody sees it: not into the buffer on the screen *)
(* nor into one that waits to be shown, and only when the frame before it   *)
(* is on the screen.                                                        *)
DrawsUnseen ==
  /\ pc = "draw" => next # crtc[out.crtc].fb /\ flip = NONE /\ ~event
  /\ pc = "draw" => crtc[out.crtc].fb = bo

(* When a program has ended, on a signal or because a call failed, every    *)
(* screen shows what it showed before ("so the handover back is clean",     *)
(* cube.c:371).  One that crashes may leave its own screen dark, and no     *)
(* other.                                                                   *)
HandedBack ==
  pc \in Ended =>
    \A c \in DOMAIN crtc : crtc[c] = AtFirst(c) \/ (pc = "crashed" /\ c = out.crtc /\ crtc[c] = OFF)

(* What is drawn is made of the newest samples, in order, and stays inside  *)
(* the buffer and the table of colours.                                     *)
FrameSound ==
  pc \in {"first", "draw"} /\ prog # "cube" =>
    /\ InOrder(Window(sig), sig.n)
    /\ prog = "fft_cpu" => Inside(peak, level, out.rows)

(* A signal ends the program, also when it falls between the test of        *)
(* running and the sleep and no vertical blank ever comes.                  *)
SignalEnds == ~running ~> pc \in Ended
=============================================================================
