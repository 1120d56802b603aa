---------------------------- MODULE ScanoutProofs ----------------------------
(***************************************************************************)
(* Proofs about Scanout: a frame is drawn where nobody sees it, the screens *)
(* are given back, and what is drawn is made of the newest samples and      *)
(* stays inside the buffer.                                                 *)
(***************************************************************************)
EXTENDS Scanout, FiniteSetTheorems, WellFoundedInduction, TLAPS

(* What drm_init() finds.                                                   *)
LEMMA FirstIs ==
  ASSUME NEW S, S \subseteq Nat, S # {}
  PROVE  First(S) \in S
<1>1. PICK R : R = OpToRel(<, Nat)
  OBVIOUS
<1>2. IsWellFoundedOn(R, Nat)
  BY <1>1, NatLessThanWellFounded
<1>3. PICK x \in S : \A y \in S : ~(<<y, x>> \in R)
  BY <1>2, WFMin
<1>4. \A y \in S : x <= y
  <2> SUFFICES ASSUME NEW y \in S PROVE x <= y
    OBVIOUS
  <2>1. x \in Nat /\ y \in Nat
    OBVIOUS
  <2>2. y < x => <<y, x>> \in R
    BY <1>1, <2>1 DEF OpToRel
  <2>3. ~(y < x)
    BY <1>3, <2>2
  <2> QED BY <2>1, <2>3
<1> QED BY <1>3, <1>4 DEF First

Crtcs == {board.crtcs[j] : j \in DOMAIN board.crtcs}
ModeRecord == [preferred : BOOLEAN, rows : Nat \ {0}]
ConnectorRecord ==
  [connected : BOOLEAN, modes : Seq(ModeRecord),
   encoder : 0 .. Len(board.encoders), encoders : Seq(1 .. Len(board.encoders))]
EncoderRecord == [crtc : Crtcs \cup {0}, possible : SUBSET Crtcs]

LEMMA BoardIs ==
  ASSUME board \in Boards
  PROVE  /\ board.crtcs \in Seq(Nat \ {0}) /\ Crtcs \subseteq Nat \ {0}
         /\ board.encoders \in Seq(EncoderRecord)
         /\ board.connectors \in Seq(ConnectorRecord)
         /\ \A e \in 1 .. Len(board.encoders) : board.encoders[e] \in EncoderRecord
         /\ \A i \in DOMAIN board.connectors : board.connectors[i] \in ConnectorRecord
<1>1. /\ board.crtcs \in Seq(Nat \ {0})
      /\ board.encoders \in Seq(EncoderRecord)
      /\ board.connectors \in Seq(ConnectorRecord)
  BY BoardsAssumption DEF Sound, EncoderRecord, ModeRecord, ConnectorRecord, Crtcs
<1>2. Crtcs \subseteq Nat \ {0}
  BY <1>1 DEF Crtcs
<1>3. \A e \in 1 .. Len(board.encoders) : board.encoders[e] \in EncoderRecord
  BY <1>1
<1>4. \A i \in DOMAIN board.connectors : board.connectors[i] \in ConnectorRecord
  BY <1>1
<1> QED BY <1>1, <1>2, <1>3, <1>4

LEMMA ConnectorIs ==
  ASSUME board \in Boards, Usable # {}
  PROVE  First(Usable) \in DOMAIN board.connectors /\ Connector \in ConnectorRecord /\ Connector.modes # <<>>
<1>1. Usable \subseteq Nat
  BY BoardIs DEF Usable
<1>2. First(Usable) \in Usable
  BY <1>1, FirstIs
<1> QED BY <1>2, BoardIs DEF Usable, Connector

(* The CRTC is that of the connector's encoder, or one that an encoder of   *)
(* an undriven connector can use.                                           *)
LEMMA CrtcIs ==
  ASSUME board \in Boards, Usable # {}, CrtcFor(Connector) # 0
  PROVE  /\ CrtcFor(Connector) \in Crtcs
         /\ Connector.encoder # 0 /\ board.encoders[Connector.encoder].crtc # 0
              => CrtcFor(Connector) = board.encoders[Connector.encoder].crtc
<1>1. PICK c : c = Connector
  OBVIOUS
<1>2. c \in ConnectorRecord
  BY <1>1, ConnectorIs
<1>3. c.encoder \in 0 .. Len(board.encoders) /\ c.encoders \in Seq(1 .. Len(board.encoders))
  BY <1>2 DEF ConnectorRecord
<1>4. PICK current : current = IF c.encoder = 0 THEN 0 ELSE board.encoders[c.encoder].crtc
  OBVIOUS
<1>5. Len(board.encoders) \in Nat
  BY BoardIs
<1>6. current \in Crtcs \cup {0}
  <2>1. CASE c.encoder = 0
    BY <1>4, <2>1
  <2>2. CASE c.encoder # 0
    <3>1. c.encoder \in 1 .. Len(board.encoders)
      BY <1>3, <1>5, <2>2
    <3> QED BY <1>4, <2>2, <3>1, BoardIs DEF EncoderRecord
  <2> QED BY <2>1, <2>2
<1>7. CASE current # 0
  BY <1>1, <1>4, <1>6, <1>7 DEF CrtcFor
<1>8. CASE current = 0
  <2> DEFINE Possible(i) == {j \in DOMAIN board.crtcs : board.crtcs[j] \in board.encoders[c.encoders[i]].possible}
             able == {i \in DOMAIN c.encoders : Possible(i) # {}}
  <2>1. able # {} /\ CrtcFor(c) = board.crtcs[First(Possible(First(able)))]
    BY <1>1, <1>4, <1>8, Zenon DEF CrtcFor
  <2>2. able \subseteq Nat
    BY <1>3
  <2>3. First(able) \in able
    BY <2>1, <2>2, FirstIs
  <2>4. PICK k : k = First(able)
    OBVIOUS
  <2>5. PICK P : P = {j \in DOMAIN board.crtcs : board.crtcs[j] \in board.encoders[c.encoders[k]].possible}
    OBVIOUS
  <2>6. P # {}
    BY <2>3, <2>4, <2>5
  <2>7. P \subseteq DOMAIN board.crtcs /\ DOMAIN board.crtcs \subseteq Nat
    BY <2>5, BoardIs
  <2>8. First(P) \in P
    BY <2>6, <2>7, FirstIs
  <2>9. CrtcFor(c) = board.crtcs[First(P)]
    BY <2>1, <2>4, <2>5
  <2>10. CrtcFor(c) \in Crtcs
    BY <2>7, <2>8, <2>9 DEF Crtcs
  <2> QED BY <1>1, <1>4, <1>8, <2>10
<1> QED BY <1>7, <1>8

LEMMA ModeIs ==
  ASSUME board \in Boards, Usable # {}
  PROVE  BestMode(Connector.modes).rows \in Nat \ {0}
<1>1. PICK modes : modes = Connector.modes
  OBVIOUS
<1>2. modes \in Seq(ModeRecord) /\ modes # <<>>
  BY <1>1, ConnectorIs DEF ConnectorRecord
<1>3. PICK preferred : preferred = {i \in DOMAIN modes : modes[i].preferred}
  OBVIOUS
<1>4. preferred # {} => First(preferred) \in DOMAIN modes
  <2>1. preferred \subseteq Nat /\ preferred \subseteq DOMAIN modes
    BY <1>2, <1>3
  <2> QED BY <2>1, FirstIs
<1>5. 1 \in DOMAIN modes
  BY <1>2
<1>6. BestMode(modes) = modes[IF preferred = {} THEN 1 ELSE First(preferred)]
  BY <1>3 DEF BestMode
<1>7. PICK i \in DOMAIN modes : BestMode(modes) = modes[i]
  BY <1>4, <1>5, <1>6
<1>8. modes[i] \in ModeRecord
  BY <1>2
<1> QED BY <1>1, <1>7, <1>8 DEF ModeRecord

-----------------------------------------------------------------------------
(* Types, as far as the proofs use them.                                    *)

Early == {"drm_init", "egl_init", "gl_init", "create_fb", "begin", "first", "set"}
Flipping == {"wait", "enter", "poll"}
Loop == {"top", "draw", "flip", "restore"} \cup Flipping
Shown == [fb : Pool \cup {NONE, CONSOLE}, heads : SUBSET Nat]

Chosen ==
  /\ Usable # {} /\ CrtcFor(Connector) # 0
  /\ out.connector = First(Usable) /\ out.crtc = CrtcFor(Connector) /\ out.crtc \in Crtcs
  /\ out.rows = BestMode(Connector.modes).rows /\ out.orig \in Shown

TypesIn ==
  /\ prog \in {"cube", "fft", "fft_cpu"} /\ board \in Boards
  /\ running \in BOOLEAN /\ waiting \in BOOLEAN /\ event \in BOOLEAN
  /\ pc \in Early \cup Loop \cup {"clean", "crash"} \cup Ended
  /\ crtc \in [Crtcs -> Shown] /\ flip \in Pool \cup {NONE}
  /\ pc \in (Early \ {"drm_init"}) \cup Loop \cup {"crash"} \/ flip # NONE => Chosen
  /\ pc \in {"first", "set", "draw", "flip"} \cup Flipping => next \in Pool

LEMMA PoolIs == NONE \notin Pool /\ CONSOLE \notin Pool /\ NONE # CONSOLE
BY ScanoutAssumption DEF Pool, Dumb, CONSOLE

LEMMA AtFirstIs ==
  ASSUME board \in Boards, NEW c
  PROVE  /\ Driving(c) \subseteq DOMAIN board.connectors /\ AtFirst(c) \in Shown /\ OFF \in Shown
         /\ AtFirst(c).fb \notin Pool
         /\ AtFirst(c).fb = NONE => AtFirst(c) = OFF
         /\ AtFirst(c).heads = Driving(c)
<1>1. DOMAIN board.connectors \subseteq Nat
  BY BoardIs
<1>2. Driving(c) \subseteq DOMAIN board.connectors
  BY DEF Driving
<1>3. CASE Driving(c) = {}
  BY <1>2, <1>3, PoolIs DEF AtFirst, OFF, Shown
<1>4. CASE Driving(c) # {}
  BY <1>1, <1>2, <1>4, PoolIs DEF AtFirst, OFF, Shown
<1> QED BY <1>3, <1>4

LEMMA ScreenIs ==
  ASSUME TypesIn, Chosen
  PROVE  out.crtc \in Crtcs /\ out.connector \in Nat /\ out.orig.fb \in Pool \cup {NONE, CONSOLE}
<1>1. board \in Boards
  BY DEF TypesIn
<1>2. First(Usable) \in Nat
  BY <1>1, ConnectorIs, BoardIs DEF Chosen
<1> QED BY <1>2 DEF Chosen, Shown

(* The screen of the program, and those of the others.                      *)
LEMMA SetCrtcIs ==
  ASSUME crtc \in [Crtcs -> Shown], NEW c \in Crtcs, NEW fb \in Pool \cup {CONSOLE}, NEW i \in Nat,
         SetCrtc(c, fb, i)
  PROVE  /\ crtc' \in [Crtcs -> Shown] /\ flip' = NONE
         /\ crtc'[c] = [fb |-> fb, heads |-> {i}]
         /\ \A d \in Crtcs \ {c} : i \notin crtc[d].heads => crtc'[d] = crtc[d]
<1> DEFINE Put(d) == CASE d = c -> [fb |-> fb, heads |-> {i}]
                       [] d # c /\ crtc[d].heads = {i} -> OFF
                       [] OTHER -> [crtc[d] EXCEPT !.heads = @ \ {i}]
<1>1. crtc' = [d \in Crtcs |-> Put(d)] /\ flip' = NONE
  BY DEF SetCrtc
<1>2. Put(c) = [fb |-> fb, heads |-> {i}] /\ Put(c) \in Shown
  <2>1. Put(c) = [fb |-> fb, heads |-> {i}]
    OBVIOUS
  <2>2. [fb |-> fb, heads |-> {i}] \in Shown
    BY DEF Shown
  <2> QED BY <2>1, <2>2
<1>3. ASSUME NEW d \in Crtcs, d # c
      PROVE  Put(d) \in Shown /\ (i \notin crtc[d].heads => Put(d) = crtc[d])
  <2>1. crtc[d] \in Shown
    OBVIOUS
  <2>2. CASE crtc[d].heads = {i}
    <3>1. Put(d) = OFF
      BY <1>3, <2>2
    <3> QED BY <2>2, <3>1 DEF OFF, Shown
  <2>3. CASE crtc[d].heads # {i}
    <3>1. Put(d) = [crtc[d] EXCEPT !.heads = crtc[d].heads \ {i}]
      BY <1>3, <2>3
    <3>2. Put(d) \in Shown
      BY <2>1, <3>1 DEF Shown
    <3>3. i \notin crtc[d].heads => crtc[d].heads \ {i} = crtc[d].heads
      OBVIOUS
    <3>4. i \notin crtc[d].heads => Put(d) = crtc[d]
      BY <2>1, <3>1, <3>3 DEF Shown
    <3> QED BY <3>2, <3>4
  <2> QED BY <2>2, <2>3
<1>4. \A d \in Crtcs : Put(d) \in Shown
  BY <1>2, <1>3
<1>5. crtc' \in [Crtcs -> Shown]
  BY <1>1, <1>4
<1>6. \A d \in Crtcs : crtc'[d] = Put(d)
  BY <1>1
<1> QED BY <1>1, <1>2, <1>3, <1>5, <1>6

LEMMA VBlankIs ==
  ASSUME TypesIn, VBlank
  PROVE  /\ flip # NONE /\ flip \in Pool /\ Chosen /\ out.crtc \in Crtcs
         /\ crtc' \in [Crtcs -> Shown] /\ crtc'[out.crtc].fb = flip
         /\ \A d \in Crtcs \ {out.crtc} : crtc'[d] = crtc[d]
         /\ flip' = NONE /\ event' = TRUE
         /\ UNCHANGED <<prog, board, running, pc, out, buffers, waiting, picture>>
<1>1. /\ flip # NONE /\ flip \in Pool /\ Chosen /\ out.crtc \in Crtcs
      /\ crtc \in [Crtcs -> Shown]
  BY DEF TypesIn, VBlank, Chosen
<1>2. crtc' = [crtc EXCEPT ![out.crtc].fb = flip]
  BY DEF VBlank
<1>3. crtc[out.crtc] \in Shown /\ crtc' = [crtc EXCEPT ![out.crtc] = [crtc[out.crtc] EXCEPT !.fb = flip]]
  BY <1>1, <1>2
<1>4. PICK shown : shown = [crtc[out.crtc] EXCEPT !.fb = flip]
  OBVIOUS
<1>5. shown \in Shown /\ shown.fb = flip
  BY <1>1, <1>3, <1>4 DEF Shown
<1>6. /\ crtc' \in [Crtcs -> Shown] /\ crtc'[out.crtc].fb = flip
      /\ \A d \in Crtcs \ {out.crtc} : crtc'[d] = crtc[d]
  BY <1>1, <1>3, <1>4, <1>5
<1> QED BY <1>1, <1>6 DEF VBlank

LEMMA Steady ==
  ASSUME [Next]_vars
  PROVE  prog' = prog /\ board' = board
BY DEF Next, Main, vars, drm_init, egl_init, gl_init, create_fb, StartDraw, FinishDraw, FirstShown, PageFlip,
       Wait, EnterPoll, drmHandleEvent, PollTimeout, LeaveLoop, Restore, Clean, VBlank, Signal

LEMMA SameBoard ==
  ASSUME board' = board, prog' = prog
  PROVE  /\ Crtcs' = Crtcs /\ Pool' = Pool /\ Shown' = Shown
         /\ Usable' = Usable /\ CrtcFor(Connector)' = CrtcFor(Connector)
         /\ BestMode(Connector.modes)' = BestMode(Connector.modes)
         /\ out' = out /\ Chosen => Chosen'
         /\ \A c : Driving(c)' = Driving(c) /\ AtFirst(c)' = AtFirst(c)
<1>1. Crtcs' = Crtcs
  BY DEF Crtcs
<1>2. Pool' = Pool
  BY DEF Pool
<1>3. Shown' = Shown
  BY <1>2 DEF Shown
<1>4. Usable' = Usable
  BY DEF Usable
<1>5. Connector' = Connector
  BY <1>4 DEF Connector
<1>6. CrtcFor(Connector)' = CrtcFor(Connector)
  BY <1>5 DEF CrtcFor
<1>7. BestMode(Connector.modes)' = BestMode(Connector.modes)
  BY <1>5 DEF BestMode
<1>8. out' = out /\ Chosen => Chosen'
  BY <1>1, <1>3, <1>4, <1>6, <1>7 DEF Chosen
<1>9. ASSUME NEW c PROVE Driving(c)' = Driving(c) /\ AtFirst(c)' = AtFirst(c)
  <2>1. Driving(c)' = Driving(c)
    BY DEF Driving
  <2> QED BY <2>1 DEF AtFirst
<1> QED BY <1>1, <1>2, <1>3, <1>4, <1>6, <1>7, <1>8, <1>9

LEMMA DrawIs ==
  ASSUME TypesIn, StartDraw
  PROVE  next' \in Back /\ next' \in Pool
<1>1. next' \in Back
  BY DEF StartDraw, DrawInto
<1> QED BY <1>1 DEF Back, Pool, Dumb

LEMMA InitTypes ==
  ASSUME Init
  PROVE  TypesIn
<1>1. board \in Boards /\ crtc = [c \in Crtcs |-> AtFirst(c)]
  BY DEF Init, Crtcs
<1>2. crtc \in [Crtcs -> Shown]
  BY <1>1, AtFirstIs
<1> QED BY <1>1, <1>2 DEF Init, TypesIn, Early, Loop, Flipping

LEMMA TypesKept == TypesIn /\ [Next]_vars => TypesIn'
<1> SUFFICES ASSUME TypesIn, [Next]_vars PROVE TypesIn'
  OBVIOUS
<1> USE DEF Early, Loop, Flipping, Ended
<1>0. /\ prog' = prog /\ board' = board /\ Crtcs' = Crtcs /\ Pool' = Pool /\ Shown' = Shown
      /\ out' = out /\ Chosen => Chosen'
  BY Steady, SameBoard
<1>1. CASE drm_init
  <2>1. CASE Usable # {} /\ CrtcFor(Connector) # 0 /\ pc' # "clean"
    <3>1. CrtcFor(Connector) \in Crtcs
      BY <2>1, CrtcIs DEF TypesIn
    <3>2. /\ out'.connector = First(Usable) /\ out'.crtc = CrtcFor(Connector)
          /\ out'.rows = BestMode(Connector.modes).rows /\ out'.orig \in Shown
      BY <1>1, <2>1, <3>1 DEF drm_init, Leave, TypesIn
    <3>3. /\ Usable' = Usable /\ CrtcFor(Connector)' = CrtcFor(Connector)
          /\ BestMode(Connector.modes)' = BestMode(Connector.modes)
      BY <1>0, SameBoard
    <3>4. Chosen'
      BY <1>0, <2>1, <3>1, <3>2, <3>3 DEF Chosen
    <3>5. pc' \in {"create_fb", "egl_init"} /\ UNCHANGED <<crtc, flip, event, running, next, waiting>>
      BY <1>1, <2>1 DEF drm_init, Leave, kernel, buffers
    <3> QED BY <1>0, <3>4, <3>5 DEF TypesIn
  <2>2. CASE pc' = "clean"
    <3>1. out' = out
      BY <1>1, <2>2 DEF drm_init, Leave
    <3> QED BY <1>0, <1>1, <2>2, <3>1 DEF drm_init, TypesIn, kernel, buffers
  <2> QED BY <1>1, <2>1, <2>2 DEF drm_init, Leave
<1>2. CASE egl_init \/ gl_init \/ create_fb
  BY <1>0, <1>2 DEF egl_init, gl_init, create_fb, TypesIn, kernel, buffers, Leave
<1>3. CASE StartDraw
  BY <1>0, <1>3, DrawIs DEF StartDraw, TypesIn, kernel
<1>4. CASE FinishDraw
  BY <1>0, <1>4 DEF FinishDraw, TypesIn, kernel
<1>5. CASE FirstShown
  <2>1. /\ pc = "set" /\ next \in Pool /\ Chosen /\ next' = next /\ out' = out
        /\ UNCHANGED <<event, running, waiting>>
        /\ \/ SetCrtc(out.crtc, next, out.connector) /\ pc' = "top"
           \/ pc' = "clean" /\ crtc' = crtc /\ flip' = flip
    BY <1>5 DEF FirstShown, TypesIn, Leave
  <2>2. out.crtc \in Crtcs /\ out.connector \in Nat
    BY <2>1, ScreenIs
  <2>3. crtc' \in [Crtcs -> Shown] /\ flip' \in Pool \cup {NONE} /\ (flip' = NONE \/ flip' = flip)
    BY <2>1, <2>2, SetCrtcIs DEF TypesIn
  <2> QED BY <1>0, <2>1, <2>3 DEF TypesIn
<1>6. CASE PageFlip
  BY <1>0, <1>6 DEF PageFlip, TypesIn
<1>7. CASE Wait \/ EnterPoll \/ PollTimeout \/ LeaveLoop
  BY <1>0, <1>7 DEF Wait, EnterPoll, PollTimeout, LeaveLoop, TypesIn, kernel, buffers
<1>8. CASE drmHandleEvent
  BY <1>0, <1>8 DEF drmHandleEvent, TypesIn, buffers
<1>9. CASE Restore
  <2>1. /\ pc = "restore" /\ pc' = "clean" /\ Chosen /\ out' = out
        /\ UNCHANGED <<event, running, waiting>>
        /\ \/ crtc' = crtc /\ flip' = flip
           \/ out.orig.fb # NONE /\ SetCrtc(out.crtc, out.orig.fb, out.connector)
    BY <1>9 DEF Restore, TypesIn
  <2>2. out.crtc \in Crtcs /\ out.connector \in Nat /\ out.orig.fb \in Pool \cup {NONE, CONSOLE}
    BY <2>1, ScreenIs
  <2>3. crtc' \in [Crtcs -> Shown] /\ flip' \in Pool \cup {NONE} /\ (flip' = NONE \/ flip' = flip)
    BY <2>1, <2>2, SetCrtcIs DEF TypesIn
  <2> QED BY <1>0, <2>1, <2>3 DEF TypesIn
<1>10. CASE Clean
  <2>1. crtc' \in [Crtcs -> Shown]
    <3>1. board \in Boards /\ crtc \in [Crtcs -> Shown]
      BY DEF TypesIn
    <3>2. OFF \in Shown
      BY <3>1, AtFirstIs
    <3> QED BY <1>10, <3>1, <3>2 DEF Clean
  <2> QED BY <1>0, <1>10, <2>1 DEF Clean, TypesIn
<1>11. CASE VBlank
  BY <1>0, <1>11, VBlankIs DEF TypesIn, buffers
<1>12. CASE Signal
  BY <1>0, <1>12 DEF Signal, TypesIn, kernel, buffers
<1>13. CASE UNCHANGED vars
  BY <1>0, <1>13 DEF vars, TypesIn, kernel, buffers
<1> QED BY <1>1, <1>2, <1>3, <1>4, <1>5, <1>6, <1>7, <1>8, <1>9, <1>10, <1>11, <1>12, <1>13 DEF Next, Main

-----------------------------------------------------------------------------
(* A frame is drawn where nobody sees it.                                   *)

(* The surface gives no buffer that is locked, and the one on the screen is. *)
Kept ==
  /\ prog # "fft_cpu" =>
       /\ pc \in {"set", "flip"} \cup Flipping => next \in locked
       /\ pc \in {"top", "draw", "flip"} \cup Flipping => bo \in locked
  /\ pc \in {"top", "draw", "flip"} \cup Flipping => bo \in Pool
  /\ pc \in {"draw", "flip"} \cup Flipping => next # bo

(* What is on the screen of the program, and what waits to be there.        *)
Shows ==
  /\ pc \in Early => flip = NONE /\ ~event
  /\ pc \in {"draw", "flip"} \/ (pc = "top" /\ running) =>
       flip = NONE /\ ~event /\ crtc[out.crtc].fb = bo
  /\ pc \in Flipping =>
       IF waiting THEN (flip = next /\ ~event) \/ (flip = NONE /\ event /\ crtc[out.crtc].fb = next)
       ELSE flip = NONE /\ ~event /\ crtc[out.crtc].fb = next

Unseen == TypesIn /\ Kept /\ Shows

LEMMA UnseenKept == Unseen /\ [Next]_vars => (Kept /\ Shows)'
<1> SUFFICES ASSUME Unseen, [Next]_vars PROVE (Kept /\ Shows)'
  OBVIOUS
<1> USE DEF Unseen, Early, Loop, Flipping, Ended
<1>0. prog' = prog /\ Pool' = Pool /\ TypesIn
  BY Steady, SameBoard
<1>1. CASE drm_init
  <2>1. pc' \in Early \cup {"clean"} /\ pc' # "set" /\ flip' = flip /\ event' = event /\ pc = "drm_init"
    BY <1>1 DEF drm_init, Leave, kernel
  <2> QED BY <1>0, <2>1 DEF Kept, Shows
<1>2. CASE egl_init \/ gl_init \/ create_fb
  <2>1. pc' \in Early \cup {"clean"} /\ pc' # "set" /\ flip' = flip /\ event' = event /\ pc \in Early
    BY <1>2 DEF egl_init, gl_init, create_fb, Leave, kernel
  <2> QED BY <1>0, <2>1 DEF Kept, Shows
<1>3. CASE StartDraw
  <2>1. /\ UNCHANGED <<crtc, flip, event, running, out, bo, locked, waiting>> /\ next' \in Back
        /\ \/ pc = "begin" /\ pc' = "first"
           \/ pc = "top" /\ running /\ pc' = "draw"
    BY <1>3, DrawIs DEF StartDraw, kernel
  <2>2. CASE pc = "begin"
    BY <1>0, <2>1, <2>2 DEF Kept, Shows
  <2>3. CASE pc = "top"
    <3>1. bo \in Pool /\ bo # NONE
      BY <2>3, PoolIs DEF Kept
    <3>2. next' # bo
      BY <2>1, <2>3, <3>1 DEF Back, Kept
    <3> QED BY <1>0, <2>1, <2>3, <3>2 DEF Kept, Shows
  <2> QED BY <2>1, <2>2, <2>3
<1>4. CASE FinishDraw
  <2>1. /\ UNCHANGED <<crtc, flip, event, running, out, bo, next, waiting>>
        /\ prog # "fft_cpu" /\ pc' # "crash" => locked' = locked \cup {next}
        /\ \/ pc = "first" /\ pc' = "set"
           \/ pc = "draw" /\ pc' = "flip"
           \/ pc' = "crash"
    BY <1>4 DEF FinishDraw, kernel
  <2> QED BY <1>0, <2>1 DEF Kept, Shows
<1>5. CASE FirstShown
  <2>1. /\ pc = "set" /\ next \in Pool /\ Chosen /\ UNCHANGED <<next, locked, out, event, running>>
        /\ \/ SetCrtc(out.crtc, next, out.connector) /\ bo' = next /\ pc' = "top"
           \/ pc' = "clean"
    BY <1>5 DEF FirstShown, TypesIn, Leave
  <2>2. CASE pc' = "clean"
    BY <2>2 DEF Kept, Shows
  <2>3. CASE SetCrtc(out.crtc, next, out.connector) /\ bo' = next /\ pc' = "top"
    <3>1. flip' = NONE /\ crtc'[out.crtc].fb = next
      <4>1. out.crtc \in Crtcs /\ out.connector \in Nat /\ crtc \in [Crtcs -> Shown]
        BY <2>1, ScreenIs DEF TypesIn
      <4>2. flip' = NONE /\ crtc'[out.crtc] = [fb |-> next, heads |-> {out.connector}]
        BY <2>1, <2>3, <4>1, SetCrtcIs
      <4> QED BY <4>2
    <3> QED BY <1>0, <2>1, <2>3, <3>1 DEF Kept, Shows
  <2> QED BY <2>1, <2>2, <2>3
<1>6. CASE PageFlip
  <2>1. /\ pc = "flip" /\ waiting' = TRUE /\ UNCHANGED <<crtc, event, running, out, bo, next>>
        /\ \/ flip' = next /\ pc' = "wait" /\ UNCHANGED locked
           \/ pc' = "restore"
    BY <1>6 DEF PageFlip
  <2> QED BY <1>0, <2>1 DEF Kept, Shows
<1>7. CASE Wait
  <2>1. /\ pc = "wait" /\ UNCHANGED <<crtc, flip, event, running, out, next, waiting>>
        /\ \/ waiting /\ running /\ pc' = "enter" /\ UNCHANGED <<bo, locked>>
           \/ ~(waiting /\ running) /\ pc' = "top" /\ bo' = next /\ locked' = locked \ {bo}
    BY <1>7, Zenon DEF Wait, kernel
  <2>2. next \in Pool
    BY <2>1 DEF TypesIn
  <2> QED BY <1>0, <2>1, <2>2 DEF Kept, Shows
<1>8. CASE EnterPoll \/ PollTimeout
  BY <1>0, <1>8 DEF EnterPoll, PollTimeout, Kept, Shows, kernel, buffers
<1>9. CASE drmHandleEvent
  BY <1>0, <1>9 DEF drmHandleEvent, Kept, Shows, buffers
<1>10. CASE LeaveLoop \/ Restore \/ Clean
  <2>1. pc' \in {"restore", "clean"} \cup Ended
    BY <1>10 DEF LeaveLoop, Restore, Clean
  <2> QED BY <2>1 DEF Kept, Shows
<1>11. CASE VBlank
  <2>1. /\ flip # NONE /\ crtc'[out.crtc].fb = flip /\ flip' = NONE /\ event' = TRUE
        /\ UNCHANGED <<running, pc, out, bo, next, locked, waiting>>
    BY <1>11, VBlankIs DEF buffers
  <2> QED BY <1>0, <2>1 DEF Kept, Shows
<1>12. CASE Signal
  <2>1. /\ UNCHANGED <<crtc, flip, event, out, bo, next, locked, waiting>> /\ running' = FALSE /\ running
        /\ pc' = IF pc = "poll" THEN "wait" ELSE pc
    BY <1>12 DEF Signal, kernel, buffers
  <2> QED BY <1>0, <2>1 DEF Kept, Shows
<1>13. CASE UNCHANGED vars
  BY <1>0, <1>13 DEF vars, Kept, Shows, kernel, buffers
<1> QED BY <1>1, <1>2, <1>3, <1>4, <1>5, <1>6, <1>7, <1>8, <1>9, <1>10, <1>11, <1>12, <1>13 DEF Next, Main

LEMMA UnseenHolds == Spec => []Unseen
<1>1. Init => Unseen
  <2> SUFFICES ASSUME Init PROVE Kept /\ Shows
    BY InitTypes DEF Unseen
  <2> QED BY DEF Init, Kept, Shows, Flipping
<1>2. Unseen /\ [Next]_vars => Unseen'
  BY TypesKept, UnseenKept DEF Unseen
<1> QED BY <1>1, <1>2, PTL DEF Spec

(* The types of the state, for every board and number of buffers.           *)
THEOREM TypeCorrect == Spec => []TypesIn
<1>1. Unseen => TypesIn
  BY DEF Unseen
<1> QED BY <1>1, UnseenHolds, PTL

(* A frame is drawn neither into the buffer on the screen nor into one that *)
(* waits to be shown, whenever the vertical blanks, events and signals come *)
(* and whatever call fails: main() of cube.c, fft.c and fft_cpu.c.          *)
THEOREM DrawsUnseenHolds == Spec => []DrawsUnseen
<1>1. Unseen => DrawsUnseen
  BY DEF Unseen, Kept, Shows, DrawsUnseen
<1> QED BY <1>1, UnseenHolds, PTL

-----------------------------------------------------------------------------
(* The screens are given back.                                              *)

(* No other connector is driven by the CRTC drm_init() chooses.             *)
Unshared == Usable # {} /\ CrtcFor(Connector) # 0 => Driving(CrtcFor(Connector)) \subseteq {First(Usable)}

(* Nor is the program's connector driven by another CRTC.                   *)
Lone ==
  /\ Driving(out.crtc) \subseteq {out.connector}
  /\ \A d \in Crtcs \ {out.crtc} : out.connector \notin Driving(d)

Mine == Lone /\ out.orig = AtFirst(out.crtc)

Apart ==
  /\ pc \in Early \cup {"exit"} => \A c \in Crtcs : crtc[c] = AtFirst(c)
  /\ pc \in (Early \ {"drm_init"}) \cup Loop => Mine
  /\ pc \in Loop =>
       /\ crtc[out.crtc].fb \in Pool
       /\ \A d \in Crtcs \ {out.crtc} : crtc[d] = AtFirst(d)
  /\ pc = "clean" => /\ \A d \in Crtcs : crtc[d] = AtFirst(d) \/ (crtc[d].fb \in Pool /\ AtFirst(d) = OFF)
                     /\ flip # NONE => crtc[out.crtc].fb \in Pool
  /\ pc \in {"crash"} \cup Ended => flip = NONE
  /\ pc = "crash" => /\ out.crtc \in Crtcs
                     /\ \A d \in Crtcs : crtc[d] = AtFirst(d) \/ (d = out.crtc /\ crtc[d].fb \in Pool)
  /\ pc = "crashed" => \A d \in Crtcs : crtc[d] = AtFirst(d) \/ (d = out.crtc /\ crtc[d] = OFF)

Returned == Unseen /\ Unshared /\ Apart

LEMMA LoneIs ==
  ASSUME TypesIn, Unshared, Chosen
  PROVE  Lone
<1>1. board \in Boards /\ Driving(out.crtc) \subseteq {out.connector}
  BY DEF TypesIn, Unshared, Chosen
<1>2. ASSUME NEW d \in Crtcs, out.connector \in Driving(d)
      PROVE  d = out.crtc
  <2>1. /\ Connector.encoder # 0 /\ board.encoders[Connector.encoder].crtc = d
    BY <1>2 DEF Chosen, Driving, Connector
  <2>2. d # 0
    BY <1>1, <1>2, BoardIs
  <2> QED BY <1>1, <2>1, <2>2, CrtcIs DEF Chosen
<1> QED BY <1>1, <1>2 DEF Lone

LEMMA SameLone ==
  ASSUME board' = board, prog' = prog
  PROVE  (Unshared => Unshared') /\ (out' = out /\ Mine => Mine')
<1>1. /\ Usable' = Usable /\ CrtcFor(Connector)' = CrtcFor(Connector) /\ Crtcs' = Crtcs
      /\ \A c : Driving(c)' = Driving(c)
  BY SameBoard
<1>2. First(Usable)' = First(Usable)
  BY <1>1
<1>3. PICK c : c = CrtcFor(Connector)
  OBVIOUS
<1>4. Driving(CrtcFor(Connector))' = Driving(CrtcFor(Connector))
  <2>1. Driving(c)' = Driving(c)
    BY <1>1
  <2> QED BY <1>1, <1>3, <2>1 DEF Driving
<1>5. Unshared => Unshared'
  BY <1>1, <1>2, <1>4 DEF Unshared
<1>6. ASSUME out' = out PROVE Driving(out.crtc)' = Driving(out.crtc)
  BY <1>6 DEF Driving
<1>7. out' = out /\ Lone => Lone'
  BY <1>1, <1>6 DEF Lone
<1>8. ASSUME out' = out PROVE AtFirst(out.crtc)' = AtFirst(out.crtc)
  BY <1>6, <1>8 DEF AtFirst
<1>9. out' = out /\ Mine => Mine'
  BY <1>7, <1>8 DEF Mine
<1> QED BY <1>5, <1>9

LEMMA ApartKept == Returned /\ [Next]_vars => (Unshared /\ Apart)'
<1> SUFFICES ASSUME Returned, [Next]_vars PROVE Apart'
  BY Steady, SameLone DEF Returned
<1> USE DEF Early, Loop, Flipping, Ended
<1>0. /\ prog' = prog /\ board' = board /\ Pool' = Pool /\ Crtcs' = Crtcs /\ TypesIn /\ OFF' = OFF
      /\ out' = out /\ Mine => Mine'
      /\ \A c : AtFirst(c)' = AtFirst(c)
  BY Steady, SameBoard, SameLone DEF Returned, Unseen, OFF
<1>a. board \in Boards /\ crtc \in [Crtcs -> Shown]
  BY <1>0 DEF TypesIn
<1>1. CASE drm_init
  <2>1. pc = "drm_init" /\ crtc' = crtc /\ flip' = flip /\ flip = NONE
    BY <1>1 DEF drm_init, kernel, Returned, Unseen, Shows
  <2>2. \A c \in Crtcs' : crtc'[c] = AtFirst(c)'
    BY <1>0, <2>1 DEF Returned, Apart
  <2>3. CASE pc' = "clean"
    BY <2>1, <2>2, <2>3 DEF Apart
  <2>4. CASE pc' \in {"create_fb", "egl_init"}
    <3>1. Chosen'
      BY <2>4, TypesKept DEF TypesIn, Returned, Unseen
    <3>2. Lone'
      <4>1. TypesIn' /\ Unshared'
        BY TypesKept, Steady, SameLone DEF Returned, Unseen
      <4>2. TypesIn' /\ Unshared' /\ Chosen' => Lone'
        BY LoneIs, PTL
      <4> QED BY <3>1, <4>1, <4>2
    <3>3. out'.orig = crtc[out'.crtc] /\ out'.crtc \in Crtcs'
      <4>1. out'.crtc \in Crtcs'
        BY <3>1 DEF Chosen
      <4>2. out'.orig = crtc[out'.crtc]
        BY <1>1, <2>4 DEF drm_init, Leave
      <4> QED BY <4>1, <4>2
    <3>4. out'.orig = AtFirst(out.crtc)'
      <4>1. PICK c : c = out'.crtc
        OBVIOUS
      <4>2. out'.orig = AtFirst(c)'
        BY <2>1, <2>2, <3>3, <4>1
      <4> QED BY <4>1, <4>2 DEF AtFirst, Driving
    <3> QED BY <2>2, <2>4, <3>2, <3>4 DEF Apart, Mine
  <2> QED BY <1>1, <2>3, <2>4 DEF drm_init, Leave

<1>2. CASE egl_init \/ gl_init \/ create_fb \/ StartDraw \/ (FinishDraw /\ pc' # "crash")
  <2>1. /\ crtc' = crtc /\ flip' = flip /\ out' = out
        /\ \/ pc \in Early \ {"drm_init"} /\ pc' \in (Early \ {"drm_init"}) \cup {"clean"}
           \/ pc \in Loop /\ pc' \in Loop
    BY <1>2 DEF egl_init, gl_init, create_fb, StartDraw, FinishDraw, Leave, kernel
  <2>2. pc \in Early => flip = NONE
    BY DEF Returned, Unseen, Shows
  <2> QED BY <1>0, <2>1, <2>2 DEF Returned, Apart
<1>10. CASE FinishDraw /\ pc' = "crash"
  <2>1. /\ crtc' = crtc /\ flip' = flip /\ out' = out /\ pc \in {"first", "draw"}
    BY <1>10 DEF FinishDraw, kernel
  <2>2. flip = NONE
    BY <2>1 DEF Returned, Unseen, Shows
  <2>3. out.crtc \in Crtcs
    BY <1>0, <2>1 DEF TypesIn, Chosen
  <2>4. \A d \in Crtcs : crtc[d] = AtFirst(d) \/ (d = out.crtc /\ crtc[d].fb \in Pool)
    BY <2>1 DEF Returned, Apart
  <2> QED BY <1>0, <1>10, <2>1, <2>2, <2>3, <2>4 DEF Apart
<1>3. CASE FirstShown
  <2>1. /\ pc = "set" /\ next \in Pool /\ Chosen /\ out' = out /\ Mine /\ flip = NONE
        /\ \A c \in Crtcs : crtc[c] = AtFirst(c)
        /\ \/ SetCrtc(out.crtc, next, out.connector) /\ pc' = "top"
           \/ pc' = "clean" /\ crtc' = crtc /\ flip' = flip
    <3>1. pc = "set" /\ next \in Pool /\ Chosen
      BY <1>0, <1>3 DEF FirstShown, TypesIn
    <3>2. Mine /\ flip = NONE /\ \A c \in Crtcs : crtc[c] = AtFirst(c)
      BY <3>1 DEF Returned, Apart, Unseen, Shows
    <3> QED BY <1>3, <3>1, <3>2 DEF FirstShown, Leave
  <2>2. CASE SetCrtc(out.crtc, next, out.connector) /\ pc' = "top"
    <3>1. out.crtc \in Crtcs /\ out.connector \in Nat
      BY <1>0, <2>1, ScreenIs
    <3>2. /\ crtc'[out.crtc] = [fb |-> next, heads |-> {out.connector}]
          /\ \A d \in Crtcs \ {out.crtc} : out.connector \notin crtc[d].heads => crtc'[d] = crtc[d]
      BY <1>a, <2>1, <2>2, <3>1, SetCrtcIs
    <3>3. \A d \in Crtcs \ {out.crtc} : crtc'[d] = AtFirst(d)
      <4> SUFFICES ASSUME NEW d \in Crtcs \ {out.crtc} PROVE crtc'[d] = AtFirst(d)
        OBVIOUS
      <4>1. out.connector \notin AtFirst(d).heads
        BY <1>a, <2>1, AtFirstIs DEF Mine, Lone
      <4> QED BY <2>1, <3>2, <4>1
    <3> QED BY <1>0, <2>1, <2>2, <3>2, <3>3 DEF Apart
  <2> QED BY <1>0, <2>1, <2>2 DEF Apart
<1>4. CASE PageFlip \/ Wait \/ EnterPoll \/ drmHandleEvent \/ PollTimeout \/ LeaveLoop
  <2>1. crtc' = crtc /\ out' = out /\ pc \in Loop /\ pc' \in Loop
    <3>1. CASE Wait
      BY <3>1, Zenon DEF Wait, kernel
    <3>2. CASE ~Wait
      BY <1>4, <3>2 DEF PageFlip, EnterPoll, drmHandleEvent, PollTimeout, LeaveLoop, kernel
    <3> QED BY <3>1, <3>2
  <2> QED BY <1>0, <2>1 DEF Returned, Apart
<1>5. CASE Restore
  <2>1. /\ pc = "restore" /\ pc' = "clean" /\ Chosen /\ out' = out
        /\ IF out.orig.fb = NONE THEN UNCHANGED <<crtc, flip>> ELSE SetCrtc(out.crtc, out.orig.fb, out.connector)
    BY <1>0, <1>5 DEF Restore, TypesIn
  <2>2. Mine /\ crtc[out.crtc].fb \in Pool /\ \A d \in Crtcs \ {out.crtc} : crtc[d] = AtFirst(d)
    BY <2>1 DEF Returned, Apart
  <2>3. out.crtc \in Crtcs /\ out.connector \in Nat /\ out.orig.fb \in Pool \cup {NONE, CONSOLE}
    BY <1>0, <2>1, ScreenIs
  <2>4. PICK c \in Crtcs : c = out.crtc
    BY <2>3
  <2>5. out.orig = AtFirst(c)
    BY <2>2, <2>4 DEF Mine
  <2>6. CASE out.orig.fb = NONE
    <3>1. AtFirst(c) = OFF
      BY <1>a, <2>5, <2>6, AtFirstIs
    <3>2. \A d \in Crtcs : crtc'[d] = AtFirst(d) \/ (crtc'[d].fb \in Pool /\ AtFirst(d) = OFF)
      BY <2>1, <2>2, <2>4, <2>6, <3>1
    <3>3. crtc'[out.crtc].fb \in Pool
      BY <2>1, <2>2, <2>6
    <3> QED BY <1>0, <2>1, <3>2, <3>3 DEF Apart
  <2>7. CASE out.orig.fb # NONE
    <3>0. SetCrtc(out.crtc, out.orig.fb, out.connector)
      BY <2>1, <2>7
    <3>1. out.orig.fb \in Pool \cup {CONSOLE}
      BY <2>3, <2>7
    <3>2. /\ crtc'[out.crtc] = [fb |-> out.orig.fb, heads |-> {out.connector}] /\ flip' = NONE
          /\ \A d \in Crtcs \ {out.crtc} : out.connector \notin crtc[d].heads => crtc'[d] = crtc[d]
      BY <1>a, <2>3, <3>0, <3>1, SetCrtcIs
    <3>3. \A d \in Crtcs \ {out.crtc} : crtc'[d] = AtFirst(d)
      <4> SUFFICES ASSUME NEW d \in Crtcs \ {out.crtc} PROVE crtc'[d] = AtFirst(d)
        OBVIOUS
      <4>1. out.connector \notin AtFirst(d).heads
        BY <1>a, <2>2, AtFirstIs DEF Mine, Lone
      <4> QED BY <2>2, <3>2, <4>1
    <3>4. crtc'[c] = AtFirst(c)
      <4>1. AtFirst(c) # OFF
        BY <2>5, <2>7 DEF OFF
      <4>2. Driving(c) # {} /\ AtFirst(c) = [fb |-> CONSOLE, heads |-> Driving(c)]
        BY <4>1 DEF AtFirst
      <4>3. Driving(c) = {out.connector}
        BY <2>2, <2>4, <4>2 DEF Mine, Lone
      <4> QED BY <2>4, <2>5, <3>2, <4>2, <4>3
    <3>5. \A d \in Crtcs : crtc'[d] = AtFirst(d)
      BY <2>4, <3>3, <3>4
    <3> QED BY <1>0, <2>1, <3>2, <3>5 DEF Apart
  <2> QED BY <2>6, <2>7
<1>6. CASE Clean
  <2>1. /\ flip' = NONE /\ out' = out
        /\ crtc' = [c \in Crtcs |-> IF crtc[c].fb \in Pool THEN OFF ELSE crtc[c]]
        /\ \/ pc = "clean" /\ pc' = "exit"
           \/ pc = "crash" /\ pc' = "crashed"
    BY <1>6, <1>a DEF Clean
  <2>2. \A d \in Crtcs : AtFirst(d).fb \notin Pool
    BY <1>a, AtFirstIs
  <2>3. CASE pc = "clean"
    <3>1. \A d \in Crtcs : crtc'[d] = AtFirst(d)
      <4> SUFFICES ASSUME NEW d \in Crtcs PROVE crtc'[d] = AtFirst(d)
        OBVIOUS
      <4>1. crtc[d] = AtFirst(d) \/ (crtc[d].fb \in Pool /\ AtFirst(d) = OFF)
        BY <2>3 DEF Returned, Apart
      <4> QED BY <2>1, <2>2, <4>1
    <3> QED BY <1>0, <2>1, <2>3, <3>1 DEF Apart
  <2>4. CASE pc = "crash"
    <3>1. \A d \in Crtcs : crtc'[d] = AtFirst(d) \/ (d = out.crtc /\ crtc'[d] = OFF)
      <4> SUFFICES ASSUME NEW d \in Crtcs PROVE crtc'[d] = AtFirst(d) \/ (d = out.crtc /\ crtc'[d] = OFF)
        OBVIOUS
      <4>1. crtc[d] = AtFirst(d) \/ (d = out.crtc /\ crtc[d].fb \in Pool)
        BY <2>4 DEF Returned, Apart
      <4> QED BY <2>1, <2>2, <4>1
    <3> QED BY <1>0, <2>1, <2>4, <3>1 DEF Apart
  <2> QED BY <2>1, <2>3, <2>4
<1>7. CASE VBlank
  <2>1. /\ flip # NONE /\ flip \in Pool /\ Chosen /\ out.crtc \in Crtcs /\ flip' = NONE
        /\ crtc'[out.crtc].fb = flip
        /\ \A d \in Crtcs \ {out.crtc} : crtc'[d] = crtc[d]
        /\ UNCHANGED <<pc, out>>
    BY <1>0, <1>7, VBlankIs
  <2>2. pc \in Loop \cup {"clean"}
    BY <1>0, <2>1 DEF TypesIn, Returned, Unseen, Shows, Apart
  <2>3. CASE pc \in Loop
    BY <1>0, <2>1, <2>3 DEF Returned, Apart
  <2>4. CASE pc = "clean"
    <3>1. PICK c \in Crtcs : c = out.crtc
      BY <2>1
    <3>2. crtc[c].fb \in Pool /\ (crtc[c] = AtFirst(c) \/ AtFirst(c) = OFF)
      BY <2>1, <2>4, <3>1 DEF Returned, Apart
    <3>3. AtFirst(c) = OFF
      BY <1>a, <3>2, AtFirstIs
    <3>4. \A d \in Crtcs : crtc'[d] = AtFirst(d) \/ (crtc'[d].fb \in Pool /\ AtFirst(d) = OFF)
      BY <2>1, <2>4, <3>1, <3>3 DEF Returned, Apart
    <3> QED BY <1>0, <2>1, <2>4, <3>4 DEF Apart
  <2> QED BY <2>2, <2>3, <2>4
<1>8. CASE Signal
  <2>1. UNCHANGED <<crtc, flip, out>> /\ pc' = (IF pc = "poll" THEN "wait" ELSE pc)
    BY <1>8 DEF Signal, kernel
  <2> QED BY <1>0, <2>1 DEF Returned, Apart
<1>9. CASE UNCHANGED vars
  BY <1>0, <1>9 DEF Returned, Apart, vars, kernel
<1> QED BY <1>1, <1>2, <1>3, <1>4, <1>5, <1>6, <1>7, <1>8, <1>9, <1>10 DEF Next, Main

(* When a program has ended, every screen shows what it showed before, on   *)
(* every board where the CRTC drm_init() chooses shows no other screen; one *)
(* that crashed leaves at most its own screen dark: the restore at the end  *)
(* of main(), exit(), and fb_for_bo() without a buffer.                     *)
THEOREM HandedBackHolds == Spec /\ Unshared => []HandedBack
<1>1. Init /\ Unshared => Returned
  <2> SUFFICES ASSUME Init, Unshared PROVE Returned
    OBVIOUS
  <2>1. Unseen
    BY InitTypes DEF Unseen, Init, Kept, Shows, Flipping
  <2>2. crtc = [c \in Crtcs |-> AtFirst(c)] /\ pc = "drm_init"
    BY DEF Init, Crtcs
  <2>3. Apart
    BY <2>2 DEF Apart, Loop, Flipping, Ended
  <2> QED BY <2>1, <2>3 DEF Returned
<1>2. Returned /\ [Next]_vars => Returned'
  BY ApartKept, TypesKept, UnseenKept DEF Returned, Unseen
<1>3. Returned => HandedBack
  <2> SUFFICES ASSUME Returned, pc \in Ended
               PROVE  \A c \in DOMAIN crtc : crtc[c] = AtFirst(c) \/ (pc = "crashed" /\ c = out.crtc /\ crtc[c] = OFF)
    BY DEF HandedBack
  <2>1. DOMAIN crtc = Crtcs
    BY DEF Returned, Unseen, TypesIn
  <2> QED BY <2>1 DEF Returned, Apart, Ended
<1> QED BY <1>1, <1>2, <1>3, PTL DEF Spec

-----------------------------------------------------------------------------
(* The frames of the analysers are sound.                                   *)

LEMMA Sizes ==
  /\ NFFT \in Nat \ {0} /\ NBIN \in Nat \ {0} /\ RampRows \in Nat \ {0} /\ HOP \in 1 .. NFFT
  /\ W \in Nat /\ W > 1 /\ Numbers \in Nat \ {0} /\ Numbers > NFFT
<1>1. NFFT \in Nat \ {0} /\ NBIN \in Nat \ {0} /\ RampRows \in Nat \ {0}
  BY SpectrumAssumption
<1>2. HOP \in 1 .. NFFT /\ W \in Nat /\ W > 1 /\ Numbers \in Nat /\ Numbers > NFFT
  BY SpectrumAssumption
<1> QED BY <1>1, <1>2

Signals == [ring : [0 .. NFFT - 1 -> 0 .. Numbers], head : 0 .. NFFT - 1, n : 0 .. Numbers - 1]

LEMMA RingIndex ==
  ASSUME NEW N \in Nat \ {0}, NEW hop \in 1 .. N, NEW h \in 0 .. N - 1, NEW j \in 0 .. N - 1,
         NEW i, i = (((h + hop) % N) + j) % N
  PROVE  /\ i \in 0 .. N - 1
         /\ (i - h) % N = IF j + hop < N THEN j + hop ELSE j + hop - N
         /\ j + hop < N => (h + (j + hop)) % N = i
<1>1. PICK g \in 0 .. N - 1 : g = (h + hop) % N
  OBVIOUS
<1>2. g = h + hop \/ g = h + hop - N
  BY <1>1
<1>3. i \in 0 .. N - 1 /\ i = (g + j) % N
  BY <1>1
<1>4. i = g + j \/ i = g + j - N
  BY <1>3
<1>5. PICK k \in 0 .. N - 1 : k = (i - h) % N
  BY <1>3
<1>6. k = i - h \/ k = i - h + N
  BY <1>3, <1>5
<1>7. k = IF j + hop < N THEN j + hop ELSE j + hop - N
  BY <1>2, <1>3, <1>4, <1>6
<1>8. CASE j + hop < N
  <2>1. PICK x \in Nat : x = h + (j + hop)
    OBVIOUS
  <2>2. i = x \/ i = x - N
    BY <1>2, <1>3, <1>4, <1>8, <2>1
  <2>3. x % N = i
    BY <1>3, <2>2
  <2> QED BY <1>3, <1>5, <1>7, <1>8, <2>1, <2>3
<1>9. CASE ~(j + hop < N)
  BY <1>3, <1>5, <1>7, <1>9
<1> QED BY <1>8, <1>9

(* A frame moves the window on by HOP samples: gen_samples() of fft.c and   *)
(* fft_cpu.c.                                                               *)
LEMMA WindowMoves ==
  ASSUME NEW s \in Signals, NEW j \in 0 .. NFFT - 1
  PROVE  /\ gen_samples(s) \in Signals
         /\ Window(gen_samples(s))[j]
              = IF j + HOP < NFFT THEN Window(s)[j + HOP] ELSE (s.n + (j + HOP - NFFT)) % Numbers
<1>1. NFFT \in Nat \ {0} /\ HOP \in 1 .. NFFT /\ Numbers \in Nat \ {0}
  BY Sizes
<1>2. PICK r \in [0 .. NFFT - 1 -> 0 .. Numbers], h \in 0 .. NFFT - 1, n \in 0 .. Numbers - 1 :
        s = [ring |-> r, head |-> h, n |-> n]
  BY DEF Signals
<1>3. s.ring = r /\ s.head = h /\ s.n = n
  BY <1>2
<1> DEFINE At(k, i) == IF k < HOP THEN (s.n + k) % Numbers ELSE s.ring[i]
           New(i) == At((i - s.head) % NFFT, i)
<1>4. PICK ring : ring = [i \in 0 .. NFFT - 1 |-> New(i)]
  OBVIOUS
<1>5. gen_samples(s) = [ring |-> ring, head |-> (h + HOP) % NFFT, n |-> (n + HOP) % Numbers]
  BY <1>3, <1>4 DEF gen_samples
<1>6. ASSUME NEW i \in 0 .. NFFT - 1, NEW k \in 0 .. NFFT - 1, k = (i - h) % NFFT
      PROVE  ring[i] = (IF k < HOP THEN (n + k) % Numbers ELSE r[i]) /\ ring[i] \in 0 .. Numbers
  <2>1. ring[i] = New(i)
    <3> HIDE DEF New
    <3> QED BY <1>4
  <2>2. (i - s.head) % NFFT = k
    BY <1>3, <1>6, Zenon
  <2>3. New(i) = At(k, i)
    <3> HIDE DEF At
    <3> QED BY <2>2
  <2>4. ring[i] = IF k < HOP THEN (n + k) % Numbers ELSE r[i]
    BY <1>3, <2>1, <2>3, Zenon
  <2>5. (n + k) % Numbers \in 0 .. Numbers
    BY <1>1
  <2> QED BY <2>4, <2>5
<1>7. gen_samples(s) \in Signals
  <2>1. \A i \in 0 .. NFFT - 1 : ring[i] \in 0 .. Numbers
    <3> SUFFICES ASSUME NEW i \in 0 .. NFFT - 1 PROVE ring[i] \in 0 .. Numbers
      OBVIOUS
    <3>1. (i - h) % NFFT \in 0 .. NFFT - 1
      BY <1>1
    <3>2. PICK k \in 0 .. NFFT - 1 : k = (i - h) % NFFT
      BY <3>1
    <3> QED BY <1>6, <3>2
  <2>2. ring \in [0 .. NFFT - 1 -> 0 .. Numbers]
    BY <1>4, <2>1
  <2>3. (h + HOP) % NFFT \in 0 .. NFFT - 1 /\ (n + HOP) % Numbers \in 0 .. Numbers - 1
    BY <1>1
  <2> QED BY <1>5, <2>2, <2>3 DEF Signals
<1>8. PICK i : i = (((h + HOP) % NFFT) + j) % NFFT
  OBVIOUS
<1>9. Window(gen_samples(s))[j] = ring[i]
  BY <1>5, <1>8 DEF Window
<1>10. /\ i \in 0 .. NFFT - 1
       /\ (i - h) % NFFT = IF j + HOP < NFFT THEN j + HOP ELSE j + HOP - NFFT
       /\ j + HOP < NFFT => (h + (j + HOP)) % NFFT = i
  BY <1>1, <1>8, RingIndex
<1>11. PICK k \in 0 .. NFFT - 1 : k = (i - h) % NFFT
  BY <1>1, <1>10
<1>12. ring[i] = IF k < HOP THEN (n + k) % Numbers ELSE r[i]
  BY <1>6, <1>10, <1>11
<1>13. CASE j + HOP < NFFT
  <2>1. k = j + HOP /\ ~(k < HOP)
    BY <1>1, <1>10, <1>11, <1>13
  <2>2. j + HOP \in 0 .. NFFT - 1
    BY <1>1, <1>13
  <2>3. Window(s)[j + HOP] = r[i]
    <3>1. PICK a \in 0 .. NFFT - 1 : a = j + HOP
      BY <2>2
    <3>2. Window(s)[a] = r[(h + a) % NFFT]
      BY <1>2 DEF Window
    <3> QED BY <1>10, <1>13, <3>1, <3>2
  <2>4. ring[i] = r[i]
    BY <1>12, <2>1
  <2> QED BY <1>7, <1>9, <1>13, <2>3, <2>4
<1>14. CASE ~(j + HOP < NFFT)
  <2>1. k = j + HOP - NFFT /\ k < HOP
    BY <1>1, <1>10, <1>11, <1>14
  <2>2. s.n = n
    BY <1>2
  <2> QED BY <1>7, <1>9, <1>12, <1>14, <2>1, <2>2
<1> QED BY <1>13, <1>14

(* The new samples follow the old ones, and their numbers each other.       *)
LEMMA OrderKept ==
  ASSUME NEW s \in Signals, s = signal_init \/ InOrder(Window(s), s.n)
  PROVE  InOrder(Window(gen_samples(s)), gen_samples(s).n)
<1>1. /\ NFFT \in Nat \ {0} /\ HOP \in 1 .. NFFT /\ Numbers \in Nat \ {0} /\ Numbers > NFFT
      /\ s.n \in 0 .. Numbers - 1
  BY Sizes DEF Signals
<1>2. PICK w, v : w = Window(s) /\ v = Window(gen_samples(s))
  OBVIOUS
<1>3. \A j \in 0 .. NFFT - 1 : v[j] = IF j + HOP < NFFT THEN w[j + HOP] ELSE (s.n + (j + HOP - NFFT)) % Numbers
  BY <1>2, WindowMoves
<1>4. gen_samples(s).n = (s.n + HOP) % Numbers
  BY DEF gen_samples
<1>5. \A a \in 0 .. HOP - 1 : (s.n + a) % Numbers # Silence
  <2> SUFFICES ASSUME NEW a \in 0 .. HOP - 1 PROVE (s.n + a) % Numbers # Silence
    OBVIOUS
  <2>1. s.n + a \in Int
    BY <1>1
  <2>2. (s.n + a) % Numbers \in 0 .. Numbers - 1
    BY <1>1, <2>1
  <2> QED BY <1>1, <2>2 DEF Silence
<1>6. \A a \in 1 .. HOP : (s.n + a) % Numbers = (((s.n + (a - 1)) % Numbers) + 1) % Numbers
                          /\ (s.n + (a - 1)) % Numbers = (((s.n + a) % Numbers) - 1) % Numbers
  <2> SUFFICES ASSUME NEW a \in 1 .. HOP
               PROVE  /\ (s.n + a) % Numbers = (((s.n + (a - 1)) % Numbers) + 1) % Numbers
                      /\ (s.n + (a - 1)) % Numbers = (((s.n + a) % Numbers) - 1) % Numbers
    OBVIOUS
  <2>1. PICK p : p = s.n + a
    OBVIOUS
  <2>2. p \in Int /\ p >= 1 /\ p < 2 * Numbers /\ s.n + (a - 1) = p - 1
    BY <1>1, <2>1
  <2>3. CASE p < Numbers
    <3>1. p % Numbers = p /\ (p - 1) % Numbers = p - 1
      BY <1>1, <2>2, <2>3
    <3> QED BY <2>1, <2>2, <3>1
  <2>4. CASE p = Numbers
    <3>1. p % Numbers = 0 /\ (p - 1) % Numbers = p - 1
      BY <1>1, <2>2, <2>4
    <3>2. (0 - 1) % Numbers = p - 1
      BY <1>1, <2>4
    <3>3. (p - 1 + 1) % Numbers = p % Numbers
      BY <2>2
    <3> QED BY <2>1, <2>2, <3>1, <3>2, <3>3
  <2>5. CASE p > Numbers
    <3>1. p % Numbers = p - Numbers /\ (p - 1) % Numbers = p - 1 - Numbers
      BY <1>1, <2>2, <2>5
    <3>2. (p - 1 - Numbers + 1) % Numbers = p - Numbers
      BY <1>1, <2>2, <2>5
    <3>3. (p - Numbers - 1) % Numbers = p - 1 - Numbers
      BY <1>1, <2>2, <2>5
    <3> QED BY <2>1, <2>2, <3>1, <3>2, <3>3
  <2> QED BY <1>1, <2>2, <2>3, <2>4, <2>5
<1>7. v[NFFT - 1] = (((s.n + HOP) % Numbers) - 1) % Numbers
  <2>1. v[NFFT - 1] = (s.n + (NFFT - 1 + HOP - NFFT)) % Numbers
    BY <1>1, <1>3
  <2>2. NFFT - 1 + HOP - NFFT = HOP - 1 /\ HOP \in 1 .. HOP
    BY <1>1
  <2> QED BY <1>6, <2>1, <2>2
<1>8. ASSUME NEW j \in 1 .. NFFT - 1
      PROVE  v[j - 1] = Silence \/ (v[j] # Silence /\ v[j] = (v[j - 1] + 1) % Numbers)
  <2>0. j \in 0 .. NFFT - 1 /\ j - 1 \in 0 .. NFFT - 1 /\ j \in Int
    BY <1>1
  <2>1. CASE j + HOP < NFFT
    <3>1. v[j] = w[j + HOP] /\ v[j - 1] = w[(j + HOP) - 1] /\ j + HOP \in 1 .. NFFT - 1
      <4>1. j - 1 + HOP = (j + HOP) - 1 /\ j - 1 + HOP < NFFT /\ j + HOP \in 1 .. NFFT - 1
        BY <1>1, <2>0, <2>1
      <4> QED BY <1>3, <2>0, <2>1, <4>1
    <3>2. CASE s = signal_init
      <4>1. (j + HOP) - 1 \in 0 .. NFFT - 1 /\ (j + HOP) - 1 \in Int
        BY <1>1, <3>1
      <4>2. w[(j + HOP) - 1] = s.ring[(s.head + ((j + HOP) - 1)) % NFFT]
        BY <1>2, <4>1 DEF Window
      <4>3. s.head = 0 /\ (0 + ((j + HOP) - 1)) % NFFT \in 0 .. NFFT - 1
        BY <1>1, <3>2, <4>1 DEF signal_init
      <4> QED BY <3>1, <3>2, <4>2, <4>3 DEF signal_init
    <3>3. CASE InOrder(w, s.n)
      BY <3>1, <3>3 DEF InOrder
    <3> QED BY <1>2, <3>2, <3>3
  <2>2. CASE j + HOP = NFFT
    <3>1. v[j] = (s.n + 0) % Numbers /\ v[j - 1] = w[NFFT - 1]
      <4>1. j + HOP - NFFT = 0 /\ j - 1 + HOP = NFFT - 1 /\ j - 1 + HOP < NFFT /\ ~(j + HOP < NFFT)
        BY <1>1, <2>0, <2>2
      <4>2. v[j - 1] = w[j - 1 + HOP]
        BY <1>3, <2>0, <4>1
      <4>3. v[j] = (s.n + (j + HOP - NFFT)) % Numbers
        BY <1>3, <2>0, <4>1
      <4> QED BY <4>1, <4>2, <4>3
    <3>2. CASE s = signal_init
      <4>1. NFFT - 1 \in 0 .. NFFT - 1 /\ NFFT - 1 \in Int
        BY <1>1
      <4>2. w[NFFT - 1] = s.ring[(s.head + (NFFT - 1)) % NFFT]
        BY <1>2, <4>1 DEF Window
      <4>3. s.head = 0 /\ (0 + (NFFT - 1)) % NFFT \in 0 .. NFFT - 1
        BY <1>1, <3>2, <4>1 DEF signal_init
      <4> QED BY <3>1, <3>2, <4>2, <4>3 DEF signal_init
    <3>3. CASE InOrder(w, s.n)
      <4>1. w[NFFT - 1] = (s.n - 1) % Numbers
        BY <3>3 DEF InOrder
      <4>2. (s.n + 0) % Numbers # Silence /\ (s.n + 0) % Numbers = s.n
        BY <1>1, <1>5
      <4>3. (((s.n - 1) % Numbers) + 1) % Numbers = s.n
        <5>1. CASE s.n = 0
          <6>1. (s.n - 1) % Numbers = Numbers - 1
            BY <1>1, <5>1
          <6>2. Numbers % Numbers = 0
            BY <1>1
          <6> QED BY <1>1, <5>1, <6>1, <6>2
        <5>2. CASE s.n > 0
          <6>1. (s.n - 1) % Numbers = s.n - 1
            BY <1>1, <5>2
          <6> QED BY <1>1, <4>2, <6>1
        <5> QED BY <1>1, <5>1, <5>2
      <4> QED BY <3>1, <4>1, <4>2, <4>3
    <3> QED BY <1>2, <3>2, <3>3
  <2>3. CASE j + HOP > NFFT
    <3>1. PICK a : a = j + HOP - NFFT
      OBVIOUS
    <3>2. a \in 1 .. HOP /\ a \in 0 .. HOP - 1 /\ j - 1 + HOP - NFFT = a - 1 /\ ~(j + HOP < NFFT) /\ ~(j - 1 + HOP < NFFT)
      BY <1>1, <2>0, <2>3, <3>1
    <3>3. v[j] = (s.n + a) % Numbers /\ v[j - 1] = (s.n + (a - 1)) % Numbers
      BY <1>3, <2>0, <3>1, <3>2
    <3> QED BY <1>5, <1>6, <3>2, <3>3
  <2> QED BY <1>1, <2>0, <2>1, <2>2, <2>3
<1> QED BY <1>2, <1>4, <1>7, <1>8 DEF InOrder

-----------------------------------------------------------------------------
(* The columns of fft_cpu.c.                                                *)

LEMMA ColumnIs ==
  /\ \A x \in Columns : BinOf(x) \in Bins
  /\ \A b \in Bins, u \in Int : ColumnsOf(b, u) \in Nat
<1>1. NBIN \in Nat \ {0} /\ W \in Nat /\ W > 1
  BY Sizes
<1>2. ASSUME NEW x \in Columns PROVE BinOf(x) \in Bins
  <2>1. PICK m \in Nat : m = NBIN - 1
    BY <1>1
  <2>2. PICK d \in Nat \ {0} : d = W - 1
    BY <1>1
  <2>3. x \in Nat /\ x <= d
    BY <1>1, <2>2 DEF Columns
  <2>4. x * m <= d * m /\ x * m \in Nat
    BY <2>3
  <2>5. d * m = m * d /\ (m + 1) * d = m * d + d
    OBVIOUS
  <2>6. x * m < (m + 1) * d
    BY <2>4, <2>5
  <2>7. PICK p \in Nat : p = x * m
    BY <2>4
  <2>8. p \div d \in Nat /\ p \div d <= m
    BY <2>6, <2>7
  <2>9. BinOf(x) = p \div d
    BY <2>1, <2>2, <2>7 DEF BinOf
  <2> QED BY <1>1, <2>1, <2>8, <2>9 DEF Bins
<1>3. ASSUME NEW b \in Bins, NEW u \in Int PROVE ColumnsOf(b, u) \in Nat
  <2>1. IsFiniteSet(Columns)
    BY <1>1, FS_Interval DEF Columns
  <2>2. PICK S : S = {x \in Columns : BinOf(x) = b /\ x <= u}
    OBVIOUS
  <2>3. IsFiniteSet(S)
    BY <2>1, <2>2, FS_Subset
  <2> QED BY <2>2, <2>3, FS_CardinalityType DEF ColumnsOf
<1> QED BY <1>2, <1>3

LEMMA SunkIs ==
  ASSUME NEW rows \in Nat \ {0}, NEW p \in Nat, p < rows, NEW k \in Nat, NEW l \in Nat, l < rows
  PROVE  Sunk(p, k, l) \in Nat /\ Sunk(p, k, l) < rows /\ Sunk(p, k, l) >= l
BY DEF Sunk

(* The levels and the marks are rows of the screen.                         *)
Fits(f, rows) == \A b \in Bins : f[b] \in Nat /\ f[b] < rows

LEMMA PeaksFit ==
  ASSUME NEW rows \in Nat \ {0}, NEW p, NEW l, Fits(p, rows), Fits(l, rows)
  PROVE  Fits(Peaks_fft(p, l), rows) /\ Fits(Peaks_fft_cpu(p, l), rows)
<1>1. ASSUME NEW b \in Bins
      PROVE  /\ Peaks_fft(p, l)[b] \in Nat /\ Peaks_fft(p, l)[b] < rows
             /\ Peaks_fft_cpu(p, l)[b] \in Nat /\ Peaks_fft_cpu(p, l)[b] < rows
  <2>1. p[b] \in Nat /\ p[b] < rows /\ l[b] \in Nat /\ l[b] < rows
    BY DEF Fits
  <2>2. PICK k \in Nat : k = ColumnsOf(b, W - 1)
    <3>1. W - 1 \in Int
      BY Sizes
    <3> QED BY <3>1, ColumnIs
  <2>3. /\ Sunk(p[b], 1, l[b]) \in Nat /\ Sunk(p[b], 1, l[b]) < rows
        /\ Sunk(p[b], k, l[b]) \in Nat /\ Sunk(p[b], k, l[b]) < rows
    BY <2>1, SunkIs
  <2>4. Peaks_fft(p, l)[b] = Sunk(p[b], 1, l[b])
    BY DEF Peaks_fft
  <2>5. Peaks_fft_cpu(p, l)[b] = IF k = 0 THEN p[b] ELSE Sunk(p[b], k, l[b])
    BY <2>2 DEF Peaks_fft_cpu
  <2> QED BY <2>1, <2>3, <2>4, <2>5
<1> QED BY <1>1 DEF Fits

(* draw() of fft_cpu.c writes no row outside the buffer and the ramp.       *)
LEMMA FitsInside ==
  ASSUME NEW rows \in Nat \ {0}, rows <= RampRows, NEW p, NEW l, Fits(p, rows), Fits(l, rows)
  PROVE  Inside(p, l, rows)
<1> SUFFICES ASSUME NEW x \in Columns
             PROVE  /\ Bar(x, l, rows) \subseteq 0 .. rows - 1 /\ Bar(x, l, rows) \subseteq 0 .. RampRows - 1
                    /\ Mark(x, p, l, rows) \in 0 .. Row(l[BinOf(x)], rows)
  BY DEF Inside
<1>1. PICK b \in Bins : b = BinOf(x)
  BY ColumnIs
<1>2. p[b] \in Nat /\ p[b] < rows /\ l[b] \in Nat /\ l[b] < rows
  BY DEF Fits
<1>3. x \in Int /\ RampRows \in Nat
  BY Sizes DEF Columns
<1>4. PICK k \in Nat : k = ColumnsOf(b, x)
  BY <1>3, ColumnIs
<1>5. PICK q \in Nat : q = Sunk(p[b], k, l[b]) /\ q < rows /\ q >= l[b]
  BY <1>2, SunkIs
<1>6. PICK v \in Nat : v = l[b] /\ v < rows
  BY <1>2
<1>7. Bar(x, l, rows) = (rows - 1 - v) .. (rows - 1) /\ Row(l[BinOf(x)], rows) = rows - 1 - v
  BY <1>1, <1>6 DEF Bar, Row
<1>8. Mark(x, p, l, rows) = rows - 1 - q
  BY <1>1, <1>4, <1>5 DEF Mark, Row
<1>9. (rows - 1 - v) .. (rows - 1) \subseteq 0 .. rows - 1 /\ (rows - 1 - v) .. (rows - 1) \subseteq 0 .. RampRows - 1
  BY <1>3, <1>6
<1>10. rows - 1 - q \in 0 .. rows - 1 - v
  BY <1>5, <1>6
<1> QED BY <1>7, <1>8, <1>9, <1>10

-----------------------------------------------------------------------------
(* ramp_lut has a colour for each row of the screen drm_init() finds.       *)
RampCovers == prog = "fft_cpu" /\ Usable # {} => BestMode(Connector.modes).rows <= RampRows

Samples ==
  /\ sig \in Signals /\ (sig = signal_init \/ InOrder(Window(sig), sig.n))
  /\ pc \in {"first", "draw"} /\ prog # "cube" => InOrder(Window(sig), sig.n)

Levels ==
  /\ pc = "drm_init" => Fits(peak, 1) /\ Fits(level, 1)
  /\ pc \in (Early \ {"drm_init"}) \cup Loop => Fits(peak, out.rows) /\ Fits(level, out.rows)

Framed == TypesIn /\ RampCovers /\ Samples /\ Levels

LEMMA RowsIs ==
  ASSUME TypesIn, Chosen
  PROVE  out.rows \in Nat \ {0}
BY ModeIs DEF TypesIn, Chosen

LEMMA InitSignal == signal_init \in Signals
<1>1. 0 \in 0 .. NFFT - 1 /\ 0 \in 0 .. Numbers - 1 /\ Silence \in 0 .. Numbers
  BY Sizes DEF Silence
<1> QED BY <1>1 DEF signal_init, Signals

LEMMA InitFits == ASSUME NEW rows \in Nat \ {0} PROVE Fits([b \in Bins |-> 0], rows)
BY DEF Fits

LEMMA FramedKept == Framed /\ [Next]_vars => Framed'
<1>1. Framed /\ [Next]_vars => RampCovers'
  <2> SUFFICES ASSUME Framed, [Next]_vars PROVE RampCovers'
    OBVIOUS
  <2>1. prog' = prog /\ board' = board
    BY Steady
  <2> QED BY <2>1, SameBoard DEF Framed, RampCovers
<1> SUFFICES ASSUME Framed, [Next]_vars PROVE Samples' /\ Levels'
  BY <1>1, TypesKept DEF Framed
<1> USE DEF Early, Loop, Flipping, Ended
<1>0. TypesIn /\ RampCovers /\ Samples /\ Levels /\ prog' = prog /\ board' = board
  BY Steady DEF Framed
<1>2. ASSUME UNCHANGED picture, out' = out,
             pc' \in (Early \ {"drm_init"}) \cup Loop => pc \in (Early \ {"drm_init"}) \cup Loop,
             pc' = "drm_init" => pc = "drm_init",
             pc' \in {"first", "draw"} => pc = pc'
      PROVE  Samples' /\ Levels'
  <2>1. sig' = sig /\ peak' = peak /\ level' = level
    BY <1>2 DEF picture
  <2>2. Samples'
    BY <1>0, <1>2, <2>1 DEF Samples
  <2>3. Levels'
    BY <1>0, <1>2, <2>1 DEF Levels, Fits
  <2> QED BY <2>2, <2>3
<1>3. CASE drm_init
  <2>1. /\ pc = "drm_init" /\ sig' = sig /\ peak' = peak /\ level' = level
        /\ pc' \in {"clean", "create_fb", "egl_init"}
    BY <1>3 DEF drm_init, Leave, picture
  <2>2. Samples'
    BY <1>0, <2>1 DEF Samples
  <2>3. Levels'
    <3>1. Fits(peak, 1) /\ Fits(level, 1)
      BY <1>0, <2>1 DEF Levels
    <3>2. ASSUME pc' # "clean" PROVE Fits(peak', out'.rows) /\ Fits(level', out'.rows)
      <4>1. Chosen' /\ TypesIn'
        BY <1>0, <2>1, <3>2, TypesKept DEF TypesIn
      <4>2. (TypesIn /\ Chosen => out.rows \in Nat \ {0})'
        BY RowsIs, PTL
      <4>3. PICK rows \in Nat \ {0} : rows = out'.rows
        BY <4>1, <4>2
      <4>4. Fits(peak', rows) /\ Fits(level', rows)
        BY <2>1, <3>1 DEF Fits
      <4> QED BY <4>3, <4>4
    <3> QED BY <2>1, <3>2 DEF Levels, Fits
  <2> QED BY <2>2, <2>3
<1>4. CASE egl_init \/ gl_init \/ create_fb \/ PageFlip \/ EnterPoll \/ drmHandleEvent \/ PollTimeout \/ LeaveLoop
  BY <1>2, <1>4 DEF egl_init, gl_init, create_fb, PageFlip, EnterPoll, drmHandleEvent, PollTimeout, LeaveLoop, Leave
<1>5. CASE Wait
  <2>1. pc = "wait" /\ pc' \in {"enter", "top"} /\ UNCHANGED picture /\ out' = out
    BY <1>5, Zenon DEF Wait
  <2> QED BY <1>2, <2>1
<1>6. CASE FirstShown \/ Restore
  BY <1>2, <1>6 DEF FirstShown, Restore, Leave
<1>7. CASE StartDraw
  <2>1. /\ pc \in {"begin", "top"} /\ pc' \in {"first", "draw"} /\ out' = out /\ peak' = peak
        /\ \E b \in Back : DrawInto(b)
    BY <1>7 DEF StartDraw
  <2>2. PICK rows \in Nat \ {0} : rows = out.rows
    BY <1>0, <2>1, RowsIs DEF TypesIn
  <2>3. Fits(peak, rows) /\ Fits(level, rows)
    BY <1>0, <2>1, <2>2 DEF Levels
  <2>4. CASE prog = "cube"
    <3>1. sig' = sig /\ level' = level
      BY <2>1, <2>4 DEF DrawInto
    <3> QED BY <1>0, <2>1, <2>2, <2>3, <2>4, <3>1 DEF Samples, Levels, Fits
  <2>5. CASE prog # "cube"
    <3>1. /\ sig' = gen_samples(sig)
          /\ \E raw \in [Bins -> -1 .. out.rows] : level' = [b \in Bins |-> Clamped(raw[b], out.rows)]
      BY <2>1, <2>5 DEF DrawInto
    <3>2. Fits(level', rows)
      <4>1. PICK raw \in [Bins -> -1 .. rows] : level' = [b \in Bins |-> Clamped(raw[b], rows)]
        BY <2>2, <3>1
      <4>2. ASSUME NEW b \in Bins PROVE level'[b] \in Nat /\ level'[b] < rows
        <5>1. raw[b] \in -1 .. rows /\ level'[b] = Clamped(raw[b], rows)
          BY <4>1
        <5> QED BY <5>1 DEF Clamped
      <4> QED BY <4>2 DEF Fits
    <3>3. sig \in Signals /\ (sig = signal_init \/ InOrder(Window(sig), sig.n))
      BY <1>0 DEF Samples
    <3>4. gen_samples(sig) \in Signals
      <4>1. 0 \in 0 .. NFFT - 1
        BY Sizes
      <4> QED BY <3>3, <4>1, WindowMoves
    <3>5. InOrder(Window(gen_samples(sig)), gen_samples(sig).n)
      BY <3>3, OrderKept
    <3>6. sig' \in Signals /\ InOrder(Window(sig)', sig'.n)
      BY <3>1, <3>4, <3>5 DEF Window
    <3>7. Samples'
      BY <3>6 DEF Samples
    <3>8. Levels'
      <4>1. Fits(peak', out'.rows) /\ Fits(level', out'.rows)
        BY <2>1, <2>2, <2>3, <3>2
      <4> QED BY <2>1, <4>1 DEF Levels, Fits
    <3> QED BY <3>7, <3>8
  <2> QED BY <2>4, <2>5
<1>8. CASE FinishDraw
  <2>1. /\ pc \in {"first", "draw"} /\ pc' \in {"set", "flip", "crash"} /\ out' = out /\ sig' = sig
        /\ level' = [b \in Bins |-> 0]
        /\ peak' \in {peak, Peaks_fft(peak, level), Peaks_fft_cpu(peak, level)}
    BY <1>8 DEF FinishDraw
  <2>2. PICK rows \in Nat \ {0} : rows = out.rows
    BY <1>0, <2>1, RowsIs DEF TypesIn
  <2>3. Fits(peak, rows) /\ Fits(level, rows)
    BY <1>0, <2>1, <2>2 DEF Levels
  <2>4. Fits(peak', rows) /\ Fits(level', rows)
    <3>1. Fits(Peaks_fft(peak, level), rows) /\ Fits(Peaks_fft_cpu(peak, level), rows)
      BY <2>3, PeaksFit
    <3>2. Fits(level', rows)
      BY <2>1, InitFits
    <3> QED BY <2>1, <2>3, <3>1, <3>2
  <2>5. Samples'
    BY <1>0, <2>1 DEF Samples
  <2>6. Levels'
    BY <2>1, <2>2, <2>4 DEF Levels, Fits
  <2> QED BY <2>5, <2>6
<1>9. CASE Clean
  <2>1. pc' \in Ended /\ sig' = signal_init
    BY <1>9 DEF Clean
  <2>2. Samples'
    BY <2>1, InitSignal DEF Samples
  <2>3. Levels'
    BY <2>1 DEF Levels
  <2> QED BY <2>2, <2>3
<1>10. CASE VBlank
  BY <1>2, <1>10 DEF VBlank
<1>11. CASE Signal
  BY <1>2, <1>11 DEF Signal
<1>12. CASE UNCHANGED vars
  BY <1>2, <1>12 DEF vars
<1> QED BY <1>3, <1>4, <1>5, <1>6, <1>7, <1>8, <1>9, <1>10, <1>11, <1>12 DEF Next, Main

(* What is drawn is made of the newest samples in order and stays inside    *)
(* the buffer and the table of colours, for every size of the window, the   *)
(* hop, the screen and the spectrum, on a screen with no more rows than     *)
(* ramp_lut has: gen_samples() and draw() of fft.c and fft_cpu.c.           *)
THEOREM FrameSoundHolds == Spec /\ RampCovers => []FrameSound
<1>1. Init /\ RampCovers => Framed
  <2> SUFFICES ASSUME Init, RampCovers PROVE Framed
    OBVIOUS
  <2>1. Samples
    BY InitSignal DEF Init, Samples
  <2>2. Levels
    BY InitFits DEF Init, Levels, Early, Loop, Flipping
  <2> QED BY <2>1, <2>2, InitTypes DEF Framed
<1>2. Framed /\ [Next]_vars => Framed'
  BY FramedKept
<1>3. Framed => FrameSound
  <2> SUFFICES ASSUME Framed, pc \in {"first", "draw"}, prog # "cube"
               PROVE  InOrder(Window(sig), sig.n) /\ (prog = "fft_cpu" => Inside(peak, level, out.rows))
    BY DEF FrameSound
  <2>1. TypesIn /\ RampCovers /\ Samples /\ Levels
    BY DEF Framed
  <2>2. InOrder(Window(sig), sig.n)
    BY <2>1 DEF Samples
  <2>3. ASSUME prog = "fft_cpu" PROVE Inside(peak, level, out.rows)
    <3>1. Chosen
      BY <2>1 DEF TypesIn, Early, Loop
    <3>2. out.rows \in Nat \ {0} /\ out.rows <= RampRows
      BY <2>1, <2>3, <3>1, RowsIs DEF Chosen, RampCovers
    <3>3. Fits(peak, out.rows) /\ Fits(level, out.rows)
      BY <2>1 DEF Levels, Early, Loop
    <3> QED BY <3>2, <3>3, FitsInside
  <2> QED BY <2>2, <2>3
<1> QED BY <1>1, <1>2, <1>3, PTL DEF Spec
=============================================================================
