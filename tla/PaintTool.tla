------------------------------ MODULE PaintTool ------------------------------
(***************************************************************************)
(* The support-paint tool over one object (paint_tool.rs, PaintSession of   *)
(* slic3r-ffi, and the page's half in usePaintSession.ts and                *)
(* WgpuViewport.tsx).  The page sends commands; the main thread runs them   *)
(* in order; the replies come back in order, behind what the user does      *)
(* meanwhile.  Where a sample hits and what it paints is decided when it    *)
(* runs.  What happens to the mesh and the document around the tool is      *)
(* SceneSession's.                                                          *)
(***************************************************************************)
EXTENDS Integers, Sequences, SequencesExt

CONSTANTS
  Facets,        \* what can be painted
  MaxPaintUndo,  \* kMaxPaintUndo: the strokes that can be undone
  MaxCalls,      \* the commands without an answer at a time
  PaintBudget    \* the presses, undos, erasures and openings of a run

ASSUME PaintAssumption ==
  MaxPaintUndo \in Nat \ {0} /\ MaxCalls \in Nat /\ PaintBudget \in Nat

VARIABLES
  tool,      \* <<>> or the open session: <<[paint, undo, drag]>>
  support,   \* the paint on the mesh, which is what is sliced
  overlay,   \* the facets the renderer tints: <<enforced, blocked>>
  calls,     \* commands on their way to the main thread
  replies,   \* their answers on their way to the page
  page,      \* [active, flags, drag, inflight]: the panel's flags, the drag, the throttle
  away,      \* another plate than the object's is in front
  recorded,  \* the paint of the last edit the document has heard of
  strokes,   \* the paint before each drag that has painted, as far as it can be undone
  muddled,   \* a press overlapped an unanswered sample, or an undo came in the middle of a drag
  lateMiss,  \* the flags are those of a press that missed and was released before its answer
  unheard,   \* the tool was closed with another plate in front
  paintLeft
paintVars == <<tool, support, overlay, calls, replies, page, away, recorded, strokes, muddled, lateMiss,
               unheard, paintLeft>>

Unpainted == [f \in Facets |-> 0]
Tinted(p, s) == {f \in Facets : p[f] = s}
OverlayOf(p) == <<Tinted(p, 1), Tinted(p, 2)>>
FlagsOf(p) == <<Tinted(p, 1) # {}, Tinted(p, 2) # {}>>
NoFlags == <<FALSE, FALSE>>
UsePaint == paintLeft > 0 /\ paintLeft' = paintLeft - 1

-----------------------------------------------------------------------------
(* The page. *)
Send(call) == Len(calls) + Len(replies) < MaxCalls /\ calls' = Append(calls, call)
Call(k, drag, new) == [k |-> k, drag |-> drag, new |-> new]
Brushing == page.drag # << >> /\ page.drag[1].mode = "brush"

OpenTool ==
  /\ ~ page.active /\ page.drag = << >> /\ ~ away /\ UsePaint
  /\ Send(Call("open", 0, FALSE))
  /\ page' = [page EXCEPT !.active = TRUE]
  /\ UNCHANGED <<tool, support, overlay, replies, away, recorded, strokes, muddled, lateMiss, unheard>>

ExitTool ==
  /\ page.active /\ page.drag = << >>
  /\ Send(Call("close", 0, FALSE))
  /\ page' = [page EXCEPT !.active = FALSE]
  /\ UNCHANGED <<tool, support, overlay, replies, away, recorded, strokes, muddled, lateMiss, unheard, paintLeft>>

\* a press of the brush opens an undo step; one of smart fill is a step of its own
PressPaint(kind) ==
  /\ page.active /\ page.drag = << >> /\ UsePaint
  /\ Send(Call(kind, paintLeft, TRUE))
  /\ page' = [page EXCEPT !.drag = <<[id |-> paintLeft, mode |-> kind]>>,
                          !.inflight = @ \/ kind = "brush"]
  /\ muddled' = (muddled \/ (kind = "brush" /\ page.inflight))
  /\ UNCHANGED <<tool, support, overlay, replies, away, recorded, strokes, lateMiss, unheard>>

\* the drag goes on, one sample at a time
MovePaint ==
  /\ page.active /\ Brushing /\ ~ page.inflight
  /\ Send(Call("brush", page.drag[1].id, FALSE))
  /\ page' = [page EXCEPT !.inflight = TRUE]
  /\ UNCHANGED <<tool, support, overlay, replies, away, recorded, strokes, muddled, lateMiss, unheard, paintLeft>>

ReleasePaint ==
  /\ page.drag # << >>
  /\ page' = [page EXCEPT !.drag = << >>]
  /\ UNCHANGED <<tool, support, overlay, calls, replies, away, recorded, strokes, muddled, lateMiss, unheard,
                 paintLeft>>

UndoPaint ==
  /\ page.active /\ UsePaint
  /\ Send(Call("undo", 0, FALSE))
  /\ muddled' = (muddled \/ Brushing)
  /\ UNCHANGED <<tool, support, overlay, replies, page, away, recorded, strokes, lateMiss, unheard>>

ErasePaint ==
  /\ page.active /\ page.drag = << >> /\ UsePaint
  /\ Send(Call("clear", 0, FALSE))
  /\ UNCHANGED <<tool, support, overlay, replies, page, away, recorded, strokes, muddled, lateMiss, unheard>>

\* the plate tabs stay usable while the tool is open
ShowPlate ==
  /\ page.drag = << >> /\ away' = ~ away
  /\ UNCHANGED <<tool, support, overlay, calls, replies, page, recorded, strokes, muddled, lateMiss, unheard,
                 paintLeft>>

-----------------------------------------------------------------------------
(* The commands. *)
Capped(seq) == IF Len(seq) > MaxPaintUndo THEN Tail(seq) ELSE seq

Pushed(undo, p) == Capped(Append(undo, p))

Answer(call, ok, hit, flags) ==
  replies' = Append(replies, [k |-> call.k, drag |-> call.drag, new |-> call.new, ok |-> ok, hit |-> hit, flags |-> flags])

\* commit_live and rebuild_overlay: the mesh, and the overlay, show the session
Commit(live) ==
  /\ tool' = <<live>>
  /\ support' = live.paint
  /\ overlay' = OverlayOf(live.paint)

OpenSession(call) ==
  IF away
  THEN Answer(call, FALSE, FALSE, NoFlags) /\ UNCHANGED <<tool, support, overlay, strokes>>
  ELSE /\ Commit([paint |-> support, undo |-> << >>, drag |-> 0])
       /\ strokes' = << >>
       /\ Answer(call, TRUE, TRUE, FlagsOf(support))

\* a sample beside the mesh does nothing; the session is left as it is
Miss(call) == Answer(call, TRUE, FALSE, NoFlags) /\ UNCHANGED <<tool, support, overlay, strokes>>

Paint(call, f, s) ==
  LET was     == tool[1]
      painted == [was.paint EXCEPT ![f] = s]
  IN  /\ Commit([paint |-> painted, drag |-> call.drag,
                 undo |-> IF call.new THEN Pushed(was.undo, was.paint) ELSE was.undo])
      /\ strokes' = IF was.drag = call.drag THEN strokes ELSE Capped(Append(strokes, was.paint))
      /\ Answer(call, TRUE, TRUE, FlagsOf(painted))

UndoStroke(call) ==
  LET was == tool[1] IN
    IF was.undo = << >>
    THEN Answer(call, TRUE, TRUE, FlagsOf(was.paint)) /\ UNCHANGED <<tool, support, overlay, strokes>>
    ELSE /\ Commit([paint |-> Last(was.undo), undo |-> Front(was.undo), drag |-> 0])
         /\ strokes' = IF strokes = << >> THEN strokes ELSE Front(strokes)
         /\ Answer(call, TRUE, TRUE, FlagsOf(Last(was.undo)))

\* an empty session over the same mesh: with no undo steps
ClearSession(call) ==
  /\ Commit([paint |-> Unpainted, undo |-> << >>, drag |-> 0])
  /\ strokes' = << >>
  /\ Answer(call, TRUE, TRUE, NoFlags)

\* one ObjectUpdated for the whole edit, if the object is on the plate in front
CloseSession ==
  /\ tool' = << >> /\ overlay' = << {}, {} >>
  /\ recorded' = IF tool # << >> /\ ~ away THEN support ELSE recorded
  /\ unheard' = IF tool = << >> THEN unheard ELSE away
  /\ UNCHANGED <<support, strokes, replies>>

RunCall ==
  /\ calls # << >> /\ calls' = Tail(calls)
  /\ LET call == Head(calls) IN
       \/ call.k = "close" /\ CloseSession
       \/ /\ call.k # "close" /\ UNCHANGED <<recorded, unheard>>
          /\ \/ call.k = "open" /\ OpenSession(call)
             \/ /\ call.k # "open" /\ tool = << >>
                /\ Answer(call, FALSE, FALSE, NoFlags)
                /\ UNCHANGED <<tool, support, overlay, strokes>>
             \/ call.k = "undo" /\ tool # << >> /\ UndoStroke(call)
             \/ call.k = "clear" /\ tool # << >> /\ ClearSession(call)
             \/ /\ call.k \in {"brush", "fill"} /\ tool # << >>
                /\ Miss(call) \/ \E f \in Facets, s \in 0 .. 2 : Paint(call, f, s)
  /\ UNCHANGED <<page, away, muddled, lateMiss, paintLeft>>

-----------------------------------------------------------------------------
(* The answers, at the page. *)
Drags(reply) == page.drag # << >> /\ page.drag[1].id = reply.drag

\* mutant: a press that missed goes on painting
AfterMissStill(drag) == drag

\* a press that missed drives the camera
AfterMiss(drag) == [drag EXCEPT !.id = 0, !.mode = "camera"]

\* the answers whose flags the panel takes: a press's even if it missed, once it was released
Notes(reply) ==
  /\ reply.ok
  /\ reply.hit \/ (reply.new /\ ~ Drags(reply))

TakeReply ==
  /\ replies # << >> /\ replies' = Tail(replies)
  /\ LET r == Head(replies)
         missed == r.ok /\ ~ r.hit /\ r.new /\ Drags(r)
     IN  /\ page' = [active   |-> page.active /\ (r.ok \/ r.k # "open"),
                     flags    |-> IF Notes(r) THEN r.flags ELSE page.flags,
                     drag     |-> IF missed THEN <<AfterMiss(page.drag[1])>> ELSE page.drag,
                     inflight |-> page.inflight /\ r.k # "brush"]
         /\ lateMiss' = IF ~ Notes(r) THEN lateMiss ELSE r.new /\ ~ r.hit /\ ~ Drags(r)
  /\ UNCHANGED <<tool, support, overlay, calls, away, recorded, strokes, muddled, unheard, paintLeft>>

PaintInit ==
  /\ tool = << >> /\ support = Unpainted /\ overlay = << {}, {} >>
  /\ calls = << >> /\ replies = << >>
  /\ page = [active |-> FALSE, flags |-> NoFlags, drag |-> << >>, inflight |-> FALSE]
  /\ away = FALSE /\ recorded = support /\ strokes = << >>
  /\ muddled = FALSE /\ lateMiss = FALSE /\ unheard = FALSE
  /\ paintLeft = PaintBudget

PaintNext ==
  \/ OpenTool \/ ExitTool \/ PressPaint("brush") \/ PressPaint("fill") \/ MovePaint \/ ReleasePaint
  \/ UndoPaint \/ ErasePaint \/ ShowPlate \/ RunCall \/ TakeReply
PaintSpec == PaintInit /\ [][PaintNext]_paintVars

-----------------------------------------------------------------------------
PaintTypeOK ==
  /\ support \in [Facets -> 0 .. 2] /\ recorded \in [Facets -> 0 .. 2]
  /\ Len(calls) + Len(replies) <= MaxCalls /\ page.active \in BOOLEAN /\ page.inflight \in BOOLEAN
  /\ Len(page.drag) <= 1 /\ paintLeft \in 0 .. PaintBudget
  /\ tool # << >> => tool[1].paint \in [Facets -> 0 .. 2] /\ Len(tool[1].undo) <= MaxPaintUndo

(* What the overlay tints is what the mesh will be sliced with, after every stroke, *)
(* fill, undo and erasure, and it is gone when the tool is (paint_tool.rs:163       *)
(* commit_live, :176 rebuild_overlay).                                              *)
OverlayIsSliced ==
  IF tool = << >> THEN overlay = << {}, {} >>
  ELSE support = tool[1].paint /\ overlay = OverlayOf(support)

(* One undo step per drag: the steps are the paints before each drag that painted,  *)
(* though a press may miss, samples may be dropped and the drag goes on while the   *)
(* press is answered.  It rests on the throttle and on the retargeting of a press   *)
(* that missed (WgpuViewport.tsx:454, :627).  Left out: a press during an           *)
(* unanswered sample, and an undo in the middle of a drag.                          *)
UndoIsOneDrag == tool # << >> /\ ~ muddled => tool[1].undo = strokes

(* The panel offers to enable manual supports for exactly what is painted, once all *)
(* is answered (usePaintSession.ts:52).  Left out: a press that missed and was      *)
(* released before its answer, whose flags the panel takes for the object's.        *)
FlagsAreTrueUnlessLateMiss ==
  page.active /\ tool # << >> /\ calls = << >> /\ replies = << >> /\ ~ lateMiss
    => page.flags = FlagsOf(support)

(* When the tool has been closed, the document has heard of the paint as it is on    *)
(* the mesh: it is dirty, autosaved and in the undo history (paint_tool.rs:338       *)
(* paint_close).  Left out: a tool closed with another plate in front.               *)
PaintIsRecorded == tool = << >> /\ ~ unheard => recorded = support

(* What is seen, what is sliced, what can be undone and what the document has heard *)
(* of are the same paint (paint_tool.rs:163 commit_live, :338 paint_close).         *)
PaintIsTrue ==
  /\ PaintTypeOK /\ OverlayIsSliced /\ UndoIsOneDrag /\ FlagsAreTrueUnlessLateMiss /\ PaintIsRecorded
=============================================================================
