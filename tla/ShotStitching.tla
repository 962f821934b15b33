---------------------------- MODULE ShotStitching ----------------------------
(***************************************************************************)
(* The process that joins two shots of a video when only a few frames      *)
(* between them are bad (tracking/shot_stitching_process.txx).  Each frame *)
(* comes with a homography to a reference frame.  After a shot break the   *)
(* frames are held back until a shot has begun that looks like one; if its *)
(* first frame can be registered with the last good one (the anchor), the  *)
(* frames between the two are dropped, and from then on homographies are   *)
(* adjusted to the old reference.  One step of the process is one action.  *)
(***************************************************************************)
EXTENDS Integers, Sequences

CONSTANTS
  EnabledChoices,   (* subset of BOOLEAN: the parameter "enabled" *)
  FrameLimits,      (* values of max_n_glitch_frames, NoLimit for -1 *)
  SecondLimits,     (* values of max_n_glitch_seconds, NoLimit for -1 *)
  ShotSizes,        (* values of min_shot_size *)
  NoLimit,
  MaxFrames,        (* bound: frames given to the process *)
  MaxRuns           (* bound: streams, with a reset() before each but one *)

ASSUME StitchingAssumption ==
  /\ EnabledChoices \subseteq BOOLEAN
  /\ NoLimit \notin Nat
  /\ FrameLimits \subseteq Nat \cup {NoLimit}
  /\ SecondLimits \subseteq Nat \cup {NoLimit}
  /\ ShotSizes \subseteq Nat
  /\ MaxFrames \in Nat /\ MaxRuns \in Nat

VARIABLES
  params,                 (* the parameters, constant *)
  frame,                  (* the number of frames received *)
  upstream,               (* what the frame before was mapped to *)
  run,                    (* the number of this stream *)
  ssp_state,
  data_queue,
  anchor,
  major_adjustment,
  glitch_frame_count,
  min_shot_size_counter,
  pads,                   (* what the ports hold between two steps *)
  status,                 (* what the last step returned *)
  output,                 (* all packets given downstream in this run *)
  misled                  (* history: an adjustment was used where it does *)
                          (* not apply; see GivesUp and MeetsOldAnchor     *)

vars == <<params, frame, upstream, run, ssp_state, data_queue, anchor,
          major_adjustment, glitch_frame_count, min_shot_size_counter, pads,
          status, output, misled>>

(***************************************************************************)
(* A homography says from which frame to which reference it maps, and      *)
(* whether it is the first to that reference.  "exact" says that its       *)
(* matrix does what source and dest say: a product is only exact if what   *)
(* one factor maps to is what the other maps from.                         *)
(***************************************************************************)
Homography == [valid : BOOLEAN, new : BOOLEAN, source : Nat, dest : Nat,
               exact : BOOLEAN]

NoHomography == [valid |-> FALSE, new |-> FALSE, source |-> 0, dest |-> 0,
                 exact |-> FALSE]

Product(l, r) ==
  [valid |-> l.valid /\ r.valid, new |-> FALSE, source |-> r.source,
   dest |-> l.dest, exact |-> l.exact /\ r.exact /\ l.source = r.dest]

(* The ports' data.  Frames are numbered from 1, one each second; a packet *)
(* that was never set has no image. *)
Packet == [frame : Nat, usable : BOOLEAN, h : Homography]

NoPacket == [frame |-> 0, usable |-> FALSE, h |-> NoHomography]

(***************************************************************************)
(* What comes from upstream: a usable frame begins a new reference or is   *)
(* mapped to that of the frame before.  A frame that ends a shot may have  *)
(* a homography, or none and the flag of the one before; the reference is  *)
(* dropped with it, and the next usable frame begins a new one.            *)
(***************************************************************************)
UsableFrames ==
  {[frame |-> frame + 1, usable |-> TRUE,
    h |-> [valid |-> TRUE, new |-> new, source |-> frame + 1,
           dest |-> IF new THEN frame + 1 ELSE upstream.reference,
           exact |-> TRUE]] :
     new \in {n \in BOOLEAN : ~n => upstream.reference # 0}}

UnusableFrames ==
  {[frame |-> frame + 1, usable |-> FALSE,
    h |-> [valid |-> valid, new |-> ~valid /\ upstream.new,
           source |-> frame + 1, dest |-> upstream.reference,
           exact |-> valid]] :
     valid \in {v \in BOOLEAN : v => upstream.reference # 0}}

Continues(p) == p.usable /\ p.h.valid /\ ~p.h.new

Init ==
  /\ params \in [enabled : EnabledChoices, max_n_glitch_frames : FrameLimits,
                 max_n_glitch_seconds : SecondLimits, min_shot_size : ShotSizes]
  /\ frame = 0 /\ run = 1
  /\ upstream = [reference |-> 0, new |-> FALSE]
  /\ ssp_state = "INIT"
  /\ data_queue = << >>
  /\ anchor = [valid |-> FALSE, packet |-> NoPacket]
  /\ major_adjustment = NoHomography
  /\ glitch_frame_count = 0 /\ min_shot_size_counter = 0
  /\ pads = NoPacket
  /\ status = "SUCCESS"
  /\ output = << >>
  /\ misled = FALSE

(***************************************************************************)
(* What a step does with the queue q, to which the packet of the step was  *)
(* appended: it gives all packets downstream, each with the adjustment, or *)
(* keeps them.  The last packet given becomes the anchor if it can.        *)
(***************************************************************************)
Adjusted(p, adjustment) ==
  IF adjustment.valid /\ p.h.valid
  THEN [p EXCEPT !.h = Product(adjustment, p.h)] ELSE p

AnchorAfter(p) ==
  IF p.usable /\ ~p.h.new THEN [valid |-> TRUE, packet |-> p]
  ELSE [anchor EXCEPT !.valid = FALSE]

AllAdjusted(q, adjustment) == [i \in DOMAIN q |-> Adjusted(q[i], adjustment)]

flush_queue(q, adjustment) ==
  /\ data_queue' = << >>
  /\ anchor' = AnchorAfter(q[Len(q)])
  /\ pads' = Adjusted(q[Len(q)], adjustment)
  /\ output' = output \o AllAdjusted(q, adjustment)
  /\ status' = "SUCCESS"

Buffer(q) ==
  /\ data_queue' = q
  /\ pads' = q[Len(q)]
  /\ status' = "SKIP"
  /\ UNCHANGED <<anchor, output>>

(***************************************************************************)
(* record_glitch_frame(): the glitch is given up when it has too many      *)
(* frames that do not continue a shot, or lasts too long.  The time since  *)
(* an anchor that was never set is negative.                               *)
(***************************************************************************)
TimedOut(count, p) ==
  \/ /\ params.max_n_glitch_frames # NoLimit
     /\ count > params.max_n_glitch_frames
  \/ /\ params.max_n_glitch_seconds # NoLimit
     /\ anchor.packet # NoPacket
     /\ p.frame - anchor.packet.frame > params.max_n_glitch_seconds

(* Giving up flushes with the adjustment that was made for the shot before *)
(* the glitch, also the frames of the shots that began in it.              *)
GivesUp(q) ==
  misled' = \/ misled
            \/ /\ major_adjustment.valid
               /\ \E i \in 1 .. Len(q) : q[i].usable /\ q[i].h.new

record_glitch_frame(q, count) ==
  /\ glitch_frame_count' = count + 1
  /\ min_shot_size_counter' = params.min_shot_size
  /\ IF TimedOut(count + 1, q[Len(q)])
     THEN /\ ssp_state' = "INIT"
          /\ flush_queue(q, major_adjustment)
          /\ GivesUp(q)
     ELSE /\ ssp_state' = "WITHIN_GLITCH"
          /\ Buffer(q)
          /\ UNCHANGED misled
  /\ UNCHANGED major_adjustment

(***************************************************************************)
(* attempt_stitching(): the last packet of the queue with a new reference  *)
(* is registered with the anchor.  If that works, what is before it is     *)
(* dropped, and the adjustment leads on to the reference of the anchor; if *)
(* not, there is no adjustment.                                            *)
(***************************************************************************)
HasNew(q) == \E i \in 1 .. Len(q) : q[i].h.new

LastNew(q) ==
  CHOOSE i \in DOMAIN q : q[i].h.new /\ \A j \in i + 1 .. Len(q) : ~q[j].h.new

CurrentToAnchor(p) ==
  [valid |-> TRUE, new |-> FALSE, source |-> p.h.source,
   dest |-> anchor.packet.frame, exact |-> TRUE]

(* Mutant: the adjustment for earlier glitches is forgotten. *)
AdjustmentFromAnchor(p) == Product(anchor.packet.h, CurrentToAnchor(p))

AdjustmentAfter(p) ==
  LET current2anchor_ref == Product(anchor.packet.h, CurrentToAnchor(p))
  IN  IF major_adjustment.valid
      THEN Product(major_adjustment, current2anchor_ref) ELSE current2anchor_ref

(* Mutant: the frames are dropped before registration is tried. *)
attempt_stitching_dropping(q, works) ==
  IF ~HasNew(q) THEN [queue |-> q, adjustment |-> major_adjustment]
  ELSE [queue |-> SubSeq(q, LastNew(q), Len(q)),
        adjustment |-> IF works THEN AdjustmentAfter(q[LastNew(q)])
                       ELSE [major_adjustment EXCEPT !.valid = FALSE]]

(* What is left of the queue, and the adjustment, if registration works.   *)
attempt_stitching(q, works) ==
  IF ~HasNew(q) THEN [queue |-> q, adjustment |-> major_adjustment]
  ELSE IF ~works
       THEN [queue |-> q, adjustment |-> [major_adjustment EXCEPT !.valid = FALSE]]
       ELSE [queue |-> SubSeq(q, LastNew(q), Len(q)),
             adjustment |-> AdjustmentAfter(q[LastNew(q)])]

(* The packet in the anchor is used although it is no longer the anchor.   *)
MeetsOldAnchor(q, works) ==
  misled' = (misled \/ (works /\ HasNew(q) /\ ~anchor.valid))

(***************************************************************************)
(* The cases of step2() with valid inputs.                                 *)
(***************************************************************************)
StepDisabled(q) ==
  /\ ~params.enabled
  /\ flush_queue(q, major_adjustment)
  /\ UNCHANGED <<ssp_state, major_adjustment, glitch_frame_count,
                 min_shot_size_counter, misled>>

StepInit(q) ==
  /\ params.enabled /\ ssp_state = "INIT"
  /\ major_adjustment' = [major_adjustment EXCEPT !.valid = FALSE]
  /\ ssp_state' = IF q[Len(q)].usable THEN "STEADY_STATE" ELSE "INIT"
  /\ flush_queue(q, major_adjustment')
  /\ UNCHANGED <<glitch_frame_count, min_shot_size_counter, misled>>

StepSteady(q) ==
  /\ params.enabled /\ ssp_state = "STEADY_STATE"
  /\ IF Continues(q[Len(q)])
     THEN /\ flush_queue(q, major_adjustment)
          /\ UNCHANGED <<ssp_state, major_adjustment, glitch_frame_count,
                         min_shot_size_counter, misled>>
     ELSE record_glitch_frame(q, 0)

StepGlitch(q) ==
  /\ params.enabled /\ ssp_state = "WITHIN_GLITCH"
  /\ ~Continues(q[Len(q)])
  /\ record_glitch_frame(q, glitch_frame_count)

(* A shot is one that looks like one after min_shot_size frames.           *)
StepNewShot(q) ==
  /\ params.enabled /\ ssp_state = "WITHIN_GLITCH"
  /\ Continues(q[Len(q)])
  /\ min_shot_size_counter' = min_shot_size_counter - 1
  /\ UNCHANGED glitch_frame_count
  /\ IF min_shot_size_counter - 1 > 0
     THEN /\ Buffer(q)
          /\ UNCHANGED <<ssp_state, major_adjustment, misled>>
     ELSE \E works \in {w \in BOOLEAN : w => anchor.packet # NoPacket} :
            LET after == attempt_stitching(q, works)
            IN  /\ ssp_state' = "STEADY_STATE"
                /\ major_adjustment' = after.adjustment
                /\ flush_queue(after.queue, after.adjustment)
                /\ MeetsOldAnchor(q, works)

Step ==
  /\ status # "FAILURE" /\ frame < MaxFrames
  /\ frame' = frame + 1
  /\ \E p \in UsableFrames \cup UnusableFrames :
       LET q == Append(data_queue, p)
       IN  /\ upstream' = [reference |-> IF p.usable THEN p.h.dest ELSE 0,
                           new |-> p.h.new]
           /\ \/ StepDisabled(q)
              \/ StepInit(q)
              \/ StepSteady(q)
              \/ StepGlitch(q)
              \/ StepNewShot(q)
  /\ UNCHANGED <<params, run>>

(* The inputs have failed.  What the ports still hold is queued behind the *)
(* frames that were held back, and is not pushed.                          *)
InputsFail ==
  /\ status # "FAILURE"
  /\ data_queue' = << >>
  /\ anchor' = AnchorAfter(pads)
  /\ pads' = Adjusted(pads, major_adjustment)
  /\ output' = output \o AllAdjusted(data_queue, major_adjustment)
  /\ GivesUp(data_queue)
  /\ status' = "FAILURE"
  /\ UNCHANGED <<params, frame, upstream, run, ssp_state, major_adjustment,
                 glitch_frame_count, min_shot_size_counter>>

(* The pipeline is run again, upstream begins anew.                        *)
Reset ==
  /\ status = "FAILURE" /\ run < MaxRuns
  /\ run' = run + 1
  /\ upstream' = [reference |-> 0, new |-> FALSE]
  /\ ssp_state' = "INIT" /\ glitch_frame_count' = 0
  /\ data_queue' = << >>
  /\ anchor' = [anchor EXCEPT !.valid = FALSE]
  /\ status' = "SUCCESS"
  /\ output' = << >>
  /\ misled' = FALSE
  /\ UNCHANGED <<params, frame, major_adjustment, min_shot_size_counter, pads>>

Next == Step \/ InputsFail \/ Reset

Spec == Init /\ [][Next]_vars

(***************************************************************************)
(* Properties                                                              *)
(***************************************************************************)
TypeOK ==
  /\ params \in [enabled : EnabledChoices, max_n_glitch_frames : FrameLimits,
                 max_n_glitch_seconds : SecondLimits, min_shot_size : ShotSizes]
  /\ frame \in Nat /\ run \in Nat
  /\ upstream \in [reference : Nat, new : BOOLEAN]
  /\ ssp_state \in {"INIT", "STEADY_STATE", "WITHIN_GLITCH"}
  /\ data_queue \in Seq(Packet)
  /\ anchor \in [valid : BOOLEAN, packet : Packet]
  /\ major_adjustment \in Homography
  /\ glitch_frame_count \in Nat /\ min_shot_size_counter \in Int
  /\ pads \in Packet
  /\ status \in {"SUCCESS", "SKIP", "FAILURE"}
  /\ output \in Seq(Packet)
  /\ misled \in BOOLEAN

Mapped(p) == p.usable /\ p.h.valid

(***************************************************************************)
(* Whoever follows the flag of a new reference is never wrong: what a      *)
(* usable frame is given downstream really maps it to the reference that   *)
(* it names, and that is the one that the packet before it was mapped to   *)
(* unless the flag is set.  Over any number of glitches, stitched or not:  *)
(* step2() and attempt_stitching() have to adjust just the right frames by *)
(* a product in the right order.                                           *)
(***************************************************************************)
Kept(o) ==
  \A i \in 1 .. Len(o) : Mapped(o[i]) =>
    /\ o[i].h.exact
    /\ \/ o[i].h.new
       \/ i > 1 /\ Mapped(o[i - 1]) /\ o[i - 1].h.dest = o[i].h.dest

ReferencesKept == ~misled => Kept(output)

(* Without the exception it does not hold: shot_stitching_process.h:29-30  *)
(* says that the packets of a glitch that is given up are flushed          *)
(* unchanged, and flush_queue() adjusts them for the shot before.          *)
ReferencesAlwaysKept == Kept(output)

Bridges(p, r) == Mapped(p) /\ Mapped(r) /\ ~r.h.new /\ r.h.dest = p.h.dest

(***************************************************************************)
(* Frames leave in order; some are missing only between two that are       *)
(* mapped to one reference, and all those behind the last are still in the *)
(* queue, whether the glitch was stitched, could not be, or was given up.  *)
(***************************************************************************)
Bridged(o, excused) ==
  \A i \in 1 .. Len(o) - 1 :
    \/ o[i + 1].frame = o[i].frame + 1
    \/ /\ o[i + 1].frame > o[i].frame + 1
       /\ excused \/ Bridges(o[i], o[i + 1])

GapsAreBridged ==
  /\ Bridged(output, misled)
  /\ output # << >> =>
       output[Len(output)].frame + Len(data_queue) = frame

(* The queue is bounded if the length of a glitch is, although frames that *)
(* seem to begin a shot are not counted as frames of the glitch.           *)
BufferBounded ==
  params.max_n_glitch_frames # NoLimit =>
    Len(data_queue) <= params.max_n_glitch_frames
                         * (IF params.min_shot_size = 0 THEN 1 ELSE params.min_shot_size)
=============================================================================
