------------------------- MODULE ShotStitchingProofs -------------------------
(***************************************************************************)
(* Proofs about ShotStitching, for all parameters and any number of frames *)
(* and runs.                                                               *)
(***************************************************************************)
EXTENDS ShotStitching, SequenceTheorems, TLAPS

(***************************************************************************)
(* The inductive invariant.  A packet as it came from upstream:            *)
(***************************************************************************)
Raw(p) ==
  /\ p.h.source = p.frame
  /\ p.h.valid => p.h.exact
  /\ p.usable => p.h.valid
  /\ p.usable /\ p.h.new => p.h.dest = p.frame

(* Every frame that continues a shot does so from a frame in q that began  *)
(* it, with nothing else between the two.                                  *)
BegunBy(q, k, i) ==
  /\ q[k].usable /\ q[k].h.new
  /\ \A j \in k + 1 .. i : Continues(q[j]) /\ q[j].h.dest = q[k].h.dest

ShotsWhole(q) ==
  \A i \in 1 .. Len(q) :
    Continues(q[i]) => \E k \in 1 .. i - 1 : BegunBy(q, k, i)

(* The frames held back are the last ones received, and are there only in  *)
(* a glitch.                                                               *)
QueueInvariant ==
  /\ \A i \in 1 .. Len(data_queue) :
       /\ Raw(data_queue[i])
       /\ data_queue[i].frame = frame - Len(data_queue) + i
  /\ ShotsWhole(data_queue)
  /\ data_queue # << >> <=> ssp_state = "WITHIN_GLITCH" /\ status # "FAILURE"
  /\ data_queue # << >> =>
       upstream.reference = IF data_queue[Len(data_queue)].usable
                            THEN data_queue[Len(data_queue)].h.dest ELSE 0
  /\ ~params.enabled => ssp_state = "INIT" /\ ~major_adjustment.valid
  /\ ssp_state # "INIT" => output # << >>

LastOutput == output[Len(output)]

(* The last frame before a glitch was mapped to the reference of the       *)
(* anchor, and the adjustment leads from there to what was last told.      *)
AnchorHolds ==
  /\ Raw(anchor.packet) /\ anchor.packet.usable
  /\ LastOutput.h.dest = IF major_adjustment.valid THEN major_adjustment.dest
                         ELSE anchor.packet.h.dest
  /\ major_adjustment.valid =>
       /\ major_adjustment.exact
       /\ major_adjustment.source = anchor.packet.h.dest

ReferenceInvariant ==
  ~misled /\ status # "FAILURE" =>
    /\ ssp_state = "INIT" /\ upstream.reference # 0 =>
         /\ output # << >> /\ Mapped(LastOutput)
         /\ LastOutput.h.dest = upstream.reference
         /\ ~major_adjustment.valid
    /\ ssp_state # "INIT" =>
         /\ Mapped(LastOutput)
         /\ anchor.valid => AnchorHolds
         /\ ~anchor.valid => ~major_adjustment.valid
    /\ ssp_state = "STEADY_STATE" =>
         upstream.reference = IF anchor.valid THEN anchor.packet.h.dest
                              ELSE LastOutput.h.dest

(* A frame of a glitch is followed by fewer frames that seem to begin a    *)
(* shot than a shot needs.                                                 *)
ShotSize == IF params.min_shot_size = 0 THEN 1 ELSE params.min_shot_size

BufferInvariant ==
  data_queue # << >> =>
    /\ min_shot_size_counter \in 0 .. params.min_shot_size
    /\ params.min_shot_size > 0 => min_shot_size_counter > 0
    /\ glitch_frame_count > 0
    /\ params.max_n_glitch_frames # NoLimit =>
         glitch_frame_count <= params.max_n_glitch_frames
    /\ Len(data_queue) <= (glitch_frame_count - 1) * ShotSize + 1
                            + params.min_shot_size - min_shot_size_counter

StitchInvariant ==
  /\ TypeOK
  /\ QueueInvariant
  /\ ReferenceInvariant
  /\ BufferInvariant
  /\ ReferencesKept
  /\ GapsAreBridged

(***************************************************************************)
(* Types of what the steps are made of.                                    *)
(***************************************************************************)
LEMMA ProductType ==
  ASSUME NEW l \in Homography, NEW r \in Homography
  PROVE  /\ Product(l, r) \in Homography
         /\ Product(l, r).valid <=> l.valid /\ r.valid
         /\ ~Product(l, r).new
         /\ Product(l, r).source = r.source /\ Product(l, r).dest = l.dest
         /\ Product(l, r).exact <=> l.exact /\ r.exact /\ l.source = r.dest
BY DEF Product, Homography

LEMMA AdjustedType ==
  ASSUME NEW p \in Packet, NEW a \in Homography
  PROVE  /\ Adjusted(p, a) \in Packet
         /\ Adjusted(p, a).frame = p.frame /\ Adjusted(p, a).usable = p.usable
         /\ a.valid /\ p.h.valid => Adjusted(p, a).h = Product(a, p.h)
         /\ ~(a.valid /\ p.h.valid) => Adjusted(p, a) = p
<1>1. p.h \in Homography
  BY DEF Packet
<1>2. Product(a, p.h) \in Homography
  BY <1>1, ProductType
<1>. QED
  BY <1>1, <1>2 DEF Adjusted, Packet

(* What is given downstream is one packet for each one in the queue.       *)
LEMMA AllAdjustedType ==
  ASSUME NEW q \in Seq(Packet), NEW a \in Homography
  PROVE  /\ AllAdjusted(q, a) \in Seq(Packet)
         /\ Len(AllAdjusted(q, a)) = Len(q)
         /\ \A i \in 1 .. Len(q) : AllAdjusted(q, a)[i] = Adjusted(q[i], a)
<1>1. \A i \in 1 .. Len(q) : q[i] \in Packet
  OBVIOUS
<1>2. /\ AllAdjusted(q, a) \in [1 .. Len(q) -> Packet]
      /\ \A i \in 1 .. Len(q) : AllAdjusted(q, a)[i] = Adjusted(q[i], a)
  BY <1>1, AdjustedType DEF AllAdjusted
<1>. QED
  BY <1>2

LEMMA Appended ==
  ASSUME NEW o \in Seq(Packet), NEW b \in Seq(Packet)
  PROVE  /\ o \o b \in Seq(Packet) /\ Len(o \o b) = Len(o) + Len(b)
         /\ \A i \in 1 .. Len(o) : (o \o b)[i] = o[i]
         /\ \A i \in 1 .. Len(b) : (o \o b)[Len(o) + i] = b[i]
BY ConcatProperties

(* A packet from upstream.                                                 *)
LEMMA FromUpstream ==
  ASSUME TypeOK, NEW p \in UsableFrames \cup UnusableFrames
  PROVE  /\ p \in Packet /\ Raw(p) /\ p.frame = frame + 1
         /\ p.usable /\ ~p.h.new => /\ upstream.reference # 0
                                    /\ p.h.dest = upstream.reference
<1>1. frame \in Nat /\ upstream.reference \in Nat /\ upstream.new \in BOOLEAN
  BY DEF TypeOK
<1>2. CASE p \in UsableFrames
  <2>1. PICK n \in BOOLEAN :
          /\ ~n => upstream.reference # 0
          /\ p = [frame |-> frame + 1, usable |-> TRUE,
                  h |-> [valid |-> TRUE, new |-> n, source |-> frame + 1,
                         dest |-> IF n THEN frame + 1 ELSE upstream.reference,
                         exact |-> TRUE]]
    BY <1>2 DEF UsableFrames
  <2>2. p.h \in Homography /\ p \in Packet
    BY <1>1, <2>1 DEF Packet, Homography
  <2>. QED
    BY <1>1, <2>1, <2>2 DEF Raw
<1>3. CASE p \in UnusableFrames
  <2>1. PICK v \in BOOLEAN :
          p = [frame |-> frame + 1, usable |-> FALSE,
               h |-> [valid |-> v, new |-> ~v /\ upstream.new,
                      source |-> frame + 1, dest |-> upstream.reference,
                      exact |-> v]]
    BY <1>3 DEF UnusableFrames
  <2>2. (~v /\ upstream.new) \in BOOLEAN
    BY <1>1, <2>1
  <2>3. p.h \in Homography /\ p \in Packet
    BY <1>1, <2>1, <2>2 DEF Packet, Homography
  <2>. QED
    BY <1>1, <2>1, <2>3 DEF Raw
<1>. QED
  BY <1>2, <1>3

(***************************************************************************)
(* The queue of a step: the frames held back and the one that came.        *)
(***************************************************************************)
LEMMA QueueGrows ==
  ASSUME TypeOK, QueueInvariant, NEW p \in UsableFrames \cup UnusableFrames,
         NEW q \in Seq(Packet), q = Append(data_queue, p)
  PROVE  /\ Len(q) = Len(data_queue) + 1 /\ q[Len(q)] = p
         /\ \A i \in 1 .. Len(data_queue) : q[i] = data_queue[i]
         /\ \A i \in 1 .. Len(q) :
              Raw(q[i]) /\ q[i].frame = frame + 1 - Len(q) + i
         /\ data_queue # << >> \/ ~Continues(p) => ShotsWhole(q)
<1>. DEFINE L == Len(data_queue)
<1>1. /\ data_queue \in Seq(Packet) /\ L \in Nat /\ frame \in Nat
      /\ p \in Packet /\ Raw(p) /\ p.frame = frame + 1
  BY FromUpstream DEF TypeOK
<1>2. /\ Len(q) = L + 1 /\ q[L + 1] = p
      /\ \A i \in 1 .. L : q[i] = data_queue[i]
  BY <1>1, AppendProperties
<1>3. \A i \in 1 .. L + 1 : Raw(q[i]) /\ q[i].frame = frame + 1 - (L + 1) + i
  <2>1. \A i \in 1 .. L : Raw(data_queue[i]) /\ data_queue[i].frame = frame - L + i
    BY <1>1 DEF QueueInvariant
  <2>. QED
    BY <1>1, <1>2, <2>1
<1>4. ASSUME data_queue # << >> \/ ~Continues(p)
      PROVE  ShotsWhole(q)
  <2>. SUFFICES ASSUME NEW i \in 1 .. L + 1, Continues(q[i])
                PROVE  \E k \in 1 .. i - 1 : BegunBy(q, k, i)
    BY <1>2 DEF ShotsWhole
  <2>1. ASSUME NEW m \in 1 .. L, Continues(q[m])
        PROVE  \E k \in 1 .. m - 1 : BegunBy(q, k, m)
    <3>1. PICK k \in 1 .. m - 1 : BegunBy(data_queue, k, m)
      BY <1>1, <1>2, <2>1 DEF QueueInvariant, ShotsWhole
    <3>2. k \in 1 .. L /\ \A j \in k + 1 .. m : j \in 1 .. L
      BY <1>1
    <3>3. BegunBy(q, k, m)
      BY <1>2, <3>1, <3>2 DEF BegunBy
    <3>. QED
      BY <3>3
  <2>2. CASE i <= L
    BY <1>1, <2>1, <2>2
  <2>3. CASE i = L + 1
    <3>1. data_queue # << >> /\ L > 0
      BY <1>1, <1>2, <1>4, <2>3
    <3>2. /\ upstream.reference # 0 /\ p.h.dest = upstream.reference
          /\ Continues(p)
      BY <1>2, <2>3, FromUpstream DEF Continues
    <3>3. q[L].usable /\ q[L].h.dest = p.h.dest
      BY <1>1, <1>2, <3>1, <3>2 DEF QueueInvariant
    <3>4. CASE q[L].h.new
      <4>1. BegunBy(q, L, i)
        BY <1>1, <1>2, <2>3, <3>2, <3>3, <3>4 DEF BegunBy
      <4>. QED
        BY <1>1, <2>3, <3>1, <4>1
    <3>5. CASE ~q[L].h.new
      <4>1. Continues(q[L])
        BY <1>1, <1>3, <3>1, <3>3, <3>5 DEF Continues, Raw
      <4>2. PICK k \in 1 .. L - 1 : BegunBy(q, k, L)
        BY <1>1, <2>1, <3>1, <4>1
      <4>3. L \in k + 1 .. L /\ \A j \in k + 1 .. i : j \in k + 1 .. L \/ j = i
        BY <1>1, <2>3, <3>1
      <4>4. BegunBy(q, k, i)
        BY <1>2, <2>3, <3>2, <3>3, <4>2, <4>3 DEF BegunBy
      <4>. QED
        BY <1>1, <2>3, <4>4
    <3>. QED
      BY <3>4, <3>5
  <2>. QED
    BY <1>1, <2>2, <2>3
<1>. QED
  BY <1>2, <1>3, <1>4

(***************************************************************************)
(* Type correctness.                                                       *)
(***************************************************************************)
PortsTyped ==
  /\ data_queue \in Seq(Packet) /\ anchor \in [valid : BOOLEAN, packet : Packet]
  /\ pads \in Packet /\ status \in {"SUCCESS", "SKIP", "FAILURE"}
  /\ output \in Seq(Packet)

LEMMA FlushTyped ==
  ASSUME TypeOK, NEW q \in Seq(Packet), Len(q) > 0, NEW a \in Homography,
         flush_queue(q, a)
  PROVE  PortsTyped'
<1>1. q[Len(q)] \in Packet
  OBVIOUS
<1>2. Adjusted(q[Len(q)], a) \in Packet
  BY <1>1, AdjustedType
<1>3. AllAdjusted(q, a) \in Seq(Packet) /\ output \in Seq(Packet)
  BY AllAdjustedType DEF TypeOK
<1>4. output' \in Seq(Packet)
  BY <1>3, Appended DEF flush_queue
<1>5. anchor' \in [valid : BOOLEAN, packet : Packet]
  BY <1>1 DEF flush_queue, AnchorAfter, TypeOK
<1>. QED
  BY <1>2, <1>4, <1>5 DEF flush_queue, PortsTyped

LEMMA BufferTyped ==
  ASSUME TypeOK, NEW q \in Seq(Packet), Len(q) > 0, Buffer(q)
  PROVE  PortsTyped'
<1>1. q[Len(q)] \in Packet
  OBVIOUS
<1>. QED
  BY <1>1 DEF Buffer, PortsTyped, TypeOK

(* What registration works for is what is left behind the last frame with  *)
(* a new reference.                                                        *)
LEMMA StitchTyped ==
  ASSUME TypeOK, NEW q \in Seq(Packet), NEW works \in BOOLEAN,
         Len(q) > 0, NEW k \in 1 .. Len(q), HasNew(q) => LastNew(q) = k
  PROVE  /\ attempt_stitching(q, works).queue \in Seq(Packet)
         /\ Len(attempt_stitching(q, works).queue) > 0
         /\ attempt_stitching(q, works).adjustment \in Homography
<1>1. q[k] \in Packet /\ q[k].h \in Homography
  <2>1. q[k] \in Packet
    OBVIOUS
  <2>. QED
    BY <2>1 DEF Packet
<1>2. /\ major_adjustment \in Homography
      /\ anchor.packet.h \in Homography /\ anchor.packet.frame \in Nat
  BY DEF TypeOK, Packet
<1>3. CurrentToAnchor(q[k]) \in Homography
  BY <1>1, <1>2 DEF CurrentToAnchor, Homography
<1>4. Product(anchor.packet.h, CurrentToAnchor(q[k])) \in Homography
  BY <1>2, <1>3, ProductType
<1>5. AdjustmentAfter(q[k]) \in Homography
  BY <1>2, <1>4, ProductType DEF AdjustmentAfter
<1>6. [major_adjustment EXCEPT !.valid = FALSE] \in Homography
  BY <1>2 DEF Homography
<1>7. /\ SubSeq(q, k, Len(q)) \in Seq(Packet)
      /\ Len(SubSeq(q, k, Len(q))) = Len(q) - k + 1
  <2>1. \A i \in k .. Len(q) : q[i] \in Packet
    OBVIOUS
  <2>2. k \in Int /\ Len(q) \in Int
    OBVIOUS
  <2>. QED
    BY <2>1, <2>2, SubSeqProperties
<1>. QED
  BY <1>2, <1>5, <1>6, <1>7 DEF attempt_stitching

LEMMA LastNewIn ==
  ASSUME NEW q \in Seq(Packet), NEW k \in 1 .. Len(q),
         q[k].h.new, \A j \in k + 1 .. Len(q) : ~q[j].h.new
  PROVE  HasNew(q) /\ LastNew(q) = k
<1>1. HasNew(q)
  BY DEF HasNew
<1>2. \A i \in DOMAIN q :
        (q[i].h.new /\ \A j \in i + 1 .. Len(q) : ~q[j].h.new) => i = k
  <2>. SUFFICES ASSUME NEW i \in 1 .. Len(q), q[i].h.new,
                       \A j \in i + 1 .. Len(q) : ~q[j].h.new
                PROVE  i = k
    OBVIOUS
  <2>1. ~(k < i) /\ ~(i < k)
    OBVIOUS
  <2>. QED
    BY <2>1
<1>. QED
  BY <1>1, <1>2 DEF LastNew

(***************************************************************************)
(* When packets are given downstream, the two properties of the output     *)
(* hold if they hold for these packets and for where they join the rest.   *)
(***************************************************************************)
Follows(p, r) == r.h.new \/ (Mapped(p) /\ p.h.dest = r.h.dest)

Joins(p, r, excused) ==
  \/ r.frame = p.frame + 1
  \/ r.frame > p.frame + 1 /\ (excused \/ Bridges(p, r))

RightlyGiven(q, a) ==
  \A i \in 1 .. Len(q) :
    Mapped(Adjusted(q[i], a)) =>
      /\ Adjusted(q[i], a).h.exact
      /\ i > 1 => Follows(Adjusted(q[i - 1], a), Adjusted(q[i], a))
      /\ i = 1 => \/ Adjusted(q[i], a).h.new
                  \/ output # << >> /\ Follows(LastOutput, Adjusted(q[i], a))

LEMMA OutputGrows ==
  ASSUME TypeOK, ReferencesKept, GapsAreBridged,
         NEW q \in Seq(Packet), NEW a \in Homography,
         output' = output \o AllAdjusted(q, a), data_queue' = << >>,
         frame' \in Nat, misled' \in BOOLEAN, misled => misled',
         \A i \in 1 .. Len(q) : q[i].frame = frame' - Len(q) + i,
         q = << >> /\ output # << >> => LastOutput.frame = frame',
         q # << >> /\ output # << >> =>
           Joins(LastOutput, Adjusted(q[1], a), misled'),
         ~misled' => RightlyGiven(q, a)
  PROVE  /\ output' \in Seq(Packet)
         /\ output # << >> \/ q # << >> => output' # << >>
         /\ ReferencesKept' /\ GapsAreBridged'
         /\ q # << >> => /\ output' # << >>
                         /\ LastOutput' = Adjusted(q[Len(q)], a)
<1>. DEFINE N == Len(output)
<1>1. /\ output \in Seq(Packet) /\ N \in Nat /\ Len(q) \in Nat
      /\ output # << >> <=> N > 0
      /\ q # << >> <=> Len(q) > 0
      /\ \A i \in 1 .. Len(q) : q[i] \in Packet
      /\ \A i \in 1 .. N : output[i] \in Packet
  BY DEF TypeOK
<1>2. /\ output' \in Seq(Packet) /\ Len(output') = N + Len(q)
      /\ \A i \in 1 .. N : output'[i] = output[i]
      /\ \A i \in 1 .. Len(q) : output'[N + i] = Adjusted(q[i], a)
  BY <1>1, AllAdjustedType, Appended
<1>3. \A i \in 1 .. N + Len(q) : i \in 1 .. N \/ i - N \in 1 .. Len(q)
  BY <1>1
<1>4. ReferencesKept'
  <2>. SUFFICES ASSUME ~misled', NEW i \in 1 .. N + Len(q), Mapped(output'[i])
                PROVE  /\ output'[i].h.exact
                       /\ output'[i].h.new \/ (i > 1 /\ Follows(output'[i - 1], output'[i]))
    BY <1>2 DEF ReferencesKept, Kept, Follows
  <2>1. CASE i \in 1 .. N
    <3>1. i > 1 => i - 1 \in 1 .. N
      BY <2>1
    <3>2. Kept(output)
      BY DEF ReferencesKept
    <3>. QED
      BY <1>2, <2>1, <3>1, <3>2 DEF Kept, Follows
  <2>2. CASE i - N \in 1 .. Len(q)
    <3>. DEFINE m == i - N
    <3>0. m \in 1 .. Len(q) /\ i = N + m
      BY <1>1, <2>2
    <3>1. m \in 1 .. Len(q) /\ i = N + m /\ output'[i] = Adjusted(q[m], a)
      BY <1>2, <3>0
    <3>2. CASE m > 1
      <4>1. m - 1 \in 1 .. Len(q) /\ i - 1 = N + (m - 1) /\ i > 1
        BY <1>1, <3>1, <3>2
      <4>2. output'[i - 1] = Adjusted(q[m - 1], a)
        BY <1>2, <4>1
      <4>3. /\ Adjusted(q[m], a).h.exact
            /\ Follows(Adjusted(q[m - 1], a), Adjusted(q[m], a))
        BY <3>1, <3>2 DEF RightlyGiven
      <4>. QED
        BY <3>1, <4>1, <4>2, <4>3
    <3>3. CASE m = 1
      <4>1. output # << >> => N \in 1 .. N /\ i - 1 = N /\ i > 1
        BY <1>1, <3>1, <3>3
      <4>2. output # << >> => output'[i - 1] = LastOutput
        BY <1>2, <4>1 DEF LastOutput
      <4>3. Mapped(Adjusted(q[m], a))
        BY <3>1
      <4>4. /\ Adjusted(q[m], a).h.exact
            /\ \/ Adjusted(q[m], a).h.new
               \/ output # << >> /\ Follows(LastOutput, Adjusted(q[m], a))
        BY <3>1, <3>3, <4>3 DEF RightlyGiven
      <4>. QED
        BY <3>1, <4>1, <4>2, <4>4
    <3>4. m > 1 \/ m = 1
      BY <3>1
    <3>. QED
      BY <3>2, <3>3, <3>4
  <2>. QED
    BY <1>3, <2>1, <2>2
<1>5. ASSUME q # << >>
      PROVE  output' # << >> /\ LastOutput' = Adjusted(q[Len(q)], a)
  <2>1. Len(q) \in 1 .. Len(q) /\ Len(output') > 0
    BY <1>1, <1>2, <1>5
  <2>2. output'[N + Len(q)] = Adjusted(q[Len(q)], a)
    BY <1>2, <2>1
  <2>3. output' # << >>
    BY <1>2, <2>1
  <2>. QED
    BY <1>2, <2>2, <2>3 DEF LastOutput
<1>6. Bridged(output', misled')
  <2>. SUFFICES \A i \in 1 .. Len(output') - 1 :
                  Joins(output'[i], output'[i + 1], misled')
    BY DEF Bridged, Joins
  <2>. SUFFICES ASSUME NEW i \in 1 .. (N + Len(q)) - 1
                PROVE  Joins(output'[i], output'[i + 1], misled')
    BY <1>2
  <2>1. CASE i \in 1 .. N - 1
    <3>1. i \in 1 .. N /\ i + 1 \in 1 .. N
      BY <1>1, <2>1
    <3>2. Joins(output[i], output[i + 1], misled)
      BY <2>1 DEF GapsAreBridged, Bridged, Joins
    <3>. QED
      BY <1>2, <3>1, <3>2 DEF Joins
  <2>2. CASE i = N
    <3>1. N \in 1 .. N /\ 1 \in 1 .. Len(q) /\ i + 1 = N + 1
      BY <1>1, <2>2
    <3>. QED
      BY <1>1, <1>2, <2>2, <3>1 DEF LastOutput
  <2>3. CASE i > N
    <3>. DEFINE m == i - N
    <3>1. /\ m \in 1 .. Len(q) /\ m + 1 \in 1 .. Len(q)
          /\ i = N + m /\ i + 1 = N + (m + 1)
      BY <1>1, <2>3
    <3>2. /\ output'[i] = Adjusted(q[m], a)
          /\ output'[i + 1] = Adjusted(q[m + 1], a)
      BY <1>2, <3>1
    <3>3. /\ Adjusted(q[m], a).frame = q[m].frame
          /\ Adjusted(q[m + 1], a).frame = q[m + 1].frame
      BY <1>1, <3>1, AdjustedType
    <3>4. /\ q[m].frame = frame' - Len(q) + m
          /\ q[m + 1].frame = frame' - Len(q) + (m + 1)
      BY <3>1
    <3>5. q[m + 1].frame = q[m].frame + 1
      BY <1>1, <3>1, <3>4
    <3>. QED
      BY <3>2, <3>3, <3>5 DEF Joins
  <2>4. i \in 1 .. N - 1 \/ i = N \/ i > N
    BY <1>1
  <2>. QED
    BY <2>1, <2>2, <2>3, <2>4
<1>7. output' # << >> => output'[Len(output')].frame + Len(data_queue') = frame'
  <2>1. Len(data_queue') = 0
    OBVIOUS
  <2>2. CASE q = << >>
    <3>1. output' = output
      BY <1>1, <1>2, <2>2
    <3>2. output # << >> => output[N].frame \in Nat /\ output[N].frame = frame'
      BY <1>1, <2>2 DEF LastOutput, Packet
    <3>. QED
      BY <2>1, <3>1, <3>2
  <2>3. CASE q # << >>
    <3>1. Len(q) \in 1 .. Len(q) /\ q[Len(q)] \in Packet
      BY <1>1, <2>3
    <3>2. /\ Adjusted(q[Len(q)], a).frame = q[Len(q)].frame
          /\ q[Len(q)].frame = frame'
      BY SMTT(30), <1>1, <3>1, AdjustedType
    <3>. QED
      BY <1>5, <2>1, <2>3, <3>2 DEF LastOutput
  <2>. QED
    BY <2>2, <2>3
<1>8. output # << >> => output' # << >>
  BY <1>1, <1>2
<1>. QED
  BY <1>2, <1>4, <1>5, <1>6, <1>7, <1>8 DEF GapsAreBridged

(* A queue without adjustment is rightly given, and so is one that holds   *)
(* no shots: what a glitch consists of when it is given up.                *)
LEMMA GlitchRightlyGiven ==
  ASSUME NEW q \in Seq(Packet), NEW a \in Homography,
         ShotsWhole(q), \A i \in 1 .. Len(q) : Raw(q[i]),
         a.valid => \A i \in 1 .. Len(q) : ~(q[i].usable /\ q[i].h.new)
  PROVE  RightlyGiven(q, a)
<1>. SUFFICES ASSUME NEW i \in 1 .. Len(q), Mapped(Adjusted(q[i], a))
              PROVE  /\ Adjusted(q[i], a).h.exact
                     /\ \/ Adjusted(q[i], a).h.new
                        \/ i > 1 /\ Follows(Adjusted(q[i - 1], a), Adjusted(q[i], a))
  BY DEF RightlyGiven, Follows
<1>1. \A j \in 1 .. Len(q) : q[j] \in Packet
  OBVIOUS
<1>2. q[i].usable /\ q[i].h.valid /\ q[i].h.exact
  <2>1. q[i] \in Packet /\ Raw(q[i])
    BY <1>1
  <2>. QED
    BY <2>1, AdjustedType DEF Mapped, Raw
<1>3. ~a.valid
  <2>. SUFFICES ASSUME a.valid PROVE FALSE
    OBVIOUS
  <2>1. ~q[i].h.new /\ Continues(q[i])
    BY <1>2 DEF Continues
  <2>2. PICK k \in 1 .. i - 1 : BegunBy(q, k, i)
    BY <2>1 DEF ShotsWhole
  <2>3. k \in 1 .. Len(q)
    OBVIOUS
  <2>. QED
    BY <2>2, <2>3 DEF BegunBy
<1>4. \A j \in 1 .. Len(q) : Adjusted(q[j], a) = q[j]
  BY <1>1, <1>3, AdjustedType
<1>5. CASE q[i].h.new
  BY <1>2, <1>4, <1>5
<1>6. CASE ~q[i].h.new
  <2>1. PICK k \in 1 .. i - 1 : BegunBy(q, k, i)
    BY <1>2, <1>6 DEF ShotsWhole, Continues
  <2>2. i > 1 /\ i - 1 \in 1 .. Len(q) /\ k \in 1 .. Len(q) /\ i \in k + 1 .. i
    OBVIOUS
  <2>3. k = i - 1 \/ i - 1 \in k + 1 .. i
    OBVIOUS
  <2>4. q[i - 1].usable /\ q[i - 1].h.dest = q[i].h.dest
    BY <2>1, <2>2, <2>3 DEF BegunBy, Continues
  <2>5. Raw(q[i - 1])
    BY <2>2
  <2>6. Follows(q[i - 1], q[i])
    BY <2>4, <2>5 DEF Follows, Mapped, Raw
  <2>. QED
    BY <1>2, <1>4, <2>2, <2>6
<1>. QED
  BY <1>5, <1>6

(***************************************************************************)
(* What all steps with a frame have in common.                             *)
(***************************************************************************)
Receives(p, q) ==
  /\ status # "FAILURE"
  /\ p \in UsableFrames \cup UnusableFrames
  /\ q \in Seq(Packet) /\ q = Append(data_queue, p)
  /\ frame' = frame + 1
  /\ upstream' = [reference |-> IF p.usable THEN p.h.dest ELSE 0,
                  new |-> p.h.new]
  /\ params' = params /\ run' = run

LEMMA Received ==
  ASSUME StitchInvariant, NEW p, NEW q, Receives(p, q)
  PROVE  /\ p \in Packet /\ Raw(p) /\ p.h \in Homography
         /\ p.usable /\ ~p.h.new => /\ upstream.reference # 0
                                    /\ p.h.dest = upstream.reference
         /\ Len(q) \in Nat /\ Len(q) = Len(data_queue) + 1 /\ Len(q) > 0
         /\ q[Len(q)] = p
         /\ \A i \in 1 .. Len(q) : Raw(q[i])
         /\ \A i \in 1 .. Len(q) : q[i].frame = frame' - Len(q) + i
         /\ data_queue # << >> \/ ~Continues(p) => ShotsWhole(q)
         /\ frame' \in Nat
         /\ params' = params /\ params \in [enabled : EnabledChoices,
              max_n_glitch_frames : FrameLimits,
              max_n_glitch_seconds : SecondLimits, min_shot_size : ShotSizes]
         /\ run' \in Nat /\ upstream' \in [reference : Nat, new : BOOLEAN]
         /\ upstream'.reference = IF p.usable THEN p.h.dest ELSE 0
<1>1. TypeOK /\ QueueInvariant
  BY DEF StitchInvariant
<1>2. /\ p \in Packet /\ Raw(p)
      /\ p.usable /\ ~p.h.new => /\ upstream.reference # 0
                                 /\ p.h.dest = upstream.reference
  BY <1>1, FromUpstream DEF Receives
<1>3. /\ Len(q) = Len(data_queue) + 1 /\ q[Len(q)] = p
      /\ \A i \in 1 .. Len(q) :
           Raw(q[i]) /\ q[i].frame = frame + 1 - Len(q) + i
      /\ data_queue # << >> \/ ~Continues(p) => ShotsWhole(q)
  BY <1>1, QueueGrows DEF Receives
<1>4. Len(data_queue) \in Nat /\ frame \in Nat /\ run \in Nat
  BY <1>1 DEF TypeOK
<1>5. p.h \in Homography /\ p.h.dest \in Nat /\ p.h.new \in BOOLEAN
  BY <1>2 DEF Packet, Homography
<1>6. /\ upstream' \in [reference : Nat, new : BOOLEAN]
      /\ upstream'.reference = IF p.usable THEN p.h.dest ELSE 0
  BY <1>5 DEF Receives
<1>7. /\ params' = params /\ params \in [enabled : EnabledChoices,
              max_n_glitch_frames : FrameLimits,
              max_n_glitch_seconds : SecondLimits, min_shot_size : ShotSizes]
      /\ frame' = frame + 1 /\ run' = run
  BY <1>1 DEF TypeOK, Receives
<1>8. \A i \in 1 .. Len(q) : Raw(q[i]) /\ q[i].frame = frame' - Len(q) + i
  <2>1. frame' = frame + 1
    BY DEF Receives
  <2>. SUFFICES ASSUME NEW i \in 1 .. Len(q)
                PROVE  Raw(q[i]) /\ q[i].frame = frame' - Len(q) + i
    OBVIOUS
  <2>2. Raw(q[i]) /\ q[i].frame = frame + 1 - Len(q) + i
    BY <1>3
  <2>. QED
    BY <1>3, <1>4, <2>1, <2>2
<1>. QED
  BY <1>2, <1>3, <1>4, <1>5, <1>6, <1>7, <1>8

(* Frames that follow the last one that was given.                         *)
LEMMA NextInLine ==
  ASSUME StitchInvariant, NEW p, NEW q, Receives(p, q), NEW a \in Homography,
         NEW excused
  PROVE  output # << >> => Joins(LastOutput, Adjusted(q[1], a), excused)
<1>. SUFFICES ASSUME output # << >>
              PROVE  Joins(LastOutput, Adjusted(q[1], a), excused)
  OBVIOUS
<1>1. /\ Len(q) = Len(data_queue) + 1 /\ Len(data_queue) \in Nat
      /\ frame \in Nat /\ frame' = frame + 1 /\ q \in Seq(Packet)
  BY Received DEF StitchInvariant, TypeOK, Receives
<1>2. q[1].frame = frame' - Len(q) + 1
  BY <1>1, Received
<1>3. LastOutput.frame + Len(data_queue) = frame
  BY DEF StitchInvariant, GapsAreBridged, LastOutput
<1>4. LastOutput \in Packet
  <2>1. output \in Seq(Packet) /\ Len(output) \in 1 .. Len(output)
    BY DEF StitchInvariant, TypeOK
  <2>. QED
    BY <2>1 DEF LastOutput
<1>5. LastOutput.frame \in Nat
  BY <1>4 DEF Packet
<1>6. q[1] \in Packet
  BY <1>1
<1>7. Adjusted(q[1], a).frame = q[1].frame
  BY <1>6, AdjustedType
<1>8. q[1].frame = LastOutput.frame + 1
  BY <1>1, <1>2, <1>3, <1>5
<1>. QED
  BY <1>7, <1>8 DEF Joins

(* A queue that is given away whole.                                       *)
LEMMA QueueFlushed ==
  ASSUME StitchInvariant, NEW p, NEW q, Receives(p, q), NEW a \in Homography,
         flush_queue(q, a), misled' \in BOOLEAN, misled => misled',
         ~misled' => RightlyGiven(q, a)
  PROVE  /\ ReferencesKept' /\ GapsAreBridged'
         /\ output' # << >> /\ LastOutput' = Adjusted(p, a)
         /\ PortsTyped' /\ data_queue' = << >> /\ status' = "SUCCESS"
         /\ anchor'.valid <=> (p.usable /\ ~p.h.new)
         /\ anchor'.valid => anchor'.packet = p
<1>1. /\ TypeOK /\ ReferencesKept /\ GapsAreBridged
      /\ Len(q) > 0 /\ q \in Seq(Packet) /\ q # << >> /\ q[Len(q)] = p
      /\ frame' \in Nat
  <2>1. TypeOK /\ ReferencesKept /\ GapsAreBridged
    BY DEF StitchInvariant
  <2>2. q \in Seq(Packet)
    BY DEF Receives
  <2>3. Len(q) > 0 /\ q[Len(q)] = p /\ frame' \in Nat
    BY Received
  <2>. QED
    BY <2>1, <2>2, <2>3
<1>2. \A i \in 1 .. Len(q) : q[i].frame = frame' - Len(q) + i
  BY Received
<1>3. /\ output' = output \o AllAdjusted(q, a) /\ data_queue' = << >>
      /\ status' = "SUCCESS" /\ anchor' = AnchorAfter(p)
  BY <1>1 DEF flush_queue
<1>4. output # << >> => Joins(LastOutput, Adjusted(q[1], a), misled')
  BY NextInLine
<1>5. /\ ReferencesKept' /\ GapsAreBridged'
      /\ output' # << >> /\ LastOutput' = Adjusted(p, a)
  BY <1>1, <1>2, <1>3, <1>4, OutputGrows
<1>6. PortsTyped'
  BY <1>1, FlushTyped
<1>7. anchor \in [valid : BOOLEAN, packet : Packet]
  BY <1>1 DEF TypeOK
<1>. QED
  BY <1>3, <1>5, <1>6, <1>7 DEF AnchorAfter

(* A queue that is kept.                                                   *)
LEMMA QueueKept ==
  ASSUME StitchInvariant, NEW p, NEW q, Receives(p, q), Buffer(q),
         data_queue # << >> \/ ~Continues(p),
         params.enabled, ssp_state # "INIT", ssp_state' = "WITHIN_GLITCH",
         UNCHANGED <<major_adjustment, misled>>
  PROVE  /\ PortsTyped' /\ QueueInvariant' /\ ReferenceInvariant'
         /\ ReferencesKept' /\ GapsAreBridged'
         /\ Len(data_queue') = Len(data_queue) + 1
<1>1. /\ TypeOK /\ QueueInvariant /\ ReferenceInvariant /\ ReferencesKept
      /\ GapsAreBridged /\ status # "FAILURE"
  BY DEF StitchInvariant, Receives
<1>2. /\ data_queue' = q /\ status' = "SKIP" /\ output' = output
      /\ anchor' = anchor /\ major_adjustment' = major_adjustment
      /\ misled' = misled /\ frame' = frame + 1 /\ params' = params
      /\ q \in Seq(Packet)
  BY DEF Buffer, Receives
<1>3. /\ Len(q) = Len(data_queue) + 1 /\ Len(q) > 0 /\ q # << >>
      /\ q[Len(q)] = p /\ ShotsWhole(q)
      /\ upstream'.reference = IF p.usable THEN p.h.dest ELSE 0
  BY <1>2, Received
<1>4. \A i \in 1 .. Len(q) : Raw(q[i]) /\ q[i].frame = frame' - Len(q) + i
  BY Received
<1>5. PortsTyped'
  BY <1>1, <1>3, BufferTyped, <1>2
<1>6. output # << >>
  BY <1>1 DEF QueueInvariant
<1>7. QueueInvariant'
  BY <1>2, <1>3, <1>4, <1>6 DEF QueueInvariant
<1>8. ReferenceInvariant'
  <2>. SUFFICES ASSUME ~misled
                PROVE  /\ Mapped(LastOutput')
                       /\ anchor'.valid => AnchorHolds'
                       /\ ~anchor'.valid => ~major_adjustment'.valid
    BY <1>2 DEF ReferenceInvariant
  <2>1. /\ Mapped(LastOutput)
        /\ anchor.valid => AnchorHolds
        /\ ~anchor.valid => ~major_adjustment.valid
    BY <1>1 DEF ReferenceInvariant
  <2>2. LastOutput' = LastOutput
    BY <1>2 DEF LastOutput
  <2>3. AnchorHolds' <=> AnchorHolds
    BY <1>2, <2>2 DEF AnchorHolds, Raw
  <2>. QED
    BY <1>2, <2>1, <2>2, <2>3
<1>9. ReferencesKept'
  BY <1>1, <1>2 DEF ReferencesKept
<1>10. GapsAreBridged'
  <2>1. Bridged(output', misled')
    BY <1>1, <1>2 DEF GapsAreBridged
  <2>2. output[Len(output)].frame + Len(data_queue) = frame
    BY <1>1, <1>6 DEF GapsAreBridged
  <2>3. output[Len(output)] \in Packet
    <3>1. output \in Seq(Packet) /\ Len(output) \in 1 .. Len(output)
      BY <1>1, <1>6 DEF TypeOK
    <3>. QED
      BY <3>1
  <2>4. output[Len(output)].frame \in Nat /\ Len(data_queue) \in Nat
    BY <1>1, <2>3 DEF Packet, TypeOK
  <2>5. output[Len(output)].frame + Len(q) = frame + 1
    BY <1>3, <2>2, <2>4
  <2>. QED
    BY <1>2, <2>1, <2>5 DEF GapsAreBridged
<1>. QED
  BY <1>2, <1>3, <1>5, <1>7, <1>8, <1>9, <1>10

(* What is left to show of a step that leaves the queue empty.             *)
LEMMA EmptyQueue ==
  ASSUME StitchInvariant, PortsTyped', data_queue' = << >>, params' = params,
         frame' \in Nat, run' \in Nat, misled' \in BOOLEAN,
         upstream' \in [reference : Nat, new : BOOLEAN],
         ssp_state' \in {"INIT", "STEADY_STATE", "WITHIN_GLITCH"},
         ssp_state' # "WITHIN_GLITCH" \/ status' = "FAILURE",
         ssp_state' # "INIT" => output' # << >>,
         major_adjustment' \in Homography,
         ~params.enabled => ssp_state' = "INIT" /\ ~major_adjustment'.valid,
         glitch_frame_count' \in Nat, min_shot_size_counter' \in Int,
         ReferenceInvariant', ReferencesKept', GapsAreBridged'
  PROVE  StitchInvariant'
<1>1. params' \in [enabled : EnabledChoices, max_n_glitch_frames : FrameLimits,
              max_n_glitch_seconds : SecondLimits, min_shot_size : ShotSizes]
  BY DEF StitchInvariant, TypeOK
<1>2. TypeOK'
  BY <1>1 DEF TypeOK, PortsTyped
<1>3. QueueInvariant'
  <2>1. Len(data_queue') = 0 /\ ShotsWhole(data_queue')
    BY DEF ShotsWhole
  <2>. QED
    BY <2>1 DEF QueueInvariant
<1>4. BufferInvariant'
  BY DEF BufferInvariant
<1>. QED
  BY <1>2, <1>3, <1>4 DEF StitchInvariant

LEMMA FlushKeepsInvariant ==
  ASSUME StitchInvariant, NEW p, NEW q, Receives(p, q), NEW a \in Homography,
         flush_queue(q, a), misled' \in BOOLEAN, misled => misled',
         ~misled' => RightlyGiven(q, a),
         ssp_state' \in {"INIT", "STEADY_STATE"}, major_adjustment' \in Homography,
         ~params.enabled => ssp_state' = "INIT" /\ ~major_adjustment'.valid,
         glitch_frame_count' \in Nat, min_shot_size_counter' \in Int,
         ReferenceInvariant'
  PROVE  StitchInvariant'
<1>1. /\ ReferencesKept' /\ GapsAreBridged' /\ output' # << >>
      /\ PortsTyped' /\ data_queue' = << >>
  BY QueueFlushed
<1>2. /\ params' = params /\ frame' \in Nat /\ run' \in Nat
      /\ upstream' \in [reference : Nat, new : BOOLEAN]
  BY Received
<1>3. /\ ssp_state' \in {"INIT", "STEADY_STATE", "WITHIN_GLITCH"}
      /\ ssp_state' # "WITHIN_GLITCH"
  OBVIOUS
<1>. QED
  BY <1>1, <1>2, <1>3, EmptyQueue

(* The same of a step that keeps it.                                       *)
LEMMA KeepingKeepsInvariant ==
  ASSUME StitchInvariant, NEW p, NEW q, Receives(p, q), Buffer(q),
         data_queue # << >> \/ ~Continues(p),
         params.enabled, ssp_state # "INIT", ssp_state' = "WITHIN_GLITCH",
         UNCHANGED <<major_adjustment, misled>>,
         glitch_frame_count' \in Nat, min_shot_size_counter' \in Int,
         BufferInvariant'
  PROVE  StitchInvariant'
<1>1. /\ PortsTyped' /\ QueueInvariant' /\ ReferenceInvariant'
      /\ ReferencesKept' /\ GapsAreBridged'
  BY QueueKept
<1>2. /\ params' = params /\ params \in [enabled : EnabledChoices,
              max_n_glitch_frames : FrameLimits,
              max_n_glitch_seconds : SecondLimits, min_shot_size : ShotSizes]
      /\ frame' \in Nat /\ run' \in Nat
      /\ upstream' \in [reference : Nat, new : BOOLEAN]
  BY Received
<1>3. TypeOK'
  <2>1. major_adjustment \in Homography /\ misled \in BOOLEAN
    BY DEF StitchInvariant, TypeOK
  <2>. QED
    BY <1>1, <1>2, <2>1 DEF TypeOK, PortsTyped
<1>. QED
  BY <1>1, <1>3 DEF StitchInvariant

(***************************************************************************)
(* The cases of a step.                                                    *)
(***************************************************************************)
(* A frame at the beginning of a stream, or while nothing is stitched.     *)
LEMMA FirstRightlyGiven ==
  ASSUME StitchInvariant, NEW p, NEW q, Receives(p, q), ssp_state = "INIT",
         NEW a \in Homography, ~a.valid
  PROVE  ~misled => RightlyGiven(q, a)
<1>1. data_queue = << >> /\ Len(q) = 1 /\ q[1] = p
  <2>1. data_queue = << >>
    BY DEF StitchInvariant, QueueInvariant
  <2>. QED
    BY <2>1, Received
<1>2. /\ p \in Packet /\ Raw(p)
      /\ p.usable /\ ~p.h.new => /\ upstream.reference # 0
                                 /\ p.h.dest = upstream.reference
  BY Received
<1>3. Adjusted(p, a) = p
  BY <1>2, AdjustedType
<1>4. ASSUME ~misled, p.usable, ~p.h.new
      PROVE  output # << >> /\ Follows(LastOutput, p)
  BY <1>2, <1>4 DEF StitchInvariant, ReferenceInvariant, Receives, Follows
<1>. SUFFICES ASSUME ~misled, NEW i \in 1 .. Len(q), Mapped(Adjusted(q[i], a))
              PROVE  /\ Adjusted(q[i], a).h.exact
                     /\ i > 1 => Follows(Adjusted(q[i - 1], a), Adjusted(q[i], a))
                     /\ i = 1 => \/ Adjusted(q[i], a).h.new
                                 \/ /\ output # << >>
                                    /\ Follows(LastOutput, Adjusted(q[i], a))
  BY DEF RightlyGiven
<1>5. i = 1 /\ q[i] = p
  BY <1>1
<1>. QED
  BY <1>2, <1>3, <1>4, <1>5 DEF Mapped, Raw

LEMMA DisabledKeepsInvariant ==
  ASSUME StitchInvariant, NEW p, NEW q, Receives(p, q), StepDisabled(q)
  PROVE  StitchInvariant'
<1>1. /\ ssp_state = "INIT" /\ ~major_adjustment.valid
      /\ major_adjustment \in Homography /\ misled \in BOOLEAN
      /\ glitch_frame_count \in Nat /\ min_shot_size_counter \in Int
  BY DEF StitchInvariant, QueueInvariant, TypeOK, StepDisabled
<1>2. /\ flush_queue(q, major_adjustment) /\ misled' = misled
      /\ major_adjustment' = major_adjustment /\ ssp_state' = ssp_state
      /\ glitch_frame_count' = glitch_frame_count
      /\ min_shot_size_counter' = min_shot_size_counter
  BY DEF StepDisabled
<1>3. ~misled => RightlyGiven(q, major_adjustment)
  BY <1>1, FirstRightlyGiven
<1>4. ReferenceInvariant'
  <2>1. output' # << >> /\ LastOutput' = Adjusted(p, major_adjustment)
    BY <1>1, <1>2, <1>3, QueueFlushed
  <2>2. /\ p \in Packet /\ Raw(p) /\ p.h.dest \in Nat
        /\ upstream'.reference = IF p.usable THEN p.h.dest ELSE 0
    BY Received DEF Homography
  <2>3. LastOutput' = p
    BY <1>1, <2>1, <2>2, AdjustedType
  <2>. QED
    BY <1>1, <1>2, <2>1, <2>2, <2>3 DEF ReferenceInvariant, Mapped, Raw
<1>. QED
  BY <1>1, <1>2, <1>3, <1>4, FlushKeepsInvariant

LEMMA InitKeepsInvariant ==
  ASSUME StitchInvariant, NEW p, NEW q, Receives(p, q), StepInit(q)
  PROVE  StitchInvariant'
<1>. DEFINE a == [major_adjustment EXCEPT !.valid = FALSE]
<1>1. /\ ssp_state = "INIT" /\ major_adjustment \in Homography
      /\ a \in Homography /\ ~a.valid /\ misled \in BOOLEAN
      /\ glitch_frame_count \in Nat /\ min_shot_size_counter \in Int
  BY DEF StitchInvariant, TypeOK, StepInit, Homography
<1>2. /\ flush_queue(q, a) /\ misled' = misled /\ params.enabled
      /\ major_adjustment' = a
      /\ ssp_state' = IF q[Len(q)].usable THEN "STEADY_STATE" ELSE "INIT"
      /\ glitch_frame_count' = glitch_frame_count
      /\ min_shot_size_counter' = min_shot_size_counter
  BY DEF StepInit
<1>3. ~misled => RightlyGiven(q, a)
  BY <1>1, FirstRightlyGiven
<1>4. ReferenceInvariant'
  <2>1. /\ output' # << >> /\ LastOutput' = Adjusted(p, a)
        /\ anchor'.valid <=> (p.usable /\ ~p.h.new)
        /\ anchor'.valid => anchor'.packet = p
    BY <1>1, <1>2, <1>3, QueueFlushed
  <2>2. /\ p \in Packet /\ Raw(p) /\ q[Len(q)] = p
        /\ upstream'.reference = IF p.usable THEN p.h.dest ELSE 0
    BY Received
  <2>3. LastOutput' = p
    BY <1>1, <2>1, <2>2, AdjustedType
  <2>4. p.usable => Mapped(p)
    BY <2>2 DEF Mapped, Raw
  <2>5. anchor'.valid => AnchorHolds'
    BY <1>1, <1>2, <2>1, <2>2, <2>3 DEF AnchorHolds
  <2>. QED
    BY <1>1, <1>2, <2>1, <2>2, <2>3, <2>4, <2>5 DEF ReferenceInvariant
<1>. QED
  BY <1>1, <1>2, <1>3, <1>4, FlushKeepsInvariant

LEMMA SteadyKeepsInvariant ==
  ASSUME StitchInvariant, NEW p, NEW q, Receives(p, q), StepSteady(q),
         Continues(p)
  PROVE  StitchInvariant'
<1>. DEFINE a == major_adjustment
<1>1. /\ ssp_state = "STEADY_STATE" /\ a \in Homography /\ misled \in BOOLEAN
      /\ glitch_frame_count \in Nat /\ min_shot_size_counter \in Int
      /\ status # "FAILURE" /\ params.enabled
  BY DEF StitchInvariant, TypeOK, StepSteady, Receives
<1>2. /\ p \in Packet /\ Raw(p) /\ q[Len(q)] = p
      /\ p.h.dest = upstream.reference
      /\ upstream'.reference = p.h.dest
      /\ p.usable /\ p.h.valid /\ ~p.h.new /\ p.h.exact
  BY Received DEF Continues, Raw
<1>3. /\ flush_queue(q, a) /\ misled' = misled /\ ssp_state' = ssp_state
      /\ major_adjustment' = a
      /\ glitch_frame_count' = glitch_frame_count
      /\ min_shot_size_counter' = min_shot_size_counter
  BY <1>2 DEF StepSteady
<1>4. Len(q) = 1 /\ q[1] = p /\ output # << >>
  <2>1. data_queue = << >> /\ output # << >>
    BY <1>1 DEF StitchInvariant, QueueInvariant
  <2>. QED
    BY <2>1, Received
<1>5. ASSUME ~misled
      PROVE  /\ Mapped(LastOutput)
             /\ Adjusted(p, a).h.exact /\ Mapped(Adjusted(p, a))
             /\ Adjusted(p, a).h.dest = LastOutput.h.dest
             /\ Adjusted(p, a).h.dest = IF a.valid THEN a.dest ELSE p.h.dest
             /\ a.valid => a.exact /\ a.source = p.h.dest
  <2>1. /\ Mapped(LastOutput)
        /\ anchor.valid => AnchorHolds
        /\ ~anchor.valid => ~a.valid
        /\ upstream.reference = IF anchor.valid THEN anchor.packet.h.dest
                                ELSE LastOutput.h.dest
    BY <1>1, <1>5 DEF StitchInvariant, ReferenceInvariant
  <2>2. CASE a.valid
    <3>1. /\ LastOutput.h.dest = a.dest /\ a.exact /\ a.source = p.h.dest
      BY <1>2, <2>1, <2>2 DEF AnchorHolds
    <3>2. /\ Adjusted(p, a).h = Product(a, p.h)
          /\ Adjusted(p, a).usable
      BY <1>1, <1>2, <2>2, AdjustedType
    <3>3. p.h \in Homography
      BY <1>2 DEF Packet
    <3>4. /\ Product(a, p.h).valid /\ Product(a, p.h).exact
          /\ Product(a, p.h).dest = a.dest
      BY <1>1, <1>2, <2>2, <3>1, <3>3, ProductType
    <3>. QED
      BY <1>2, <2>1, <2>2, <3>1, <3>2, <3>4 DEF Mapped
  <2>3. CASE ~a.valid
    <3>1. Adjusted(p, a) = p
      BY <1>1, <1>2, <2>3, AdjustedType
    <3>2. LastOutput.h.dest = p.h.dest
      BY <1>2, <2>1, <2>3 DEF AnchorHolds
    <3>. QED
      BY <1>2, <2>1, <2>3, <3>1, <3>2 DEF Mapped
  <2>. QED
    BY <2>2, <2>3
<1>6. ~misled => RightlyGiven(q, a)
  BY <1>4, <1>5 DEF RightlyGiven, Follows
<1>7. /\ output' # << >> /\ LastOutput' = Adjusted(p, a)
      /\ anchor'.valid /\ anchor'.packet = p
  BY <1>1, <1>2, <1>3, <1>6, QueueFlushed
<1>8. ReferenceInvariant'
  <2>. SUFFICES ASSUME ~misled
                PROVE  /\ Mapped(LastOutput') /\ anchor'.valid
                       /\ AnchorHolds'
                       /\ upstream'.reference = anchor'.packet.h.dest
    BY <1>1, <1>3 DEF ReferenceInvariant
  <2>1. AnchorHolds'
    BY <1>2, <1>3, <1>5, <1>7 DEF AnchorHolds
  <2>. QED
    BY <1>2, <1>5, <1>7, <2>1
<1>. QED
  BY <1>1, <1>3, <1>6, <1>8, FlushKeepsInvariant

(* A frame that does not continue a shot: the glitch is given up, or goes  *)
(* on with one frame more.                                                 *)
LEMMA GiveUpKeepsInvariant ==
  ASSUME StitchInvariant, NEW p, NEW q, Receives(p, q), ~Continues(p),
         params.enabled, flush_queue(q, major_adjustment), GivesUp(q),
         ssp_state' = "INIT", major_adjustment' = major_adjustment,
         glitch_frame_count' \in Nat, min_shot_size_counter' \in Int
  PROVE  StitchInvariant'
<1>. DEFINE a == major_adjustment
<1>1. a \in Homography /\ misled \in BOOLEAN
  BY DEF StitchInvariant, TypeOK
<1>2. /\ misled' \in BOOLEAN
      /\ misled => misled'
      /\ ~misled' /\ a.valid =>
           \A i \in 1 .. Len(q) : ~(q[i].usable /\ q[i].h.new)
  BY <1>1 DEF GivesUp, Homography
<1>3. /\ p \in Packet /\ Raw(p) /\ q[Len(q)] = p /\ Len(q) > 0
      /\ Len(q) \in Nat
      /\ ShotsWhole(q) /\ \A i \in 1 .. Len(q) : Raw(q[i])
      /\ upstream'.reference = IF p.usable THEN p.h.dest ELSE 0
      /\ q \in Seq(Packet)
  BY Received DEF Receives
<1>4. ~misled' => RightlyGiven(q, a)
  BY <1>1, <1>2, <1>3, GlitchRightlyGiven
<1>5. output' # << >> /\ LastOutput' = Adjusted(p, a)
  BY <1>1, <1>2, <1>4, QueueFlushed
<1>6. ReferenceInvariant'
  <2>. SUFFICES ASSUME ~misled', p.usable
                PROVE  /\ Mapped(LastOutput')
                       /\ LastOutput'.h.dest = upstream'.reference
                       /\ ~a.valid
    BY <1>3, <1>5 DEF ReferenceInvariant
  <2>1. p.h.valid /\ p.h.new
    BY <1>3 DEF Continues, Raw
  <2>2. Len(q) \in 1 .. Len(q)
    BY <1>3
  <2>3. ~a.valid
    BY <1>2, <1>3, <2>1, <2>2
  <2>4. Adjusted(p, a) = p
    BY <1>1, <1>3, <2>3, AdjustedType
  <2>. QED
    BY <1>3, <1>5, <2>1, <2>3, <2>4 DEF Mapped
<1>. QED
  BY <1>1, <1>2, <1>4, <1>6, FlushKeepsInvariant

LEMMA Sizes ==
  ASSUME StitchInvariant
  PROVE  /\ params.min_shot_size \in Nat /\ ShotSize \in Nat /\ ShotSize > 0
         /\ params.max_n_glitch_frames # NoLimit =>
              params.max_n_glitch_frames \in Nat
         /\ glitch_frame_count \in Nat /\ min_shot_size_counter \in Int
         /\ Len(data_queue) \in Nat
<1>1. /\ params \in [enabled : EnabledChoices, max_n_glitch_frames : FrameLimits,
                     max_n_glitch_seconds : SecondLimits, min_shot_size : ShotSizes]
      /\ glitch_frame_count \in Nat /\ min_shot_size_counter \in Int
      /\ data_queue \in Seq(Packet)
  BY DEF StitchInvariant, TypeOK
<1>2. /\ params.min_shot_size \in Nat
      /\ params.max_n_glitch_frames \in Nat \cup {NoLimit}
  BY <1>1, StitchingAssumption
<1>. QED
  BY <1>1, <1>2 DEF ShotSize

LEMMA RecordKeepsInvariant ==
  ASSUME StitchInvariant, NEW p, NEW q, Receives(p, q), ~Continues(p),
         params.enabled, ssp_state # "INIT",
         NEW count \in Nat, record_glitch_frame(q, count),
         IF data_queue = << >> THEN count = 0 ELSE count = glitch_frame_count
  PROVE  StitchInvariant'
<1>. DEFINE L == Len(data_queue)
<1>. DEFINE m == params.min_shot_size
<1>1. /\ q[Len(q)] = p /\ Len(q) = L + 1 /\ q # << >>
      /\ L \in Nat /\ m \in Nat /\ ShotSize \in Nat
      /\ params' = params
  BY Received, Sizes
<1>2. /\ glitch_frame_count' = count + 1 /\ min_shot_size_counter' = m
      /\ major_adjustment' = major_adjustment
      /\ glitch_frame_count' \in Nat /\ min_shot_size_counter' \in Int
  BY <1>1 DEF record_glitch_frame
<1>3. CASE TimedOut(count + 1, q[Len(q)])
  <2>1. ssp_state' = "INIT" /\ flush_queue(q, major_adjustment) /\ GivesUp(q)
    BY <1>3 DEF record_glitch_frame
  <2>. QED
    BY <1>2, <2>1, GiveUpKeepsInvariant
<1>4. CASE ~TimedOut(count + 1, q[Len(q)])
  <2>1. ssp_state' = "WITHIN_GLITCH" /\ Buffer(q) /\ misled' = misled
    BY <1>4 DEF record_glitch_frame
  <2>2. ShotSize' = ShotSize /\ params'.min_shot_size = m
    BY <1>1 DEF ShotSize
  <2>3. params.max_n_glitch_frames # NoLimit =>
          count + 1 <= params.max_n_glitch_frames
    BY <1>4, Sizes DEF TimedOut
  <2>4. L + 1 <= count * ShotSize + 1
    <3>1. CASE data_queue = << >>
      <4>1. L = 0 /\ count = 0
        BY <3>1
      <4>. QED
        BY <1>1, <4>1
    <3>2. CASE data_queue # << >>
      <4>1. /\ count = glitch_frame_count /\ count > 0
            /\ min_shot_size_counter \in 0 .. m
            /\ m > 0 => min_shot_size_counter > 0
            /\ L <= (count - 1) * ShotSize + 1 + m - min_shot_size_counter
        BY <3>2 DEF StitchInvariant, BufferInvariant
      <4>2. 1 + m - min_shot_size_counter <= ShotSize
        BY <1>1, <4>1 DEF ShotSize
      <4>3. (count - 1) * ShotSize \in Int /\ count * ShotSize \in Int
        BY <1>1
      <4>4. (count - 1) * ShotSize + ShotSize = count * ShotSize
        BY <1>1
      <4>. QED
        BY <1>1, <4>1, <4>2, <4>3, <4>4
    <3>. QED
      BY <3>1, <3>2
  <2>5. BufferInvariant'
    <3>1. data_queue' = q
      BY <2>1 DEF Buffer
    <3>2. (glitch_frame_count' - 1) * ShotSize' = count * ShotSize
      BY <1>1, <1>2, <2>2
    <3>3. count * ShotSize \in Int
      BY <1>1
    <3>4. Len(q) <= count * ShotSize + 1 + m - m
      BY <1>1, <2>4, <3>3
    <3>. QED
      BY <1>1, <1>2, <2>2, <2>3, <3>1, <3>2, <3>4 DEF BufferInvariant
  <2>. QED
    BY <1>2, <2>1, <2>5, KeepingKeepsInvariant
<1>. QED
  BY <1>3, <1>4

(* A frame that continues what may be a new shot, and is not enough.       *)
LEMMA ShortShotKeepsInvariant ==
  ASSUME StitchInvariant, NEW p, NEW q, Receives(p, q), StepNewShot(q),
         min_shot_size_counter - 1 > 0
  PROVE  StitchInvariant'
<1>. DEFINE L == Len(data_queue)
<1>. DEFINE m == params.min_shot_size
<1>1. /\ Len(q) = L + 1 /\ L \in Nat /\ m \in Nat /\ ShotSize \in Nat
      /\ params' = params
      /\ glitch_frame_count \in Nat /\ min_shot_size_counter \in Int
  BY Received, Sizes
<1>2. /\ min_shot_size_counter' = min_shot_size_counter - 1
      /\ glitch_frame_count' = glitch_frame_count /\ Buffer(q)
      /\ ssp_state' = ssp_state /\ major_adjustment' = major_adjustment
      /\ misled' = misled
      /\ params.enabled /\ ssp_state = "WITHIN_GLITCH" /\ status # "FAILURE"
  BY DEF StepNewShot, Receives
<1>3. data_queue # << >>
  BY <1>2 DEF StitchInvariant, QueueInvariant
<1>4. BufferInvariant'
  <2>1. /\ data_queue' = q /\ ShotSize' = ShotSize
    BY <1>1, <1>2 DEF Buffer, ShotSize
  <2>2. /\ min_shot_size_counter \in 0 .. m
        /\ glitch_frame_count > 0
        /\ params.max_n_glitch_frames # NoLimit =>
             glitch_frame_count <= params.max_n_glitch_frames
        /\ L <= (glitch_frame_count - 1) * ShotSize + 1
                  + m - min_shot_size_counter
    BY <1>3 DEF StitchInvariant, BufferInvariant
  <2>3. (glitch_frame_count - 1) * ShotSize \in Int
    BY <1>1
  <2>4. Len(q) <= (glitch_frame_count - 1) * ShotSize + 1
                    + m - (min_shot_size_counter - 1)
    BY <1>1, <2>2, <2>3
  <2>5. /\ min_shot_size_counter - 1 \in 0 .. m
        /\ min_shot_size_counter - 1 > 0
    BY <1>1, <2>2
  <2>. QED
    BY <1>1, <1>2, <2>1, <2>2, <2>4, <2>5 DEF BufferInvariant
<1>5. glitch_frame_count' \in Nat /\ min_shot_size_counter' \in Int
  BY <1>1, <1>2
<1>. QED
  BY <1>2, <1>3, <1>4, <1>5, KeepingKeepsInvariant

(***************************************************************************)
(* A shot has begun.  What is dropped, if the two can be joined, ends at   *)
(* the frame k that began it, which is then mapped to the reference of the *)
(* last frame given.                                                       *)
(***************************************************************************)
Leads(a, r) == a = AdjustmentAfter(r)

LEMMA Stitched ==
  ASSUME StitchInvariant, NEW p, NEW q, Receives(p, q), Continues(p),
         ssp_state = "WITHIN_GLITCH", ~misled, anchor.valid,
         NEW k \in 1 .. Len(q) - 1, BegunBy(q, k, Len(q)),
         NEW s \in Seq(Packet), Len(s) = Len(q) - k + 1,
         \A i \in 1 .. Len(s) : s[i] = q[k + i - 1],
         NEW a \in Homography, Leads(a, q[k])
  PROVE  /\ a.valid /\ a.exact /\ a.source = p.h.dest
         /\ a.dest = LastOutput.h.dest /\ Mapped(LastOutput)
         /\ Mapped(Adjusted(p, a)) /\ Adjusted(p, a).h.dest = a.dest
         /\ RightlyGiven(s, a)
         /\ Bridges(LastOutput, Adjusted(s[1], a))
<1>. DEFINE ref == anchor.packet.h
<1>. DEFINE c == CurrentToAnchor(q[k])
<1>1. /\ q \in Seq(Packet) /\ Len(q) \in Nat /\ k \in 1 .. Len(q)
      /\ Len(q) \in k + 1 .. Len(q) /\ q[Len(q)] = p
      /\ \A i \in 1 .. Len(q) : q[i] \in Packet
      /\ \A i \in 1 .. Len(q) : Raw(q[i])
  <2>1. q \in Seq(Packet)
    BY DEF Receives
  <2>2. /\ Len(q) \in Nat /\ q[Len(q)] = p
        /\ \A i \in 1 .. Len(q) : Raw(q[i])
    BY Received
  <2>3. \A i \in 1 .. Len(q) : q[i] \in Packet
    BY <2>1
  <2>4. k \in 1 .. Len(q) /\ Len(q) \in k + 1 .. Len(q)
    BY <2>2
  <2>. QED
    BY <2>1, <2>2, <2>3, <2>4
<1>2. /\ q[k].usable /\ q[k].h.new /\ q[k].h.valid /\ q[k].h.exact
      /\ q[k].h.source = q[k].frame /\ q[k].h.dest = q[k].frame
      /\ q[k] \in Packet /\ q[k].h \in Homography
  <2>1. q[k] \in Packet /\ Raw(q[k]) /\ q[k].usable /\ q[k].h.new
    BY <1>1 DEF BegunBy
  <2>. QED
    BY <2>1 DEF Raw, Packet
<1>3. \A i \in k + 1 .. Len(q) :
        /\ q[i].usable /\ q[i].h.valid /\ q[i].h.exact
        /\ q[i].h.dest = q[k].h.dest
  BY <1>1 DEF BegunBy, Continues, Raw
<1>4. /\ Mapped(LastOutput) /\ AnchorHolds
  BY DEF StitchInvariant, ReferenceInvariant, Receives
<1>5. /\ anchor.packet \in Packet /\ ref \in Homography
      /\ major_adjustment \in Homography
      /\ ref.valid /\ ref.exact /\ ref.source = anchor.packet.frame
  <2>1. anchor.packet \in Packet /\ major_adjustment \in Homography
    BY DEF StitchInvariant, TypeOK
  <2>. QED
    BY <1>4, <2>1 DEF AnchorHolds, Raw, Packet
<1>6. /\ c \in Homography /\ c.valid /\ c.exact /\ c.source = q[k].h.source
      /\ c.dest = anchor.packet.frame
  <2>1. anchor.packet.frame \in Nat /\ q[k].h.source \in Nat
    BY <1>2, <1>5 DEF Packet, Homography
  <2>. QED
    BY <2>1 DEF CurrentToAnchor, Homography
<1>7. /\ Product(ref, c) \in Homography /\ Product(ref, c).valid
      /\ Product(ref, c).exact /\ Product(ref, c).source = q[k].h.dest
      /\ Product(ref, c).dest = ref.dest
  BY <1>2, <1>5, <1>6, ProductType
<1>8. a.valid /\ a.exact /\ a.source = q[k].h.dest /\ a.dest = LastOutput.h.dest
  <2>1. CASE major_adjustment.valid
    <3>1. /\ a = Product(major_adjustment, Product(ref, c))
          /\ major_adjustment.exact /\ major_adjustment.source = ref.dest
          /\ LastOutput.h.dest = major_adjustment.dest
      BY <1>4, <2>1 DEF Leads, AdjustmentAfter, AnchorHolds
    <3>. QED
      BY <1>5, <1>7, <2>1, <3>1, ProductType
  <2>2. CASE ~major_adjustment.valid
    <3>1. a = Product(ref, c) /\ LastOutput.h.dest = ref.dest
      BY <1>4, <2>2 DEF Leads, AdjustmentAfter, AnchorHolds
    <3>. QED
      BY <1>7, <3>1
  <2>. QED
    BY <2>1, <2>2
<1>9. \A i \in k .. Len(q) :
        /\ Mapped(Adjusted(q[i], a)) /\ Adjusted(q[i], a).h.exact
        /\ Adjusted(q[i], a).h.dest = a.dest /\ ~Adjusted(q[i], a).h.new
  <2>. SUFFICES ASSUME NEW i \in k .. Len(q)
                PROVE  /\ Mapped(Adjusted(q[i], a)) /\ Adjusted(q[i], a).h.exact
                       /\ Adjusted(q[i], a).h.dest = a.dest
                       /\ ~Adjusted(q[i], a).h.new
    OBVIOUS
  <2>1. i = k \/ i \in k + 1 .. Len(q)
    BY <1>1
  <2>2. i \in 1 .. Len(q)
    BY <1>1
  <2>3. q[i].usable /\ q[i].h.valid /\ q[i].h.exact /\ q[i].h.dest = q[k].h.dest
    BY <1>2, <1>3, <2>1
  <2>4. q[i] \in Packet /\ q[i].h \in Homography
    <3>1. q[i] \in Packet
      BY <1>1, <2>2
    <3>. QED
      BY <3>1 DEF Packet
  <2>5. Adjusted(q[i], a).h = Product(a, q[i].h) /\ Adjusted(q[i], a).usable
    BY <1>8, <2>3, <2>4, AdjustedType
  <2>6. /\ Product(a, q[i].h).valid /\ Product(a, q[i].h).exact
        /\ Product(a, q[i].h).dest = a.dest /\ ~Product(a, q[i].h).new
    BY <1>8, <2>3, <2>4, ProductType
  <2>. QED
    BY <2>5, <2>6 DEF Mapped
<1>10. Len(s) = Len(q) - k + 1 /\ \A i \in 1 .. Len(s) : s[i] = q[k + i - 1]
  OBVIOUS
<1>11. \A i \in 1 .. Len(s) :
         /\ Mapped(Adjusted(s[i], a)) /\ Adjusted(s[i], a).h.exact
         /\ Adjusted(s[i], a).h.dest = a.dest /\ ~Adjusted(s[i], a).h.new
  <2>1. \A i \in 1 .. Len(s) : k + i - 1 \in k .. Len(q)
    BY <1>1, <1>10
  <2>. QED
    BY <1>9, <1>10, <2>1
<1>12. 1 \in 1 .. Len(s) /\ \A i \in 1 .. Len(s) : i > 1 => i - 1 \in 1 .. Len(s)
  BY <1>1, <1>10
<1>13. RightlyGiven(s, a)
  <2>1. output # << >>
    BY DEF StitchInvariant, QueueInvariant
  <2>. QED
    BY <1>4, <1>8, <1>11, <1>12, <2>1 DEF RightlyGiven, Follows
<1>14. Bridges(LastOutput, Adjusted(s[1], a))
  BY <1>4, <1>8, <1>11, <1>12 DEF Bridges
<1>15. p.h.dest = q[k].h.dest /\ Len(q) \in k .. Len(q)
  BY <1>1, <1>3
<1>. QED
  BY <1>1, <1>4, <1>8, <1>9, <1>13, <1>14, <1>15

LEMMA NewShotKeepsInvariant ==
  ASSUME StitchInvariant, NEW p, NEW q, Receives(p, q), StepNewShot(q),
         ~(min_shot_size_counter - 1 > 0)
  PROVE  StitchInvariant'
<1>1. /\ ssp_state = "WITHIN_GLITCH" /\ status # "FAILURE" /\ params.enabled
      /\ Continues(p) /\ q[Len(q)] = p /\ Len(q) > 0 /\ Len(q) \in Nat
      /\ p \in Packet /\ Raw(p)
      /\ min_shot_size_counter' = min_shot_size_counter - 1
      /\ glitch_frame_count' = glitch_frame_count
      /\ upstream'.reference = p.h.dest
  BY Received DEF StepNewShot, Receives, Continues
<1>2. PICK works \in BOOLEAN :
        /\ ssp_state' = "STEADY_STATE"
        /\ major_adjustment' = attempt_stitching(q, works).adjustment
        /\ flush_queue(attempt_stitching(q, works).queue,
                       attempt_stitching(q, works).adjustment)
        /\ MeetsOldAnchor(q, works)
  BY DEF StepNewShot
<1>. DEFINE s == attempt_stitching(q, works).queue
<1>. DEFINE a == attempt_stitching(q, works).adjustment
<1>3. q \in Seq(Packet) /\ TypeOK /\ data_queue # << >> /\ output # << >>
  BY <1>1 DEF StitchInvariant, QueueInvariant, Receives
<1>4. ShotsWhole(q)
  BY <1>3, Received
<1>5. PICK k \in 1 .. Len(q) - 1 : BegunBy(q, k, Len(q))
  <2>1. Len(q) \in 1 .. Len(q)
    BY <1>1
  <2>. QED
    BY <1>1, <1>4, <2>1 DEF ShotsWhole
<1>6. k \in 1 .. Len(q) /\ HasNew(q) /\ LastNew(q) = k
  <2>1. k \in 1 .. Len(q)
    BY <1>1
  <2>2. q[k].h.new /\ \A j \in k + 1 .. Len(q) : ~q[j].h.new
    BY <1>5 DEF BegunBy, Continues
  <2>. QED
    BY <1>3, <2>1, <2>2, LastNewIn
<1>7. s \in Seq(Packet) /\ Len(s) > 0 /\ a \in Homography
  BY <1>1, <1>3, <1>6, StitchTyped
<1>8. PortsTyped'
  BY <1>2, <1>3, <1>7, FlushTyped
<1>9. misled' = (misled \/ (works /\ ~anchor.valid)) /\ misled \in BOOLEAN
  BY <1>2, <1>6 DEF MeetsOldAnchor, StitchInvariant, TypeOK
<1>10. /\ glitch_frame_count' \in Nat /\ min_shot_size_counter' \in Int
       /\ major_adjustment' = a
  BY <1>1, <1>2, Sizes
<1>11. /\ data_queue' = << >> /\ output' = output \o AllAdjusted(s, a)
       /\ anchor' = AnchorAfter(s[Len(s)]) /\ status' = "SUCCESS"
       /\ flush_queue(s, a)
  BY <1>2 DEF flush_queue
<1>. HIDE DEF s, a
<1>12. CASE ~works
  <2>1. s = q /\ a = [major_adjustment EXCEPT !.valid = FALSE]
    BY <1>6, <1>12 DEF attempt_stitching, s, a
  <2>2. ~a.valid
    BY <1>3, <2>1 DEF TypeOK, Homography
  <2>3. RightlyGiven(q, a)
    BY <1>3, <1>4, <1>7, <2>2, Received, GlitchRightlyGiven
  <2>4. misled' = misled /\ misled' \in BOOLEAN
    BY <1>9, <1>12
  <2>5. flush_queue(q, a)
    BY <1>11, <2>1
  <2>6. /\ LastOutput' = Adjusted(p, a)
        /\ anchor'.valid /\ anchor'.packet = p
    BY <1>1, <1>7, <2>3, <2>4, <2>5, QueueFlushed DEF Continues
  <2>7. LastOutput' = p
    BY <1>1, <1>7, <2>2, <2>6, AdjustedType
  <2>8. AnchorHolds'
    BY <1>1, <1>10, <2>2, <2>6, <2>7 DEF AnchorHolds, Continues
  <2>9. ReferenceInvariant'
    BY <1>1, <1>2, <1>10, <2>6, <2>7, <2>8 DEF ReferenceInvariant, Mapped, Continues
  <2>. QED
    BY <1>1, <1>2, <1>7, <1>10, <2>3, <2>4, <2>5, <2>9, FlushKeepsInvariant
<1>13. CASE works
  <2>1. s = SubSeq(q, k, Len(q)) /\ a = AdjustmentAfter(q[k])
    BY <1>6, <1>13 DEF attempt_stitching, s, a
  <2>2. /\ Len(s) = Len(q) - k + 1 /\ s[Len(s)] = p
        /\ \A i \in 1 .. Len(s) : s[i] = q[k + i - 1]
    <3>1. \A i \in k .. Len(q) : q[i] \in Packet
      BY <1>3, <1>6
    <3>2. k \in Int /\ Len(q) \in Int /\ k <= Len(q)
      BY <1>1, <1>6
    <3>3. /\ Len(s) = Len(q) - k + 1
          /\ \A i \in 1 .. Len(s) : s[i] = q[k + i - 1]
      BY <2>1, <3>1, <3>2, SubSeqProperties
    <3>4. Len(s) \in 1 .. Len(s) /\ k + Len(s) - 1 = Len(q)
      BY <3>2, <3>3
    <3>. QED
      BY <1>1, <3>3, <3>4
  <2>3. misled => misled'
    BY <1>9
  <2>4. misled' \in BOOLEAN
    BY <1>9
  <2>5. ASSUME ~misled'
        PROVE  /\ a.valid /\ a.exact /\ a.source = p.h.dest
               /\ a.dest = LastOutput.h.dest /\ Mapped(LastOutput)
               /\ Mapped(Adjusted(p, a)) /\ Adjusted(p, a).h.dest = a.dest
               /\ RightlyGiven(s, a)
               /\ Bridges(LastOutput, Adjusted(s[1], a))
    <3>1. ~misled /\ anchor.valid
      BY <1>9, <1>13, <2>5
    <3>2. Continues(p) /\ ssp_state = "WITHIN_GLITCH"
      BY <1>1
    <3>3. k \in 1 .. Len(q) - 1 /\ BegunBy(q, k, Len(q))
      BY <1>5
    <3>4. /\ s \in Seq(Packet) /\ Len(s) = Len(q) - k + 1
          /\ \A i \in 1 .. Len(s) : s[i] = q[k + i - 1]
      BY <1>7, <2>2
    <3>5. a \in Homography /\ Leads(a, q[k])
      BY <1>7, <2>1 DEF Leads
    <3>. QED
      BY <3>1, <3>2, <3>3, <3>4, <3>5, Stitched
  <2>6. \A i \in 1 .. Len(s) : s[i].frame = frame' - Len(s) + i
    <3>1. \A i \in 1 .. Len(q) : q[i].frame = frame' - Len(q) + i
      BY Received
    <3>. SUFFICES ASSUME NEW i \in 1 .. Len(s)
                  PROVE  s[i].frame = frame' - Len(s) + i
      OBVIOUS
    <3>2. frame' \in Nat
      BY Received
    <3>3. k + i - 1 \in 1 .. Len(q)
      BY <1>1, <1>6, <2>2
    <3>4. s[i].frame = frame' - Len(q) + (k + i - 1)
      BY <2>2, <3>1, <3>3
    <3>. QED
      BY <1>1, <1>6, <2>2, <3>2, <3>4
  <2>7. Joins(LastOutput, Adjusted(s[1], a), misled')
    <3>1. 1 \in 1 .. Len(s) /\ 1 \in 1 .. Len(q)
      BY <1>1, <1>7
    <3>2. q[1] \in Packet /\ q[k] \in Packet /\ s[1] = q[k]
      BY <1>3, <1>6, <2>2, <3>1
    <3>3. /\ q[k].frame = frame' - Len(q) + k /\ q[1].frame = frame' - Len(q) + 1
          /\ frame' \in Nat
      BY <1>6, <3>1, Received
    <3>4. /\ Adjusted(q[1], a).frame = q[1].frame
          /\ Adjusted(q[k], a).frame = q[k].frame
      BY <1>7, <3>2, AdjustedType
    <3>5. Joins(LastOutput, Adjusted(q[1], a), misled')
      BY <1>3, <1>7, NextInLine
    <3>6. CASE k = 1
      BY <3>2, <3>5, <3>6
    <3>7. CASE k # 1
      <4>1. LastOutput.frame \in Nat
        <5>1. output \in Seq(Packet) /\ Len(output) \in 1 .. Len(output)
          BY <1>3 DEF TypeOK
        <5>2. LastOutput \in Packet
          BY <5>1 DEF LastOutput
        <5>. QED
          BY <5>2 DEF Packet
      <4>2. q[k].frame > q[1].frame /\ q[1].frame \in Int /\ q[k].frame \in Int
        BY <1>1, <1>6, <3>3, <3>7
      <4>3. q[1].frame >= LastOutput.frame + 1
        BY <3>4, <3>5, <4>1, <4>2 DEF Joins
      <4>4. q[k].frame > LastOutput.frame + 1
        BY <4>1, <4>2, <4>3
      <4>. QED
        BY <2>5, <3>2, <3>4, <4>4 DEF Joins
    <3>. QED
      BY <3>6, <3>7
  <2>8. /\ ReferencesKept' /\ GapsAreBridged'
        /\ output' # << >> /\ LastOutput' = Adjusted(p, a)
    <3>1. s # << >> /\ frame' \in Nat
      BY <1>7, Received
    <3>2. ReferencesKept /\ GapsAreBridged
      BY DEF StitchInvariant
    <3>3. ~misled' => RightlyGiven(s, a)
      BY <2>5
    <3>4. output # << >> => Joins(LastOutput, Adjusted(s[1], a), misled')
      BY <2>7
    <3>. QED
      BY <1>3, <1>7, <1>11, <2>2, <2>3, <2>4, <2>6, <3>1, <3>2, <3>3, <3>4, OutputGrows
  <2>9. anchor' = [valid |-> TRUE, packet |-> p]
    BY <1>1, <1>11, <2>2 DEF AnchorAfter, Continues
  <2>10. ReferenceInvariant'
    <3>. SUFFICES ASSUME ~misled'
                  PROVE  /\ Mapped(LastOutput') /\ anchor'.valid
                         /\ AnchorHolds'
                         /\ upstream'.reference = anchor'.packet.h.dest
      BY <1>2 DEF ReferenceInvariant
    <3>1. AnchorHolds'
      BY <1>1, <1>10, <2>5, <2>8, <2>9 DEF AnchorHolds, Continues
    <3>. QED
      BY <1>1, <2>5, <2>8, <2>9, <3>1
  <2>11. /\ params' = params /\ frame' \in Nat /\ run' \in Nat
         /\ upstream' \in [reference : Nat, new : BOOLEAN]
    BY Received
  <2>. QED
    BY <1>1, <1>2, <1>7, <1>8, <1>10, <1>11, <2>4, <2>8, <2>10, <2>11, EmptyQueue
<1>. QED
  BY <1>12, <1>13

(* A step with a frame, by the cases of step2().                           *)
LEMMA StepKeepsInvariant ==
  ASSUME StitchInvariant, Step
  PROVE  StitchInvariant'
<1>1. PICK p \in UsableFrames \cup UnusableFrames :
        /\ upstream' = [reference |-> IF p.usable THEN p.h.dest ELSE 0,
                        new |-> p.h.new]
        /\ \/ StepDisabled(Append(data_queue, p))
           \/ StepInit(Append(data_queue, p))
           \/ StepSteady(Append(data_queue, p))
           \/ StepGlitch(Append(data_queue, p))
           \/ StepNewShot(Append(data_queue, p))
  BY DEF Step
<1>. DEFINE q == Append(data_queue, p)
<1>2. p \in Packet /\ data_queue \in Seq(Packet)
  BY FromUpstream DEF StitchInvariant, TypeOK
<1>3. q \in Seq(Packet)
  BY <1>2
<1>4. Receives(p, q)
  BY <1>1, <1>3 DEF Receives, Step
<1>5. q[Len(q)] = p
  BY <1>4, Received
<1>. HIDE DEF q
<1>6. CASE StepDisabled(q)
  BY <1>4, <1>6, DisabledKeepsInvariant
<1>7. CASE StepInit(q)
  BY <1>4, <1>7, InitKeepsInvariant
<1>8. CASE StepSteady(q)
  <2>1. CASE Continues(p)
    BY <1>4, <1>8, <2>1, SteadyKeepsInvariant
  <2>2. CASE ~Continues(p)
    <3>1. /\ params.enabled /\ ssp_state = "STEADY_STATE"
          /\ record_glitch_frame(q, 0)
      BY <1>5, <1>8, <2>2 DEF StepSteady
    <3>2. data_queue = << >>
      BY <3>1 DEF StitchInvariant, QueueInvariant
    <3>. QED
      BY <1>4, <2>2, <3>1, <3>2, RecordKeepsInvariant
  <2>. QED
    BY <2>1, <2>2
<1>9. CASE StepGlitch(q)
  <2>1. /\ params.enabled /\ ssp_state = "WITHIN_GLITCH" /\ ~Continues(p)
        /\ record_glitch_frame(q, glitch_frame_count)
    BY <1>5, <1>9 DEF StepGlitch
  <2>2. data_queue # << >> /\ glitch_frame_count \in Nat
    BY <1>4, <2>1 DEF StitchInvariant, QueueInvariant, TypeOK, Receives
  <2>. QED
    BY <1>4, <2>1, <2>2, RecordKeepsInvariant
<1>10. CASE StepNewShot(q)
  BY <1>4, <1>10, ShortShotKeepsInvariant, NewShotKeepsInvariant
<1>. QED
  BY <1>1, <1>6, <1>7, <1>8, <1>9, <1>10 DEF q

LEMMA FailureKeepsInvariant ==
  ASSUME StitchInvariant, InputsFail
  PROVE  StitchInvariant'
<1>. DEFINE q == data_queue
<1>. DEFINE a == major_adjustment
<1>1. /\ TypeOK /\ QueueInvariant /\ ReferencesKept /\ GapsAreBridged
      /\ q \in Seq(Packet) /\ a \in Homography /\ pads \in Packet
      /\ misled \in BOOLEAN /\ frame \in Nat /\ output \in Seq(Packet)
      /\ anchor \in [valid : BOOLEAN, packet : Packet]
  BY DEF StitchInvariant, TypeOK
<1>2. /\ data_queue' = << >> /\ output' = output \o AllAdjusted(q, a)
      /\ GivesUp(q) /\ status' = "FAILURE"
      /\ params' = params /\ frame' = frame /\ run' = run
      /\ upstream' = upstream /\ ssp_state' = ssp_state
      /\ major_adjustment' = a /\ glitch_frame_count' = glitch_frame_count
      /\ min_shot_size_counter' = min_shot_size_counter
      /\ anchor' = AnchorAfter(pads) /\ pads' = Adjusted(pads, a)
  BY DEF InputsFail
<1>3. misled' \in BOOLEAN
  BY <1>1, <1>2 DEF GivesUp
<1>4. misled => misled'
  BY <1>1, <1>2 DEF GivesUp
<1>5. /\ ShotsWhole(q) /\ \A i \in 1 .. Len(q) : Raw(q[i])
      /\ \A i \in 1 .. Len(q) : q[i].frame = frame' - Len(q) + i
  BY <1>1, <1>2 DEF QueueInvariant
<1>6. ~misled' /\ a.valid => \A i \in 1 .. Len(q) : ~(q[i].usable /\ q[i].h.new)
  BY <1>1, <1>2 DEF GivesUp
<1>7. ~misled' => RightlyGiven(q, a)
  BY <1>1, <1>5, <1>6, GlitchRightlyGiven
<1>8. ASSUME output # << >>
      PROVE  LastOutput.frame \in Nat /\ LastOutput.frame + Len(q) = frame
  <2>1. Len(output) \in 1 .. Len(output)
    BY <1>1, <1>8
  <2>2. LastOutput \in Packet
    BY <1>1, <2>1 DEF LastOutput
  <2>3. LastOutput.frame + Len(q) = frame
    BY <1>1, <1>8 DEF GapsAreBridged, LastOutput
  <2>. QED
    BY <2>2, <2>3 DEF Packet
<1>9. q = << >> /\ output # << >> => LastOutput.frame = frame'
  BY <1>2, <1>8
<1>10. q # << >> /\ output # << >> =>
         Joins(LastOutput, Adjusted(q[1], a), misled')
  <2>. SUFFICES ASSUME q # << >>, output # << >>
                PROVE  Joins(LastOutput, Adjusted(q[1], a), misled')
    OBVIOUS
  <2>1. 1 \in 1 .. Len(q) /\ Len(q) \in Nat
    BY <1>1
  <2>2. q[1] \in Packet /\ q[1].frame = frame - Len(q) + 1
    BY <1>1, <1>2, <1>5, <2>1
  <2>3. q[1].frame = LastOutput.frame + 1
    BY <1>1, <1>8, <2>1, <2>2
  <2>4. Adjusted(q[1], a).frame = q[1].frame
    BY <1>1, <2>2, AdjustedType
  <2>. QED
    BY <2>3, <2>4 DEF Joins
<1>11. /\ output' \in Seq(Packet) /\ ReferencesKept' /\ GapsAreBridged'
       /\ output # << >> => output' # << >>
  <2>1. frame' \in Nat
    BY <1>1, <1>2
  <2>. QED
    BY <1>1, <1>2, <1>3, <1>4, <1>5, <1>7, <1>9, <1>10, <2>1, OutputGrows
<1>12. PortsTyped'
  <2>1. anchor' \in [valid : BOOLEAN, packet : Packet]
    BY <1>1, <1>2 DEF AnchorAfter
  <2>2. pads' \in Packet
    BY <1>1, <1>2, AdjustedType
  <2>. QED
    BY <1>2, <1>11, <2>1, <2>2 DEF PortsTyped
<1>13. ReferenceInvariant'
  BY <1>2 DEF ReferenceInvariant
<1>14. /\ frame' \in Nat /\ run' \in Nat
       /\ upstream' \in [reference : Nat, new : BOOLEAN]
       /\ ssp_state' \in {"INIT", "STEADY_STATE", "WITHIN_GLITCH"}
       /\ major_adjustment' \in Homography
       /\ glitch_frame_count' \in Nat /\ min_shot_size_counter' \in Int
  BY <1>1, <1>2 DEF TypeOK
<1>15. /\ ssp_state' # "INIT" => output' # << >>
       /\ ~params.enabled => ssp_state' = "INIT" /\ ~major_adjustment'.valid
  BY <1>1, <1>2, <1>11 DEF QueueInvariant
<1>. QED
  BY <1>2, <1>3, <1>11, <1>12, <1>13, <1>14, <1>15, EmptyQueue

LEMMA ResetKeepsInvariant ==
  ASSUME StitchInvariant, Reset
  PROVE  StitchInvariant'
<1>1. TypeOK /\ QueueInvariant
  BY DEF StitchInvariant
<1>2. /\ data_queue' = << >> /\ output' = << >> /\ misled' = FALSE
      /\ ssp_state' = "INIT" /\ glitch_frame_count' = 0 /\ run' = run + 1
      /\ upstream' = [reference |-> 0, new |-> FALSE] /\ status' = "SUCCESS"
      /\ anchor' = [anchor EXCEPT !.valid = FALSE] /\ params' = params
      /\ frame' = frame /\ major_adjustment' = major_adjustment
      /\ min_shot_size_counter' = min_shot_size_counter /\ pads' = pads
  BY DEF Reset
<1>3. PortsTyped'
  <2>1. /\ anchor \in [valid : BOOLEAN, packet : Packet] /\ pads \in Packet
    BY <1>1 DEF TypeOK
  <2>2. anchor' \in [valid : BOOLEAN, packet : Packet]
    BY <1>2, <2>1
  <2>3. data_queue' \in Seq(Packet) /\ output' \in Seq(Packet)
    BY <1>2
  <2>. QED
    BY <1>2, <2>1, <2>2, <2>3 DEF PortsTyped
<1>4. ReferencesKept' /\ GapsAreBridged' /\ ReferenceInvariant'
  <2>1. Len(output') = 0
    BY <1>2
  <2>. QED
    BY <1>2, <2>1 DEF ReferencesKept, Kept, GapsAreBridged, Bridged,
                     ReferenceInvariant
<1>5. /\ frame' \in Nat /\ run' \in Nat /\ misled' \in BOOLEAN
      /\ upstream' \in [reference : Nat, new : BOOLEAN]
      /\ ssp_state' \in {"INIT", "STEADY_STATE", "WITHIN_GLITCH"}
      /\ major_adjustment' \in Homography
      /\ glitch_frame_count' \in Nat /\ min_shot_size_counter' \in Int
  <2>1. /\ frame \in Nat /\ run \in Nat /\ major_adjustment \in Homography
        /\ min_shot_size_counter \in Int
    BY <1>1 DEF TypeOK
  <2>2. upstream' \in [reference : Nat, new : BOOLEAN]
    BY <1>2
  <2>3. misled' \in BOOLEAN
    BY <1>2
  <2>4. frame' \in Nat /\ run' \in Nat /\ glitch_frame_count' \in Nat
    BY <1>2, <2>1
  <2>5. major_adjustment' \in Homography /\ min_shot_size_counter' \in Int
    BY <1>2, <2>1
  <2>. QED
    BY <1>2, <2>2, <2>3, <2>4, <2>5
<1>6. /\ ssp_state' # "WITHIN_GLITCH"
      /\ ssp_state' # "INIT" => output' # << >>
      /\ ~params.enabled => ssp_state' = "INIT" /\ ~major_adjustment'.valid
  BY <1>1, <1>2 DEF QueueInvariant
<1>. QED
  BY <1>2, <1>3, <1>4, <1>5, <1>6, EmptyQueue

LEMMA InitInvariant ==
  ASSUME Init
  PROVE  StitchInvariant
<1>1. NoHomography \in Homography /\ ~NoHomography.valid
  BY DEF NoHomography, Homography
<1>2. NoPacket \in Packet
  BY <1>1 DEF NoPacket, Packet
<1>3. TypeOK
  <2>1. upstream \in [reference : Nat, new : BOOLEAN]
    BY DEF Init
  <2>2. anchor \in [valid : BOOLEAN, packet : Packet]
    BY <1>2 DEF Init
  <2>3. data_queue \in Seq(Packet) /\ output \in Seq(Packet)
    BY DEF Init
  <2>4. /\ frame \in Nat /\ run \in Nat /\ glitch_frame_count \in Nat
        /\ min_shot_size_counter \in Int
    BY DEF Init
  <2>5. misled \in BOOLEAN
    BY DEF Init
  <2>6. /\ major_adjustment \in Homography /\ pads \in Packet
        /\ ssp_state \in {"INIT", "STEADY_STATE", "WITHIN_GLITCH"}
        /\ status \in {"SUCCESS", "SKIP", "FAILURE"}
    BY <1>1, <1>2 DEF Init
  <2>7. params \in [enabled : EnabledChoices, max_n_glitch_frames : FrameLimits,
                    max_n_glitch_seconds : SecondLimits,
                    min_shot_size : ShotSizes]
    BY DEF Init
  <2>. QED
    BY <2>1, <2>2, <2>3, <2>4, <2>5, <2>6, <2>7 DEF TypeOK
<1>4. Len(data_queue) = 0 /\ Len(output) = 0 /\ ShotsWhole(data_queue)
  BY DEF Init, ShotsWhole
<1>5. QueueInvariant
  BY <1>1, <1>4 DEF Init, QueueInvariant
<1>6. ReferenceInvariant /\ BufferInvariant
  BY DEF Init, ReferenceInvariant, BufferInvariant
<1>7. ReferencesKept /\ GapsAreBridged
  BY <1>4 DEF Init, ReferencesKept, Kept, GapsAreBridged, Bridged
<1>. QED
  BY <1>3, <1>5, <1>6, <1>7 DEF StitchInvariant

(***************************************************************************)
(* The theorems.                                                           *)
(***************************************************************************)
THEOREM StitchInvariantHolds == Spec => []StitchInvariant
<1>1. StitchInvariant /\ [Next]_vars => StitchInvariant'
  <2>. SUFFICES ASSUME StitchInvariant, [Next]_vars PROVE StitchInvariant'
    OBVIOUS
  <2>1. CASE Step
    BY <2>1, StepKeepsInvariant
  <2>2. CASE InputsFail
    BY <2>2, FailureKeepsInvariant
  <2>3. CASE Reset
    BY <2>3, ResetKeepsInvariant
  <2>4. CASE UNCHANGED vars
    <3>1. LastOutput' = LastOutput /\ ShotSize' = ShotSize
      BY <2>4 DEF vars, LastOutput, ShotSize
    <3>2. AnchorHolds' <=> AnchorHolds
      BY <2>4, <3>1 DEF vars, AnchorHolds
    <3>3. TypeOK' /\ QueueInvariant' /\ BufferInvariant'
      BY <2>4, <3>1 DEF StitchInvariant, vars, TypeOK, QueueInvariant,
                       BufferInvariant
    <3>4. ReferenceInvariant'
      BY <2>4, <3>1, <3>2 DEF StitchInvariant, vars, ReferenceInvariant
    <3>5. ReferencesKept' /\ GapsAreBridged'
      BY <2>4 DEF StitchInvariant, vars, ReferencesKept, GapsAreBridged
    <3>. QED
      BY <3>3, <3>4, <3>5 DEF StitchInvariant
  <2>. QED
    BY <2>1, <2>2, <2>3, <2>4 DEF Next
<1>. QED
  BY InitInvariant, <1>1, PTL DEF Spec

(* The state of shot_stitching_process has the declared types.             *)
THEOREM StitchTypesHold == Spec => []TypeOK
<1>1. StitchInvariant => TypeOK
  BY DEF StitchInvariant
<1>. QED
  BY <1>1, StitchInvariantHolds, PTL

(* Whatever glitches step2() meets: a usable frame is given downstream     *)
(* with a homography that does map it to the reference it names, which is  *)
(* a new one only where the flag says so.                                  *)
THEOREM ReferencesAreKept == Spec => []ReferencesKept
<1>1. StitchInvariant => ReferencesKept
  BY DEF StitchInvariant
<1>. QED
  BY <1>1, StitchInvariantHolds, PTL

(* Frames leave flush_queue() in order, and those that are dropped by      *)
(* attempt_stitching() are between two that share a reference.             *)
THEOREM GapsBridged == Spec => []GapsAreBridged
<1>1. StitchInvariant => GapsAreBridged
  BY DEF StitchInvariant
<1>. QED
  BY <1>1, StitchInvariantHolds, PTL

(* With a limit on the frames of a glitch data_queue stays below that many *)
(* shots of the smallest size.                                             *)
THEOREM BufferIsBounded == Spec => []BufferBounded
<1>1. StitchInvariant => BufferBounded
  <2>. SUFFICES ASSUME StitchInvariant, params.max_n_glitch_frames # NoLimit
                PROVE  Len(data_queue) <= params.max_n_glitch_frames * ShotSize
    BY DEF BufferBounded, ShotSize
  <2>. DEFINE N == params.max_n_glitch_frames
  <2>. DEFINE L == Len(data_queue)
  <2>. DEFINE S == ShotSize
  <2>1. /\ params.min_shot_size \in Nat /\ S \in Nat /\ S > 0 /\ N \in Nat
        /\ glitch_frame_count \in Nat /\ min_shot_size_counter \in Int
        /\ L \in Nat
    BY Sizes
  <2>2. CASE data_queue = << >>
    <3>1. L = 0 /\ N * S \in Nat
      BY <2>1, <2>2
    <3>. QED
      BY <2>1, <3>1
  <2>3. CASE data_queue # << >>
    <3>1. /\ glitch_frame_count <= N /\ glitch_frame_count > 0
          /\ min_shot_size_counter \in 0 .. params.min_shot_size
          /\ params.min_shot_size > 0 => min_shot_size_counter > 0
          /\ L <= (glitch_frame_count - 1) * S + 1
                    + params.min_shot_size - min_shot_size_counter
      BY <2>3 DEF StitchInvariant, BufferInvariant
    <3>2. 1 + params.min_shot_size - min_shot_size_counter <= S
      BY <2>1, <3>1 DEF ShotSize
    <3>3. (glitch_frame_count - 1) * S + S = glitch_frame_count * S
      BY <2>1
    <3>4. /\ (glitch_frame_count - 1) * S \in Int
          /\ glitch_frame_count * S \in Int /\ N * S \in Int
      BY <2>1
    <3>5. glitch_frame_count * S <= N * S
      BY <2>1, <3>1
    <3>. QED
      BY <2>1, <3>1, <3>2, <3>3, <3>4, <3>5
  <2>. QED
    BY <2>2, <2>3
<1>. QED
  BY <1>1, StitchInvariantHolds, PTL
=============================================================================
