-------------------------- MODULE PerceptionProofs --------------------------
(***************************************************************************)
(* Theorems about PerceptionAdapter, for every set of markers and every    *)
(* frame count: its variables keep their types, its trigger fires at the   *)
(* frames that the README describes and at no others, and an adapter that  *)
(* leaves with the context up has asked for the cancel of a workflow it    *)
(* knew before its last turn of waiting.                                   *)
(***************************************************************************)
EXTENDS PerceptionAdapter, FiniteSetTheorems, TLAPS

Unsettled == Live \cup {"sent"}

(* The goal handle is that of the workflow under way, from the acceptance  *)
(* to the result, and the adapter looks for it before it leaves: a turn of *)
(* cancel_active begins only without a handle.                             *)
Holds ==
  /\ ~active => ~handle /\ workflow \notin Unsettled
  /\ active => count # 0
  /\ pc = "submit" => active /\ ~handle /\ workflow \notin Unsettled
  /\ told # "no" => workflow \notin {"none", "sent"}
  /\ told # "no" /\ workflow \in Live => handle
  /\ handle => told # "no"
  /\ pc = "turn" /\ workflow \in Live => told # "known"
  /\ pc = "await" => workflow \notin {"sent", "executing"}

(* The streak is the longest run of one marker alone at the end of h.      *)
Run(h, m, q) == \A k \in Len(h) - q + 1 .. Len(h) : h[k] = {m}
Streak(h, t) ==
  /\ t.streak = NoMarker => t.seen = 0
  /\ t.streak # NoMarker => t.seen \in 1..Len(h) /\ Run(h, t.streak, t.seen)
  /\ \A m \in Markers, q \in 1..Len(h) : Run(h, m, q) => t.streak = m /\ t.seen >= q

(* missing counts the empty frames at the end of h, back to the last lone  *)
(* marker, and nowhere in h there were enough.                             *)
Quiet(h, i)  == NoneAlone(h, i, Len(h))
Missed(h, i) == Cardinality(Empties(h, i, Len(h)))
Gap(h, t) ==
  /\ \A i \in 1 .. Len(h) + 1 : Quiet(h, i) => Missed(h, i) <= t.missing
  /\ \E i \in 1 .. Len(h) + 1 : Quiet(h, i) /\ Missed(h, i) = t.missing
  /\ \A i, j \in 1..Len(h) : NoneAlone(h, i, j) => Cardinality(Empties(h, i, j)) < RearmFrames
  /\ t.missing < RearmFrames

(* What the counters say of the frames since the last workflow.            *)
Sight ==
  ~active => IF trigger.armed THEN Streak(frames, trigger) /\ Rearmed(frames)
             ELSE count # 0 /\ Gap(frames, trigger)

Inv == TypeOK /\ Holds /\ Sight /\ ExitCancelsWorkflow

-----------------------------------------------------------------------------
(* Frames: empty, a lone marker, or several.                               *)
LEMMA FrameKinds ==
  ASSUME NEW f \in Frame
  PROVE  /\ Cardinality(f) \in Nat
         /\ Cardinality(f) = 0 <=> f = {}
         /\ Cardinality(f) = 1 <=> \E m \in Markers : f = {m}
<1>1. IsFiniteSet(f)
  BY AdapterAssumption, FS_Subset DEF Frame
<1>2. Cardinality(f) \in Nat
  BY <1>1, FS_CardinalityType
<1>3. Cardinality(f) = 0 <=> f = {}
  BY <1>1, FS_EmptySet
<1>4. Cardinality(f) = 1 <=> \E m : f = {m}
  BY <1>1, FS_Singleton
<1>5. \A m : f = {m} => m \in Markers
  BY DEF Frame
<1> QED BY <1>2, <1>3, <1>4, <1>5

(* A new frame changes nothing about the frames before it.                 *)
LEMMA Before ==
  ASSUME NEW h \in Seq(Frame), NEW f \in Frame, NEW i \in 1 .. Len(h) + 1, NEW j \in 0..Len(h)
  PROVE  /\ NoneAlone(Append(h, f), i, j) <=> NoneAlone(h, i, j)
         /\ Empties(Append(h, f), i, j) = Empties(h, i, j)
<1>1. \A k \in i..j : Append(h, f)[k] = h[k]
  OBVIOUS
<1> QED BY <1>1 DEF NoneAlone, Empties

LEMMA MissedTyped ==
  ASSUME NEW h \in Seq(Frame), NEW i \in 1 .. Len(h) + 1
  PROVE  /\ IsFiniteSet(Empties(h, i, Len(h))) /\ Missed(h, i) \in Nat
         /\ i = Len(h) + 1 => Missed(h, i) = 0
<1>1. IsFiniteSet(i..Len(h)) /\ Empties(h, i, Len(h)) \in SUBSET (i..Len(h))
  BY FS_Interval DEF Empties
<1>2. IsFiniteSet(Empties(h, i, Len(h)))
  BY <1>1, FS_Subset
<1>3. i = Len(h) + 1 => Empties(h, i, Len(h)) = {}
  BY DEF Empties
<1> QED BY <1>2, <1>3, FS_CardinalityType, FS_EmptySet DEF Missed

LEMMA After ==
  ASSUME NEW h \in Seq(Frame), NEW f \in Frame, NEW i \in 1 .. Len(h) + 1
  PROVE  /\ Quiet(Append(h, f), i) <=> Quiet(h, i) /\ Cardinality(f) # 1
         /\ Missed(Append(h, f), i) = Missed(h, i) + (IF f = {} THEN 1 ELSE 0)
<1> DEFINE n == Len(h)  a == Append(h, f)
<1>1. Len(a) = n + 1 /\ a[n + 1] = f /\ \A k \in i..n : a[k] = h[k]
  OBVIOUS
<1>2. i .. n + 1 = (i..n) \cup {n + 1}
  OBVIOUS
<1>3. Quiet(a, i) <=> Quiet(h, i) /\ Cardinality(f) # 1
  BY <1>1, <1>2 DEF Quiet, NoneAlone
<1>4. CASE f = {}
  <2>1. Empties(a, i, n + 1) = Empties(h, i, n) \cup {n + 1} /\ n + 1 \notin Empties(h, i, n)
    BY <1>1, <1>2, <1>4 DEF Empties
  <2>2. IsFiniteSet(Empties(h, i, n))
    BY MissedTyped
  <2>3. Cardinality(Empties(a, i, n + 1)) = Cardinality(Empties(h, i, n)) + 1
    BY <2>1, <2>2, FS_AddElement
  <2> QED BY <1>1, <1>3, <1>4, <2>3 DEF Missed
<1>5. CASE f # {}
  <2>1. Empties(a, i, n + 1) = Empties(h, i, n)
    BY <1>1, <1>2, <1>5 DEF Empties
  <2>2. Missed(a, i) = Missed(h, i)
    BY <1>1, <2>1 DEF Missed
  <2> QED BY <1>3, <1>5, <2>2, MissedTyped
<1> QED BY <1>4, <1>5

(* Once rearmed, rearmed until a workflow is over.                         *)
LEMMA RearmedStays ==
  ASSUME NEW h \in Seq(Frame), NEW f \in Frame, Rearmed(h)
  PROVE  Rearmed(Append(h, f))
<1>1. CASE count = 0
  BY <1>1 DEF Rearmed
<1>2. CASE count # 0
  <2>1. PICK i, j \in 1..Len(h) : NoneAlone(h, i, j) /\ Cardinality(Empties(h, i, j)) >= RearmFrames
    BY <1>2 DEF Rearmed
  <2>2. i \in 1 .. Len(h) + 1 /\ j \in 0..Len(h) /\ Len(Append(h, f)) = Len(h) + 1
    OBVIOUS
  <2>3. /\ NoneAlone(Append(h, f), i, j)
        /\ Cardinality(Empties(Append(h, f), i, j)) >= RearmFrames
    BY <2>1, <2>2, Before
  <2> QED BY <2>2, <2>3 DEF Rearmed
<1> QED BY <1>1, <1>2

(* The trigger counts on in its own range.                                 *)
LEMMA SingleTyped ==
  ASSUME NEW t \in Triggers, NEW m \in Markers
  PROVE  Single(t, m) \in Triggers
<1>1. [t EXCEPT !.missing = 0] \in Triggers
  BY DEF Triggers
<1>2. ASSUME NEW n \in Nat PROVE [t EXCEPT !.streak = m, !.seen = n, !.missing = 0] \in Triggers
  BY DEF Triggers
<1>3. t.seen + 1 \in Nat
  BY DEF Triggers
<1>4. CASE ~t.armed
  BY <1>1, <1>4 DEF Single
<1>5. CASE t.armed /\ t.streak = m
  <2>1. Single(t, m) = [t EXCEPT !.streak = m, !.seen = @ + 1, !.missing = 0]
    BY <1>5 DEF Single
  <2> QED BY <2>1, <1>2, <1>3
<1>6. CASE t.armed /\ t.streak # m
  <2>1. Single(t, m) = [t EXCEPT !.streak = m, !.seen = 1, !.missing = 0]
    BY <1>6 DEF Single
  <2> QED BY <2>1, <1>2
<1> QED BY <1>4, <1>5, <1>6

LEMMA MissingTyped ==
  ASSUME NEW t \in Triggers
  PROVE  Missing(t) \in Triggers /\ ResetStreak(t) \in Triggers
<1>1. ResetStreak(t) \in Triggers
  BY DEF ResetStreak, Triggers
<1>2. Armed \in Triggers
  BY DEF Armed, Triggers
<1>3. \A n \in Nat : [ResetStreak(t) EXCEPT !.missing = n] \in Triggers
  BY <1>1 DEF Triggers
<1>4. t.missing \in Nat /\ t.missing + 1 \in Nat /\ ResetStreak(t).missing = t.missing
  BY DEF ResetStreak, Triggers
<1> QED BY <1>1, <1>2, <1>3, <1>4 DEF Missing

LEMMA StaysTyped ==
  /\ Disarmed \in Triggers
  /\ \A t \in Triggers : /\ [ResetStreak(t) EXCEPT !.missing = 0] \in Triggers
                        /\ [ResetStreak(t) EXCEPT !.armed = FALSE] \in Triggers
<1>1. Disarmed \in Triggers
  BY DEF Disarmed, Armed, Triggers
<1>2. ASSUME NEW r \in Triggers
      PROVE  [r EXCEPT !.missing = 0] \in Triggers /\ [r EXCEPT !.armed = FALSE] \in Triggers
  BY DEF Triggers
<1> QED BY <1>1, <1>2, MissingTyped

LEMMA ObserveTyped ==
  ASSUME NEW t \in Triggers, NEW f \in Frame
  PROVE  Observe(t, f) \in Triggers
<1>1. f # {} => (CHOOSE m \in f : TRUE) \in Markers
  BY DEF Frame
<1> QED BY <1>1, SingleTyped, MissingTyped DEF Observe, Ambiguous


(* What the trigger makes of the three kinds of frame.                     *)
LEMMA Observed ==
  ASSUME NEW t \in Triggers, NEW f \in Frame
  PROVE  /\ f = {} => Observe(t, f) = Missing(t)
         /\ Cardinality(f) > 1 => Observe(t, f) = ResetStreak(t)
         /\ \A m \in Markers : f = {m} => Observe(t, f) = Single(t, m)
         /\ f = {} \/ Cardinality(f) > 1 \/ \E m \in Markers : f = {m}
<1>1. \A m \in Markers : f = {m} => Cardinality(f) = 1 /\ (CHOOSE x \in f : TRUE) = m
  BY FrameKinds
<1>2. f = {} => Cardinality(f) = 0
  BY FrameKinds
<1>3. Cardinality(f) \in Nat /\ (f = {} \/ Cardinality(f) > 1 \/ \E m \in Markers : f = {m})
  BY FrameKinds
<1> QED BY <1>1, <1>2, <1>3 DEF Observe, Ambiguous

(* A frame that is not a lone marker ends every run.                       *)
LEMMA NoRun ==
  ASSUME NEW h \in Seq(Frame), NEW f \in Frame, f = {} \/ Cardinality(f) > 1,
         NEW t \in Triggers, t.streak = NoMarker, t.seen = 0
  PROVE  Streak(Append(h, f), t)
<1> DEFINE a == Append(h, f)
<1>1. Len(a) = Len(h) + 1 /\ a[Len(a)] = f
  OBVIOUS
<1>2. \A m \in Markers : f # {m}
  BY FrameKinds
<1>3. \A m \in Markers, q \in 1..Len(a) : ~Run(a, m, q)
  BY <1>1, <1>2 DEF Run
<1> QED BY <1>3 DEF Streak

LEMMA StreakGrows ==
  ASSUME NEW h \in Seq(Frame), NEW f \in Frame, NEW t \in Triggers, t.armed, Streak(h, t)
  PROVE  /\ Observe(t, f).armed
         /\ Streak(Append(h, f), Observe(t, f))
<1> DEFINE a == Append(h, f)  n == Len(h)
<1>1. CASE f = {} \/ Cardinality(f) > 1
  <2>1. \/ Observe(t, f) = [ResetStreak(t) EXCEPT !.missing = IF t.armed THEN @ ELSE @ + 1]
        \/ Observe(t, f) = ResetStreak(t)
    <3>1. CASE f = {}
      BY <3>1, Observed DEF Missing
    <3>2. CASE Cardinality(f) > 1
      BY <3>2, Observed
    <3> QED BY <1>1, <3>1, <3>2
  <2>2. Observe(t, f).streak = NoMarker /\ Observe(t, f).seen = 0 /\ Observe(t, f).armed
    BY <2>1 DEF ResetStreak, Triggers
  <2>3. Observe(t, f) \in Triggers
    BY ObserveTyped
  <2>4. Streak(a, Observe(t, f))
    BY <1>1, <2>2, <2>3, NoRun
  <2> QED BY <2>2, <2>4
<1>2. ASSUME NEW m \in Markers, f = {m} PROVE Observe(t, f).armed /\ Streak(a, Observe(t, f))
  <2> DEFINE o == Observe(t, f)
  <2>1. o = [t EXCEPT !.streak = m, !.seen = IF t.streak = m THEN t.seen + 1 ELSE 1, !.missing = 0]
    BY <1>2, Observed DEF Single
  <2>2. o.armed /\ o.streak = m /\ o.seen = IF t.streak = m THEN t.seen + 1 ELSE 1
    BY <2>1 DEF Triggers
  <2>3. Len(a) = n + 1 /\ a[n + 1] = {m} /\ \A k \in 1..n : a[k] = h[k]
    BY <1>2
  <2>4. m # NoMarker
    BY AdapterAssumption
  <2>5. o.seen \in 1..Len(a) /\ Run(a, m, o.seen)
    <3>1. CASE t.streak = m
      <4>1. t.seen \in 1..n /\ Run(h, m, t.seen)
        BY <2>4, <3>1 DEF Streak
      <4> QED BY <2>2, <2>3, <3>1, <4>1 DEF Run
    <3>2. CASE t.streak # m
      BY <2>2, <2>3, <3>2 DEF Run
    <3> QED BY <3>1, <3>2
  <2>6. ASSUME NEW p \in Markers, NEW q \in 1..Len(a), Run(a, p, q)
        PROVE  p = m /\ o.seen >= q
    <3>1. p = m
      <4>1. n \in Nat /\ n + 1 \in Len(a) - q + 1 .. Len(a)
        BY <2>3, <2>6
      <4>2. {m} = {p}
        BY <2>3, <2>6, <4>1 DEF Run
      <4> QED BY <4>2
    <3>2. CASE q = 1
      BY <2>5, <3>1, <3>2
    <3>3. CASE q > 1
      <4>1. q - 1 \in 1..n /\ Run(h, m, q - 1)
        BY <2>3, <2>6, <3>1, <3>3 DEF Run
      <4>2. t.streak = m /\ t.seen >= q - 1
        BY <4>1 DEF Streak
      <4> QED BY <2>2, <3>1, <4>1, <4>2 DEF Triggers
    <3> QED BY <3>2, <3>3
  <2>7. Streak(a, o)
    <3> HIDE DEF o, a
    <3> QED BY <2>2, <2>4, <2>5, <2>6 DEF Streak
  <2> QED BY <2>2, <2>7
<1> QED BY <1>1, <1>2, Observed

(* The gap of a disarmed trigger, frame by frame; enough of it arms.       *)
LEMMA GapGrows ==
  ASSUME NEW h \in Seq(Frame), NEW f \in Frame, NEW t \in Triggers, ~t.armed, Gap(h, t)
  PROVE  IF Observe(t, f).armed THEN Streak(Append(h, f), Observe(t, f)) /\ Rearmed(Append(h, f))
         ELSE Gap(Append(h, f), Observe(t, f))
<1> DEFINE a == Append(h, f)  n == Len(h)  o == Observe(t, f)
<1>1. Len(a) = n + 1 /\ a \in Seq(Frame)
  OBVIOUS
<1>2. /\ \A i \in 1 .. n + 1 : Quiet(a, i) <=> Quiet(h, i) /\ Cardinality(f) # 1
      /\ \A i \in 1 .. n + 1 : Missed(a, i) = Missed(h, i) + (IF f = {} THEN 1 ELSE 0)
      /\ \A i \in 1 .. n + 1 : Missed(h, i) \in Nat
  BY After, MissedTyped
<1>3. Missed(a, n + 2) = 0 /\ Quiet(a, n + 2)
  <2>1. n + 2 \in 1 .. Len(a) + 1 /\ n + 2 = Len(a) + 1
    BY <1>1
  <2>2. Missed(a, n + 2) = 0
    BY <1>1, <2>1, MissedTyped
  <2>3. Quiet(a, n + 2)
    BY <1>1 DEF Quiet, NoneAlone
  <2> QED BY <2>2, <2>3
<1>4. RearmFrames \in Nat \ {0} /\ t.missing \in Nat
  BY AdapterAssumption DEF Triggers
<1>5. ASSUME o.missing < RearmFrames, o.missing \in Nat,
             \A i \in 1 .. n + 1 : Quiet(a, i) => Missed(a, i) <= o.missing,
             \E i \in 1 .. n + 2 : Quiet(a, i) /\ Missed(a, i) = o.missing
      PROVE  Gap(a, o)
  <2>1. \A i \in 1 .. n + 2 : Quiet(a, i) => Missed(a, i) <= o.missing
    BY <1>3, <1>5
  <2>2. ASSUME NEW i \in 1 .. n + 1, NEW j \in 1 .. n + 1, NoneAlone(a, i, j)
        PROVE  Cardinality(Empties(a, i, j)) < RearmFrames
    <3>1. CASE j = n + 1
      BY <1>1, <1>2, <1>4, <1>5, <2>2, <3>1 DEF Quiet, Missed
    <3>2. CASE j # n + 1 /\ i # n + 1
      <4>1. NoneAlone(h, i, j) /\ Empties(a, i, j) = Empties(h, i, j)
        BY <2>2, <3>2, Before
      <4> QED BY <3>2, <4>1 DEF Gap
    <3>3. CASE j # n + 1 /\ i = n + 1
      <4>1. Empties(a, i, j) = {}
        BY <3>3 DEF Empties
      <4> QED BY <1>4, <4>1, FS_EmptySet
    <3> QED BY <3>1, <3>2, <3>3
  <2> QED BY <1>1, <1>5, <2>1, <2>2 DEF Gap
<1>6. ASSUME NEW m \in Markers, f = {m} PROVE ~o.armed /\ Gap(a, o)
  <2>1. o = [t EXCEPT !.missing = 0]
    BY <1>6, Observed DEF Single
  <2>2. ~o.armed /\ o.missing = 0
    BY <2>1 DEF Triggers
  <2>3. Cardinality(f) = 1
    BY <1>6, FrameKinds
  <2> QED BY <1>2, <1>3, <1>4, <1>5, <2>2, <2>3
<1>7. ASSUME Cardinality(f) > 1 PROVE ~o.armed /\ Gap(a, o)
  <2>1. o = ResetStreak(t)
    BY <1>7, Observed
  <2>2. ~o.armed /\ o.missing = t.missing
    BY <2>1 DEF ResetStreak, Triggers
  <2>3. f # {} /\ Cardinality(f) # 1
    BY <1>7, FrameKinds
  <2>4. \A i \in 1 .. n + 1 : (Quiet(a, i) <=> Quiet(h, i)) /\ Missed(a, i) = Missed(h, i)
    BY <1>2, <2>3
  <2> QED BY <1>4, <1>5, <2>2, <2>4 DEF Gap
<1>8. CASE f = {}
  <2>1. Cardinality(f) # 1
    BY <1>8, FrameKinds
  <2>2. \A i \in 1 .. n + 1 : (Quiet(a, i) <=> Quiet(h, i)) /\ Missed(a, i) = Missed(h, i) + 1
    BY <1>2, <1>8, <2>1
  <2>3. PICK i \in 1 .. n + 1 : Quiet(a, i) /\ Missed(a, i) = t.missing + 1
    BY <2>2 DEF Gap
  <2>4. CASE t.missing + 1 >= RearmFrames
    <3>1. o = Armed
      BY <1>8, <2>4, Observed DEF Missing
    <3>2. o.armed /\ o.streak = NoMarker /\ o.seen = 0
      BY <3>1 DEF Armed
    <3>3. Streak(a, o)
      BY <1>8, <3>2, NoRun, ObserveTyped
    <3>4. Rearmed(a)
      BY <1>1, <2>3, <2>4 DEF Rearmed, Quiet, Missed
    <3> QED BY <3>2, <3>3, <3>4
  <2>5. CASE ~(t.missing + 1 >= RearmFrames)
    <3>1. o = [ResetStreak(t) EXCEPT !.missing = t.missing + 1]
      BY <1>8, <2>5, Observed DEF Missing, ResetStreak, Triggers
    <3>2. ~o.armed /\ o.missing = t.missing + 1
      BY <3>1 DEF ResetStreak, Triggers
    <3>3. \A k \in 1 .. n + 1 : Quiet(a, k) => Missed(a, k) <= o.missing
      BY <1>2, <1>4, <2>2, <3>2 DEF Gap
    <3>4. o.missing < RearmFrames /\ o.missing \in Nat
      BY <1>4, <2>5, <3>2
    <3> QED BY <1>5, <2>3, <3>2, <3>3, <3>4
  <2> QED BY <2>4, <2>5
<1> QED BY <1>6, <1>7, <1>8, Observed

(* An armed trigger has seen enough frames exactly when the last ones      *)
(* confirm a marker.                                                       *)
LEMMA EnoughSeen ==
  ASSUME NEW h \in Seq(Frame), NEW t \in Triggers, Streak(h, t)
  PROVE  t.seen >= Enough <=> Confirmed(h)
<1>1. Enough \in Nat \ {0}
  BY AdapterAssumption DEF Enough
<1>2. ASSUME t.seen >= Enough PROVE Confirmed(h)
  <2>1. t.streak # NoMarker
    BY <1>1, <1>2 DEF Streak, Triggers
  <2>2. t.streak \in Markers /\ t.seen \in 1..Len(h) /\ Run(h, t.streak, t.seen)
    BY <2>1 DEF Streak, Triggers
  <2>3. \A k \in Len(h) - Enough + 1 .. Len(h) : h[k] = {t.streak}
    BY <1>1, <1>2, <2>2 DEF Run
  <2> QED BY <1>1, <1>2, <2>2, <2>3 DEF Confirmed
<1>3. ASSUME Confirmed(h) PROVE t.seen >= Enough
  <2>1. Enough \in 1..Len(h) /\ \E m \in Markers : Run(h, m, Enough)
    BY <1>1, <1>3 DEF Confirmed, Run
  <2> QED BY <2>1 DEF Streak
<1> QED BY <1>2, <1>3


(***************************************************************************)
(* The invariant, action by action.                                        *)
(***************************************************************************)
LEMMA InitInv == Init => Inv
<1> SUFFICES ASSUME Init PROVE Inv
  OBVIOUS
<1>1. Armed \in Triggers
  BY DEF Armed, Triggers
<1>2. mode \in {"image", "camera"} /\ trigger \in Triggers /\ frames \in Seq(Frame)
  BY <1>1 DEF Init
<1>3. {ok, active, finished, handle} \subseteq BOOLEAN /\ told \in {"no", "late", "known"}
  BY DEF Init
<1>4. TypeOK
  BY <1>2, <1>3 DEF Init, TypeOK, Live
<1>5. Holds /\ ExitCancelsWorkflow
  BY DEF Init, Holds, ExitCancelsWorkflow, Live, Unsettled
<1>6. Sight
  BY DEF Init, Sight, Streak, Rearmed, Armed, Run
<1> QED
  BY <1>4, <1>5, <1>6 DEF Inv

(* The counters follow the frames by one more. *)
LEMMA SightGoesOn ==
  ASSUME Inv, ~active, NEW f \in Frame
  PROVE  IF Observe(trigger, f).armed
         THEN Streak(Append(frames, f), Observe(trigger, f)) /\ Rearmed(Append(frames, f))
         ELSE count # 0 /\ Gap(Append(frames, f), Observe(trigger, f))
<1>1. trigger \in Triggers /\ frames \in Seq(Frame)
  BY DEF Inv, TypeOK
<1>2. CASE trigger.armed
  <2>1. Streak(frames, trigger) /\ Rearmed(frames)
    BY <1>2 DEF Inv, Sight
  <2> QED
    BY <1>1, <1>2, <2>1, StreakGrows, RearmedStays
<1>3. CASE ~trigger.armed
  <2>1. count # 0 /\ Gap(frames, trigger)
    BY <1>3 DEF Inv, Sight
  <2> QED
    BY <1>1, <1>3, <2>1, GapGrows
<1> QED
  BY <1>2, <1>3

(* A workflow that ends leaves the trigger disarmed and nothing seen.        *)
LEMMA Reset ==
  ASSUME frames' = <<>>, trigger' = Disarmed, count' = count, count # 0
  PROVE  Sight'
<1>1. 1 .. Len(<<>>) + 1 = {1} /\ 1 .. Len(<<>>) = {}
  OBVIOUS
<1>2. Quiet(<<>>, 1) /\ Missed(<<>>, 1) = 0
  BY FS_EmptySet DEF Quiet, Missed, NoneAlone, Empties
<1>3. RearmFrames \in Nat \ {0}
  BY AdapterAssumption
<1>4. ~Disarmed.armed /\ Disarmed.missing = 0
  BY DEF Disarmed, Armed
<1>5. Gap(<<>>, Disarmed)
  BY <1>1, <1>2, <1>3, <1>4 DEF Gap
<1> QED
  BY <1>4, <1>5 DEF Sight

LEMMA OpenInv ==
  ASSUME Inv, Open
  PROVE  Inv'
<1>1. {ok', active', finished', handle'} \subseteq BOOLEAN /\ told' \in {"no", "late", "known"}
  BY DEF Open, Fail, StopLocked, Go, nodeVars, Inv, TypeOK
<1>2. TypeOK'
  BY <1>1 DEF Open, Fail, StopLocked, Go, nodeVars, Inv, TypeOK, Live
<1>3. Holds'
  BY DEF Open, Fail, StopLocked, Go, nodeVars, Inv, TypeOK, Holds, Live, Unsettled
<1>4. ExitCancelsWorkflow'
  BY DEF Open, Fail, StopLocked, Go, nodeVars, Inv, TypeOK, Holds, ExitCancelsWorkflow
<1>5. UNCHANGED <<active, trigger, frames, count>>
  BY DEF Open, Fail, StopLocked, Go, nodeVars
<1>6. Sight'
  BY <1>5 DEF Inv, Sight, Rearmed
<1> QED
  BY <1>2, <1>3, <1>4, <1>6 DEF Inv

LEMMA LoopTopInv ==
  ASSUME Inv, LoopTop
  PROVE  Inv'
<1>1. {ok', active', finished', handle'} \subseteq BOOLEAN /\ told' \in {"no", "late", "known"}
  BY DEF LoopTop, Go, nodeVars, Inv, TypeOK
<1>2. TypeOK'
  BY <1>1 DEF LoopTop, Go, nodeVars, Inv, TypeOK, Live
<1>3. Holds'
  BY DEF LoopTop, Go, nodeVars, Inv, TypeOK, Holds, Live, Unsettled
<1>4. ExitCancelsWorkflow'
  BY DEF LoopTop, Go, nodeVars, Inv, TypeOK, Holds, ExitCancelsWorkflow
<1>5. UNCHANGED <<active, trigger, frames, count>>
  BY DEF LoopTop, Go, nodeVars
<1>6. Sight'
  BY <1>5 DEF Inv, Sight, Rearmed
<1> QED
  BY <1>2, <1>3, <1>4, <1>6 DEF Inv

LEMMA ReadInv ==
  ASSUME Inv, Read
  PROVE  Inv'
<1>1. {ok', active', finished', handle'} \subseteq BOOLEAN /\ told' \in {"no", "late", "known"}
  BY DEF Read, Fail, StopLocked, Go, nodeVars, Inv, TypeOK
<1>2. TypeOK'
  BY <1>1 DEF Read, Fail, StopLocked, Go, nodeVars, Inv, TypeOK, Live
<1>3. Holds'
  BY DEF Read, Fail, StopLocked, Go, nodeVars, Inv, TypeOK, Holds, Live, Unsettled
<1>4. ExitCancelsWorkflow'
  BY DEF Read, Fail, StopLocked, Go, nodeVars, Inv, TypeOK, Holds, ExitCancelsWorkflow
<1>5. UNCHANGED <<active, trigger, frames, count>>
  BY DEF Read, Fail, StopLocked, Go, nodeVars
<1>6. Sight'
  BY <1>5 DEF Inv, Sight, Rearmed
<1> QED
  BY <1>2, <1>3, <1>4, <1>6 DEF Inv

LEMMA ReadThrowsInv ==
  ASSUME Inv, ReadThrows
  PROVE  Inv'
<1>1. {ok', active', finished', handle'} \subseteq BOOLEAN /\ told' \in {"no", "late", "known"}
  BY DEF ReadThrows, Fail, StopLocked, Go, Inv, TypeOK
<1>2. TypeOK'
  BY <1>1 DEF ReadThrows, Fail, StopLocked, Go, Inv, TypeOK, Live
<1>3. Holds'
  BY DEF ReadThrows, Fail, StopLocked, Go, Inv, TypeOK, Holds, Live, Unsettled
<1>4. ExitCancelsWorkflow'
  BY DEF ReadThrows, Fail, StopLocked, Go, Inv, TypeOK, Holds, ExitCancelsWorkflow
<1>5. UNCHANGED <<active, trigger, frames, count>>
  BY DEF ReadThrows, Fail, StopLocked, Go
<1>6. Sight'
  BY <1>5 DEF Inv, Sight, Rearmed
<1> QED
  BY <1>2, <1>3, <1>4, <1>6 DEF Inv

LEMMA FrameWhileActiveInv ==
  ASSUME Inv, FrameWhileActive
  PROVE  Inv'
<1>1. {ok', active', finished', handle'} \subseteq BOOLEAN /\ told' \in {"no", "late", "known"}
  BY DEF FrameWhileActive, Go, Inv, TypeOK
<1>2. trigger' \in Triggers
  BY StaysTyped DEF FrameWhileActive, Go, Inv, TypeOK
<1>3. frames' \in Seq(Frame)
  BY DEF FrameWhileActive, Go, Inv, TypeOK
<1>4. TypeOK'
  BY <1>1, <1>2, <1>3 DEF FrameWhileActive, Go, Inv, TypeOK, Live
<1>5. Holds'
  BY DEF FrameWhileActive, Go, Inv, TypeOK, Holds, Live, Unsettled
<1>6. ExitCancelsWorkflow'
  BY DEF FrameWhileActive, Go, Inv, TypeOK, Holds, ExitCancelsWorkflow
<1>7. Sight'
  BY DEF FrameWhileActive, Sight
<1> QED
  BY <1>4, <1>5, <1>6, <1>7 DEF Inv

LEMMA DetectionThrowsInv ==
  ASSUME Inv, DetectionThrows
  PROVE  Inv'
<1>1. {ok', active', finished', handle'} \subseteq BOOLEAN /\ told' \in {"no", "late", "known"}
  BY DEF DetectionThrows, StopLocked, Go, Inv, TypeOK
<1>2. TypeOK'
  BY <1>1 DEF DetectionThrows, StopLocked, Go, Inv, TypeOK, Live
<1>3. Holds'
  BY DEF DetectionThrows, StopLocked, Go, Inv, TypeOK, Holds, Live, Unsettled
<1>4. ExitCancelsWorkflow'
  BY DEF DetectionThrows, StopLocked, Go, Inv, TypeOK, Holds, ExitCancelsWorkflow
<1>5. UNCHANGED <<active, trigger, frames, count>>
  BY DEF DetectionThrows, StopLocked, Go
<1>6. Sight'
  BY <1>5 DEF Inv, Sight, Rearmed
<1> QED
  BY <1>2, <1>3, <1>4, <1>6 DEF Inv

LEMMA ProcessFrameInv ==
  ASSUME NEW f \in Frame, Inv, ProcessFrame(f)
  PROVE  Inv'
<1>1. {ok', active', finished', handle'} \subseteq BOOLEAN /\ told' \in {"no", "late", "known"}
  BY DEF ProcessFrame, Go, Inv, TypeOK
<1>2. trigger' \in Triggers
  BY ObserveTyped, StaysTyped DEF ProcessFrame, Go, Inv, TypeOK
<1>3. frames' \in Seq(Frame)
  BY DEF ProcessFrame, Go, Inv, TypeOK
<1>4. TypeOK'
  BY <1>1, <1>2, <1>3 DEF ProcessFrame, Go, Inv, TypeOK, Live
<1>5. Holds'
  BY DEF ProcessFrame, Go, Inv, TypeOK, Holds, Live, Unsettled
<1>6. ExitCancelsWorkflow'
  BY DEF ProcessFrame, Go, Inv, TypeOK, Holds, ExitCancelsWorkflow
<1>7. Sight'
  <2> DEFINE t == Observe(trigger, f)
  <2>1. ~active /\ frames' = Append(frames, f)
    BY DEF ProcessFrame
  <2>2. active' \/ (trigger' = t /\ count' = count)
    BY DEF ProcessFrame
  <2>3. IF t.armed THEN Streak(Append(frames, f), t) /\ Rearmed(Append(frames, f))
        ELSE count # 0 /\ Gap(Append(frames, f), t)
    BY <2>1, SightGoesOn
  <2> QED
    BY <2>1, <2>2, <2>3 DEF Sight, Rearmed
<1> QED
  BY <1>4, <1>5, <1>6, <1>7 DEF Inv

LEMMA SubmitFailsInv ==
  ASSUME Inv, SubmitFails
  PROVE  Inv'
<1>1. {ok', active', finished', handle'} \subseteq BOOLEAN /\ told' \in {"no", "late", "known"}
  BY DEF SubmitFails, FinishLocked, Go, Inv, TypeOK
<1>2. trigger' \in Triggers
  BY StaysTyped DEF SubmitFails, FinishLocked, Go, Inv, TypeOK
<1>3. frames' \in Seq(Frame)
  BY DEF SubmitFails, FinishLocked, Go, Inv, TypeOK
<1>4. TypeOK'
  BY <1>1, <1>2, <1>3 DEF SubmitFails, FinishLocked, Go, Inv, TypeOK, Live
<1>5. Holds'
  BY DEF SubmitFails, FinishLocked, Go, Inv, TypeOK, Holds, Live, Unsettled
<1>6. ExitCancelsWorkflow'
  BY DEF SubmitFails, FinishLocked, Go, Inv, TypeOK, Holds, ExitCancelsWorkflow
<1>7. active /\ count # 0 /\ count' = count
  BY DEF SubmitFails, FinishLocked, Go, Inv, Holds
<1>8. Sight'
  BY <1>7, Reset DEF SubmitFails, FinishLocked, Go
<1> QED
  BY <1>4, <1>5, <1>6, <1>8 DEF Inv

LEMMA SubmitInv ==
  ASSUME Inv, Submit
  PROVE  Inv'
<1>1. {ok', active', finished', handle'} \subseteq BOOLEAN /\ told' \in {"no", "late", "known"}
  BY DEF Submit, nodeVars, Inv, TypeOK
<1>2. TypeOK'
  BY <1>1 DEF Submit, nodeVars, Inv, TypeOK, Live
<1>3. Holds'
  BY DEF Submit, nodeVars, Inv, TypeOK, Holds, Live, Unsettled
<1>4. ExitCancelsWorkflow'
  BY DEF Submit, nodeVars, Inv, TypeOK, Holds, ExitCancelsWorkflow
<1>5. UNCHANGED <<active, trigger, frames, count>>
  BY DEF Submit, nodeVars
<1>6. Sight'
  BY <1>5 DEF Inv, Sight, Rearmed
<1> QED
  BY <1>2, <1>3, <1>4, <1>6 DEF Inv

LEMMA WaitEndsInv ==
  ASSUME Inv, WaitEnds
  PROVE  Inv'
<1>1. {ok', active', finished', handle'} \subseteq BOOLEAN /\ told' \in {"no", "late", "known"}
  BY DEF WaitEnds, Go, nodeVars, Inv, TypeOK
<1>2. TypeOK'
  BY <1>1 DEF WaitEnds, Go, nodeVars, Inv, TypeOK, Live
<1>3. Holds'
  BY DEF WaitEnds, Go, nodeVars, Inv, TypeOK, Holds, Live, Unsettled
<1>4. ExitCancelsWorkflow'
  BY DEF WaitEnds, Go, nodeVars, Inv, TypeOK, Holds, ExitCancelsWorkflow
<1>5. UNCHANGED <<active, trigger, frames, count>>
  BY DEF WaitEnds, Go, nodeVars
<1>6. Sight'
  BY <1>5 DEF Inv, Sight, Rearmed
<1> QED
  BY <1>2, <1>3, <1>4, <1>6 DEF Inv

LEMMA CancelActiveInv ==
  ASSUME Inv, CancelActive
  PROVE  Inv'
<1>1. {ok', active', finished', handle'} \subseteq BOOLEAN /\ told' \in {"no", "late", "known"}
  BY DEF CancelActive, nodeVars, Inv, TypeOK
<1>2. TypeOK'
  BY <1>1 DEF CancelActive, nodeVars, Inv, TypeOK, Live
<1>3. Holds'
  BY DEF CancelActive, nodeVars, Inv, TypeOK, Holds, Live, Unsettled
<1>4. ExitCancelsWorkflow'
  BY DEF CancelActive, nodeVars, Inv, TypeOK, Holds, ExitCancelsWorkflow
<1>5. UNCHANGED <<active, trigger, frames, count>>
  BY DEF CancelActive, nodeVars
<1>6. Sight'
  BY <1>5 DEF Inv, Sight, Rearmed
<1> QED
  BY <1>2, <1>3, <1>4, <1>6 DEF Inv

LEMMA TakeTurnInv ==
  ASSUME Inv, TakeTurn
  PROVE  Inv'
<1>1. {ok', active', finished', handle'} \subseteq BOOLEAN /\ told' \in {"no", "late", "known"}
  BY DEF TakeTurn, Go, nodeVars, Inv, TypeOK
<1>2. TypeOK'
  BY <1>1 DEF TakeTurn, Go, nodeVars, Inv, TypeOK, Live
<1>3. Holds'
  BY DEF TakeTurn, Go, nodeVars, Inv, TypeOK, Holds, Live, Unsettled
<1>4. ExitCancelsWorkflow'
  BY DEF TakeTurn, Go, nodeVars, Inv, TypeOK, Holds, ExitCancelsWorkflow
<1>5. UNCHANGED <<active, trigger, frames, count>>
  BY DEF TakeTurn, Go, nodeVars
<1>6. Sight'
  BY <1>5 DEF Inv, Sight, Rearmed
<1> QED
  BY <1>2, <1>3, <1>4, <1>6 DEF Inv

LEMMA TurnEndsInv ==
  ASSUME Inv, TurnEnds
  PROVE  Inv'
<1>1. {ok', active', finished', handle'} \subseteq BOOLEAN /\ told' \in {"no", "late", "known"}
  BY DEF TurnEnds, nodeVars, Inv, TypeOK
<1>2. TypeOK'
  BY <1>1 DEF TurnEnds, nodeVars, Inv, TypeOK, Live
<1>3. Holds'
  BY DEF TurnEnds, nodeVars, Inv, TypeOK, Holds, Live, Unsettled
<1>4. ExitCancelsWorkflow'
  BY DEF TurnEnds, nodeVars, Inv, TypeOK, Holds, ExitCancelsWorkflow
<1>5. UNCHANGED <<active, trigger, frames, count>>
  BY DEF TurnEnds, nodeVars
<1>6. Sight'
  BY <1>5 DEF Inv, Sight, Rearmed
<1> QED
  BY <1>2, <1>3, <1>4, <1>6 DEF Inv

LEMMA NothingToCancelInv ==
  ASSUME Inv, NothingToCancel
  PROVE  Inv'
<1>1. {ok', active', finished', handle'} \subseteq BOOLEAN /\ told' \in {"no", "late", "known"}
  BY DEF NothingToCancel, Go, nodeVars, Inv, TypeOK
<1>2. TypeOK'
  BY <1>1 DEF NothingToCancel, Go, nodeVars, Inv, TypeOK, Live
<1>3. Holds'
  BY DEF NothingToCancel, Go, nodeVars, Inv, TypeOK, Holds, Live, Unsettled
<1>4. ExitCancelsWorkflow'
  BY DEF NothingToCancel, Go, nodeVars, Inv, TypeOK, Holds, ExitCancelsWorkflow
<1>5. UNCHANGED <<active, trigger, frames, count>>
  BY DEF NothingToCancel, Go, nodeVars
<1>6. Sight'
  BY <1>5 DEF Inv, Sight, Rearmed
<1> QED
  BY <1>2, <1>3, <1>4, <1>6 DEF Inv

LEMMA CancelDoneInv ==
  ASSUME Inv, CancelDone
  PROVE  Inv'
<1>1. {ok', active', finished', handle'} \subseteq BOOLEAN /\ told' \in {"no", "late", "known"}
  BY DEF CancelDone, Go, nodeVars, Inv, TypeOK
<1>2. TypeOK'
  BY <1>1 DEF CancelDone, Go, nodeVars, Inv, TypeOK, Live
<1>3. Holds'
  BY DEF CancelDone, Go, nodeVars, Inv, TypeOK, Holds, Live, Unsettled
<1>4. ExitCancelsWorkflow'
  BY DEF CancelDone, Go, nodeVars, Inv, TypeOK, Holds, ExitCancelsWorkflow
<1>5. UNCHANGED <<active, trigger, frames, count>>
  BY DEF CancelDone, Go, nodeVars
<1>6. Sight'
  BY <1>5 DEF Inv, Sight, Rearmed
<1> QED
  BY <1>2, <1>3, <1>4, <1>6 DEF Inv

LEMMA GoalResponseInv ==
  ASSUME Inv, GoalResponse
  PROVE  Inv'
<1>1. {ok', active', finished', handle'} \subseteq BOOLEAN /\ told' \in {"no", "late", "known"}
  BY DEF GoalResponse, Spins, FinishLocked, Inv, TypeOK
<1>2. trigger' \in Triggers
  BY StaysTyped DEF GoalResponse, Spins, FinishLocked, Inv, TypeOK
<1>3. frames' = <<>> \/ frames' = frames
  BY DEF GoalResponse, FinishLocked
<1>4. frames \in Seq(Frame) /\ <<>> \in Seq(Frame)
  BY DEF Inv, TypeOK
<1>5. frames' \in Seq(Frame)
  BY <1>3, <1>4
<1>6. TypeOK'
  BY <1>1, <1>2, <1>5 DEF GoalResponse, Spins, FinishLocked, Inv, TypeOK, Live
<1>7. Holds'
  BY DEF GoalResponse, Spins, FinishLocked, Inv, TypeOK, Holds, Live, Unsettled
<1>8. ExitCancelsWorkflow'
  BY DEF GoalResponse, Spins, FinishLocked, Inv, TypeOK, Holds, ExitCancelsWorkflow
<1>9. active /\ count # 0 /\ count' = count
  BY DEF GoalResponse, Spins, FinishLocked, Inv, Holds
<1>10. (frames' = <<>> /\ trigger' = Disarmed) \/ active' = active
  BY DEF GoalResponse, FinishLocked
<1>11. Sight'
  BY <1>9, <1>10, Reset DEF Sight
<1> QED
  BY <1>6, <1>7, <1>8, <1>11 DEF Inv

LEMMA ResultInv ==
  ASSUME Inv, Result
  PROVE  Inv'
<1>1. {ok', active', finished', handle'} \subseteq BOOLEAN /\ told' \in {"no", "late", "known"}
  BY DEF Result, Spins, FinishLocked, Inv, TypeOK
<1>2. trigger' \in Triggers
  BY StaysTyped DEF Result, Spins, FinishLocked, Inv, TypeOK
<1>3. frames' \in Seq(Frame)
  BY DEF Result, Spins, FinishLocked, Inv, TypeOK
<1>4. TypeOK'
  BY <1>1, <1>2, <1>3 DEF Result, Spins, FinishLocked, Inv, TypeOK, Live
<1>5. Holds'
  BY DEF Result, Spins, FinishLocked, Inv, TypeOK, Holds, Live, Unsettled
<1>6. ExitCancelsWorkflow'
  BY DEF Result, Spins, FinishLocked, Inv, TypeOK, Holds, ExitCancelsWorkflow
<1>7. active /\ count # 0 /\ count' = count
  BY DEF Result, Spins, FinishLocked, Inv, Holds
<1>8. Sight'
  BY <1>7, Reset DEF Result, Spins, FinishLocked
<1> QED
  BY <1>4, <1>5, <1>6, <1>8 DEF Inv

LEMMA SignalInv ==
  ASSUME Inv, Signal
  PROVE  Inv'
<1>1. {ok', active', finished', handle'} \subseteq BOOLEAN /\ told' \in {"no", "late", "known"}
  BY DEF Signal, nodeVars, Inv, TypeOK
<1>2. TypeOK'
  BY <1>1 DEF Signal, nodeVars, Inv, TypeOK, Live
<1>3. Holds'
  BY DEF Signal, nodeVars, Inv, TypeOK, Holds, Live, Unsettled
<1>4. ExitCancelsWorkflow'
  BY DEF Signal, nodeVars, Inv, TypeOK, Holds, ExitCancelsWorkflow
<1>5. UNCHANGED <<active, trigger, frames, count>>
  BY DEF Signal, nodeVars
<1>6. Sight'
  BY <1>5 DEF Inv, Sight, Rearmed
<1> QED
  BY <1>2, <1>3, <1>4, <1>6 DEF Inv

LEMMA WorkflowStepInv ==
  ASSUME Inv, WorkflowStep
  PROVE  Inv'
<1>1. {ok', active', finished', handle'} \subseteq BOOLEAN /\ told' \in {"no", "late", "known"}
  BY DEF WorkflowStep, nodeVars, Inv, TypeOK
<1>2. TypeOK'
  BY <1>1 DEF WorkflowStep, nodeVars, Inv, TypeOK, Live
<1>3. Holds'
  BY DEF WorkflowStep, nodeVars, Inv, TypeOK, Holds, Live, Unsettled
<1>4. ExitCancelsWorkflow'
  BY DEF WorkflowStep, nodeVars, Inv, TypeOK, Holds, ExitCancelsWorkflow
<1>5. UNCHANGED <<active, trigger, frames, count>>
  BY DEF WorkflowStep, nodeVars
<1>6. Sight'
  BY <1>5 DEF Inv, Sight, Rearmed
<1> QED
  BY <1>2, <1>3, <1>4, <1>6 DEF Inv

LEMMA StutterInv ==
  ASSUME Inv, UNCHANGED vars
  PROVE  Inv'
<1> USE DEF vars, nodeVars
<1>1. TypeOK' /\ Holds' /\ ExitCancelsWorkflow'
  BY DEF Inv, TypeOK, Holds, ExitCancelsWorkflow
<1>2. Sight'
  BY DEF Inv, Sight, Rearmed
<1> QED
  BY <1>1, <1>2 DEF Inv

(* The invariant the properties rest on holds in every state.              *)
THEOREM InvHolds == Spec => []Inv
<1>1. Inv /\ [Next]_vars => Inv'
  <2> SUFFICES ASSUME Inv, [Next]_vars PROVE Inv'
    OBVIOUS
  <2>1. CASE Open \/ LoopTop \/ Read \/ ReadThrows
    BY <2>1, OpenInv, LoopTopInv, ReadInv, ReadThrowsInv
  <2>2. CASE FrameWhileActive \/ DetectionThrows \/ \E f \in Frame : ProcessFrame(f)
    BY <2>2, FrameWhileActiveInv, DetectionThrowsInv, ProcessFrameInv
  <2>3. CASE SubmitFails \/ Submit \/ WaitEnds
    BY <2>3, SubmitFailsInv, SubmitInv, WaitEndsInv
  <2>4. CASE CancelActive \/ TakeTurn \/ TurnEnds \/ NothingToCancel \/ CancelDone
    BY <2>4, CancelActiveInv, TakeTurnInv, TurnEndsInv, NothingToCancelInv, CancelDoneInv
  <2>5. CASE GoalResponse \/ Result \/ Signal \/ WorkflowStep
    BY <2>5, GoalResponseInv, ResultInv, SignalInv, WorkflowStepInv
  <2>6. CASE UNCHANGED vars
    BY <2>6, StutterInv
  <2> QED
    BY <2>1, <2>2, <2>3, <2>4, <2>5, <2>6 DEF Next, Thread
<1> QED
  BY <1>1, InitInv, PTL DEF Spec

-----------------------------------------------------------------------------
(* The adapter's variables keep the types the code gives them.             *)
THEOREM TypeCorrect == Spec => []TypeOK
<1>1. Inv => TypeOK
  BY DEF Inv
<1> QED
  BY <1>1, InvHolds, PTL

(* An adapter that leaves while the context is up has asked for the cancel *)
(* of a running workflow whose acceptance it knew before the last turn of  *)
(* cancel_active, whatever failed before.                                  *)
THEOREM ExitCancels == Spec => []ExitCancelsWorkflow
<1>1. Inv => ExitCancelsWorkflow
  BY DEF Inv
<1> QED
  BY <1>1, InvHolds, PTL

(* A disarmed trigger has not seen its gap yet. *)
LEMMA GapIsShort ==
  ASSUME NEW h \in Seq(Frame), NEW t, count # 0, Gap(h, t)
  PROVE  ~Rearmed(h)
<1> SUFFICES ASSUME NEW i \in 1..Len(h), NEW j \in 1..Len(h), NoneAlone(h, i, j),
                    Cardinality(Empties(h, i, j)) >= RearmFrames
             PROVE  FALSE
  BY DEF Rearmed
<1>1. IsFiniteSet(i..j) /\ Empties(h, i, j) \subseteq i..j
  BY FS_Interval DEF Empties
<1>2. Cardinality(Empties(h, i, j)) \in Nat
  BY <1>1, FS_Subset, FS_CardinalityType
<1>3. Cardinality(Empties(h, i, j)) < RearmFrames /\ RearmFrames \in Nat
  BY AdapterAssumption DEF Gap
<1> QED
  BY <1>2, <1>3

(* The counters of MarkerTrigger submit a workflow at a frame exactly when *)
(* that frame completes a sighting and, after a workflow, the gap came     *)
(* before it; and only when no workflow of the adapter is under way.       *)
THEOREM TriggersAsSighted == Spec => TriggersOnSighting
<1> DEFINE Sighted ==
      frames' # frames /\ frames' # <<>> =>
        /\ active' <=> Confirmed(frames') /\ Rearmed(frames')
        /\ active' => workflow \notin Live \cup {"sent"}
<1>1. Inv /\ [Next]_vars => [Sighted]_vars
  <2> SUFFICES ASSUME Inv, [Next]_vars, frames' # frames, frames' # <<>>
               PROVE  /\ active' <=> Confirmed(frames') /\ Rearmed(frames')
                      /\ active' => workflow \notin Live \cup {"sent"}
    OBVIOUS
  <2>1. PICK f \in Frame : ProcessFrame(f)
    <3>1. Next
      BY DEF vars, nodeVars
    <3>2. ~(Open \/ LoopTop \/ Read \/ ReadThrows)
      BY DEF Open, LoopTop, Read, ReadThrows, Fail, StopLocked, Go, nodeVars
    <3>3. ~(FrameWhileActive \/ DetectionThrows \/ SubmitFails \/ Submit \/ WaitEnds)
      BY DEF FrameWhileActive, DetectionThrows, StopLocked, SubmitFails, FinishLocked, Submit,
         WaitEnds, Go, nodeVars
    <3>4. ~(CancelActive \/ TakeTurn \/ TurnEnds \/ NothingToCancel \/ CancelDone)
      BY DEF CancelActive, TakeTurn, TurnEnds, NothingToCancel, CancelDone, Go, nodeVars
    <3>5. ~(GoalResponse \/ Result \/ Signal \/ WorkflowStep)
      BY DEF GoalResponse, Result, FinishLocked, Signal, WorkflowStep, nodeVars
    <3> QED
      BY <3>1, <3>2, <3>3, <3>4, <3>5 DEF Next, Thread
  <2> DEFINE t == Observe(trigger, f)
  <2>2. ~active /\ frames' = Append(frames, f) /\ (active' <=> Fires(t))
    BY <2>1 DEF ProcessFrame
  <2>3. t \in Triggers /\ Append(frames, f) \in Seq(Frame)
    BY ObserveTyped DEF Inv, TypeOK
  <2>4. active' <=> Confirmed(frames') /\ Rearmed(frames')
    <3>1. CASE t.armed
      <4>1. Streak(frames', t) /\ Rearmed(frames')
        BY <2>2, <3>1, SightGoesOn
      <4>2. t.seen >= Enough <=> Confirmed(frames')
        BY <2>2, <2>3, <4>1, EnoughSeen
      <4> QED
        BY <2>2, <3>1, <4>1, <4>2 DEF Fires
    <3>2. CASE ~t.armed
      <4>1. count # 0 /\ Gap(frames', t)
        BY <2>2, <3>2, SightGoesOn
      <4>2. ~Rearmed(frames')
        BY <2>2, <2>3, <4>1, GapIsShort
      <4> QED
        BY <2>2, <3>2, <4>2 DEF Fires
    <3> QED
      BY <3>1, <3>2
  <2>5. workflow \notin Live \cup {"sent"}
    BY <2>2 DEF Inv, Holds, Unsettled
  <2> QED
    BY <2>4, <2>5
<1> QED
  BY <1>1, InvHolds, PTL DEF Spec, TriggersOnSighting
=============================================================================
