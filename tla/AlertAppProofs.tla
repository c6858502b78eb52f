--------------------------- MODULE AlertAppProofs ---------------------------
(***************************************************************************)
(* The safety of the in-app alert for every set of alerts, every order in  *)
(* which events begin and commit, every length of a millisecond and every  *)
(* bound: the alarm follows the panel, and the panel follows the events    *)
(* the stream delivered.                                                   *)
(***************************************************************************)
EXTENDS AlertApp, FiniteSetTheorems, SequenceTheorems, TLAPS

(***************************************************************************)
(* The cursor's truncation to milliseconds.                                *)
(***************************************************************************)
LEMMA ToDateOf ==
  ASSUME NEW x \in Nat
  PROVE  /\ ToDate(x) \in Nat /\ ToDate(x) <= x
         /\ \E q \in Nat : ToDate(x) = q * PerMs /\ x < q * PerMs + PerMs
<1>1. PerMs \in Nat /\ PerMs > 0
  BY AlertStreamAssumption
<1>2. /\ x \div PerMs \in Int /\ x % PerMs \in 0..PerMs-1
      /\ x = PerMs * (x \div PerMs) + (x % PerMs)
  BY <1>1
<1>3. x \div PerMs \in Nat
  BY <1>1, <1>2
<1> QED BY <1>1, <1>2, <1>3 DEF ToDate

LEMMA ToDateMonotone ==
  ASSUME NEW x \in Nat, NEW y \in Nat, ToDate(x) <= y
  PROVE  ToDate(x) <= ToDate(y)
<1>1. PICK q \in Nat : ToDate(x) = q * PerMs
  BY ToDateOf
<1>2. PICK p \in Nat : ToDate(y) = p * PerMs /\ y < p * PerMs + PerMs
  BY ToDateOf
<1>3. PerMs \in Nat /\ PerMs > 0
  BY AlertStreamAssumption
<1>4. SUFFICES ASSUME p + 1 <= q PROVE FALSE
  BY <1>1, <1>2, <1>3
<1>5. (p + 1) * PerMs <= q * PerMs
  BY <1>3, <1>4
<1> QED BY <1>1, <1>2, <1>3, <1>5

LEMMA ToDateOfDate ==
  ASSUME NEW x \in Nat
  PROVE  ToDate(ToDate(x)) = ToDate(x)
<1>1. ToDate(x) \in Nat
  BY ToDateOf
<1>2. ToDate(x) <= ToDate(ToDate(x))
  BY <1>1, ToDateMonotone
<1>3. ToDate(ToDate(x)) \in Nat /\ ToDate(ToDate(x)) <= ToDate(x)
  BY <1>1, ToDateOf
<1> QED BY <1>1, <1>2, <1>3
-----------------------------------------------------------------------------
(***************************************************************************)
(* The panel: what each operation does to what is shown.                   *)
(***************************************************************************)
PanelTypeOK ==
    /\ desiredPlaying \in BOOLEAN
    /\ activeAlert \in Alerts \cup {NoAlert}
    /\ queue \in Seq(Alerts)
    /\ muted \in BOOLEAN

PanelInv == PanelTypeOK /\ AlarmFollowsPanel

Holds(q, a) == \E i \in DOMAIN q : q[i] = a

LEMMA ShownMeans ==
  /\ \A a : a \in Shown <=> (a = activeAlert /\ a # NoAlert) \/ Holds(queue, a)
  /\ \A a : a \in Shown' <=> (a = activeAlert' /\ a # NoAlert) \/ Holds(queue', a)
  BY DEF Shown, Holds

LEMMA InitPanel == PanelInit => PanelInv /\ Shown = {}
<1> SUFFICES ASSUME PanelInit PROVE PanelInv /\ Shown = {}
  OBVIOUS
<1>1. /\ activeAlert = NoAlert /\ queue = <<>> /\ queue \in Seq(Alerts) /\ DOMAIN queue = {}
      /\ muted = FALSE /\ desiredPlaying = FALSE
  BY DEF PanelInit
<1>2. AlarmFollowsPanel
  BY <1>1, Zenon DEF AlarmFollowsPanel
<1> QED BY <1>1, <1>2 DEF PanelInv, PanelTypeOK, Shown

LEMMA PanelStays ==
  ASSUME PanelInv, UNCHANGED panelVars
  PROVE  PanelInv' /\ Shown' = Shown
  BY DEF PanelInv, PanelTypeOK, AlarmFollowsPanel, Shown, panelVars

(* The first alert of an empty panel, or the next of its queue.            *)
LEMMA DisplayPanel ==
  ASSUME NEW a \in Alerts, NEW q \in Seq(Alerts), Display(a, q),
         \A i \in DOMAIN q : q[i] # a,
         \A i, j \in DOMAIN q : q[i] = q[j] => i = j
  PROVE  PanelInv' /\ \A b : b \in Shown' <=> b = a \/ Holds(q, b)
<1>1. /\ activeAlert' = a /\ queue' = q
      /\ muted' = FALSE /\ desiredPlaying' = TRUE
  BY DEF Display, StartAlarm
<1>2. a # NoAlert
  BY AlertAppAssumption
<1>3. desiredPlaying' <=> (activeAlert' # NoAlert /\ ~muted')
  BY <1>1, <1>2, Zenon
<1>4. AlarmFollowsPanel'
  BY <1>1, <1>2, <1>3 DEF AlarmFollowsPanel
<1> QED BY <1>1, <1>2, <1>4, ShownMeans DEF PanelInv, PanelTypeOK

LEMMA PresentPanel ==
  ASSUME PanelInv, NEW a \in Alerts, PresentInAppAlert(a)
  PROVE  PanelInv' /\ \A b : b \in Shown' <=> b = a \/ b \in Shown
<1> USE DEF PanelInv, PanelTypeOK
<1>1. a # NoAlert
  BY AlertAppAssumption
<1>2. CASE activeAlert = NoAlert
  <2>1. queue = <<>> /\ DOMAIN queue = {} /\ Display(a, queue)
    BY <1>2 DEF PresentInAppAlert, AlarmFollowsPanel
  <2>2. PanelInv' /\ \A b : b \in Shown' <=> b = a \/ Holds(queue, b)
    BY <2>1, DisplayPanel
  <2> QED BY <1>2, <2>2, ShownMeans
<1>3. CASE activeAlert # NoAlert /\ (activeAlert = a \/ Contains(queue, a))
  <2>1. a \in Shown
    BY <1>1, <1>3, ShownMeans DEF Contains, Holds
  <2>2. UNCHANGED panelVars
    BY <1>3 DEF PresentInAppAlert
  <2> QED BY <2>1, <2>2, PanelStays
<1>4. CASE activeAlert # NoAlert /\ activeAlert # a /\ ~Contains(queue, a)
  <2>1. /\ queue' = Append(queue, a) /\ activeAlert' = activeAlert
        /\ muted' = FALSE
        /\ IF muted THEN desiredPlaying' = TRUE ELSE desiredPlaying' = desiredPlaying
    BY <1>4 DEF PresentInAppAlert, EnqueueAlert, StartAlarm
  <2>2. /\ queue' \in Seq(Alerts)
        /\ Len(queue) \in Nat
        /\ DOMAIN queue = 1..Len(queue)
        /\ DOMAIN queue' = 1..Len(queue) + 1
        /\ \A i \in DOMAIN queue : queue'[i] = queue[i] /\ queue[i] # a
        /\ queue'[Len(queue) + 1] = a
    BY <1>4, <2>1 DEF Contains
  <2>3. desiredPlaying' \in BOOLEAN /\ (desiredPlaying' <=> (activeAlert' # NoAlert /\ ~muted'))
    <3>1. desiredPlaying <=> ~muted
      BY <1>4 DEF AlarmFollowsPanel
    <3>2. desiredPlaying \in BOOLEAN /\ muted \in BOOLEAN
      OBVIOUS
    <3> QED BY <1>4, <2>1, <3>1, <3>2, Zenon
  <2>4. AlarmFollowsPanel'
    <3>1. /\ activeAlert' # NoAlert
          /\ \A i \in DOMAIN queue' : queue'[i] # activeAlert'
          /\ \A i, j \in DOMAIN queue' : queue'[i] = queue'[j] => i = j
      BY <1>4, <2>1, <2>2 DEF AlarmFollowsPanel
    <3> QED BY <2>3, <3>1, Zenon DEF AlarmFollowsPanel
  <2>5. \A b : Holds(queue', b) <=> b = a \/ Holds(queue, b)
    BY <2>2 DEF Holds
  <2>6. \A b : b \in Shown' <=> b = a \/ b \in Shown
    BY <1>1, <2>1, <2>5, ShownMeans
  <2>7. PanelTypeOK'
    BY <2>1, <2>2, <2>3
  <2> QED BY <2>4, <2>6, <2>7
<1> QED BY <1>2, <1>3, <1>4

(* An entry taken out of a queue without repetitions.                      *)
LEMMA WithoutOne ==
  ASSUME NEW q \in Seq(Alerts), \A i, j \in DOMAIN q : q[i] = q[j] => i = j, NEW a
  PROVE  /\ Without(q, a) \in Seq(Alerts)
         /\ \A i, j \in DOMAIN Without(q, a) : Without(q, a)[i] = Without(q, a)[j] => i = j
         /\ \A b : Holds(Without(q, a), b) <=> b # a /\ Holds(q, b)
<1>1. CASE ~Contains(q, a)
  BY <1>1 DEF Without, Contains, Holds
<1>2. CASE Contains(q, a)
  <2>1. PICK n \in Nat : n = Len(q)
    OBVIOUS
  <2>2. PICK k \in 1..n : q[k] = a /\ k = CHOOSE i \in DOMAIN q : q[i] = a
    BY <1>2, <2>1 DEF Contains
  <2>3. Without(q, a) = SubSeq(q, 1, k - 1) \o SubSeq(q, k + 1, n)
    BY <1>2, <2>1, <2>2 DEF Without, RemoveAt
  <2>4. PICK w : w = Without(q, a)
    OBVIOUS
  <2>5. /\ w \in Seq(Alerts) /\ Len(w) = n - 1
        /\ \A i \in 1..n - 1 : w[i] = IF i < k THEN q[i] ELSE q[i + 1]
    <3> DEFINE l == SubSeq(q, 1, k - 1)
               r == SubSeq(q, k + 1, n)
    <3>1. /\ l \in Seq(Alerts) /\ Len(l) = k - 1
          /\ \A i \in 1..k - 1 : l[i] = q[i]
      BY <2>1
    <3>2. /\ r \in Seq(Alerts) /\ Len(r) = n - k
          /\ \A i \in 1..n - k : r[i] = q[k + i]
      <4>1. k + 1 \in Int /\ n \in Int /\ n - (k + 1) + 1 = n - k /\ (k + 1 > n => n - k = 0)
        OBVIOUS
      <4>2. \A i \in k + 1..n : q[i] \in Alerts
        <5>1. \A i \in 1..n : q[i] \in Alerts
          BY <2>1
        <5> QED BY <5>1
      <4>3. /\ r \in Seq(Alerts)
            /\ Len(r) = IF k + 1 <= n THEN n - (k + 1) + 1 ELSE 0
            /\ \A i \in 1..n - (k + 1) + 1 : r[i] = q[(k + 1) + i - 1]
        BY <4>1, <4>2, SubSeqProperties
      <4>4. \A i \in 1..n - k : (k + 1) + i - 1 = k + i
        OBVIOUS
      <4> HIDE DEF r
      <4>5. Len(r) = n - k
        BY <4>1, <4>3
      <4>6. ASSUME NEW i \in 1..n - k PROVE r[i] = q[k + i]
        <5>1. i \in 1..n - (k + 1) + 1
          BY <4>1
        <5>2. r[i] = q[(k + 1) + i - 1]
          BY <4>3, <5>1
        <5> QED BY <4>4, <5>2, Zenon
      <4> QED BY <4>3, <4>5, <4>6, Zenon
    <3> HIDE DEF l, r
    <3>3. /\ l \o r \in Seq(Alerts) /\ Len(l \o r) = n - 1
          /\ \A i \in 1..n - 1 : (l \o r)[i] = IF i < k THEN l[i] ELSE r[i - (k - 1)]
      <4>1. /\ l \o r \in Seq(Alerts) /\ Len(l \o r) = Len(l) + Len(r)
            /\ \A i \in 1..Len(l) + Len(r) :
                 (l \o r)[i] = IF i <= Len(l) THEN l[i] ELSE r[i - Len(l)]
        <5>1. l \in Seq(Alerts) /\ r \in Seq(Alerts)
          BY <3>1, <3>2
        <5> QED BY <5>1, ConcatProperties, Zenon
      <4>2. Len(l) = k - 1 /\ Len(r) = n - k
        BY <3>1, <3>2
      <4>3. Len(l) + Len(r) = n - 1
        BY <4>2
      <4>4. \A i \in 1..n - 1 : i <= k - 1 <=> i < k
        OBVIOUS
      <4>5. ASSUME NEW i \in 1..n - 1
            PROVE  (l \o r)[i] = IF i < k THEN l[i] ELSE r[i - (k - 1)]
        <5>1. (l \o r)[i] = IF i <= k - 1 THEN l[i] ELSE r[i - (k - 1)]
          BY <4>1, <4>2, <4>3, Zenon
        <5> QED BY <4>4, <5>1, Zenon
      <4> QED BY <4>1, <4>3, <4>5, Zenon
    <3>4. \A i \in 1..n - 1 : i >= k => r[i - (k - 1)] = q[i + 1]
      BY <3>2
    <3>5. w = l \o r
      BY <2>3, <2>4 DEF l, r
    <3>6. ASSUME NEW i \in 1..n - 1 PROVE w[i] = IF i < k THEN q[i] ELSE q[i + 1]
      <4>1. CASE i < k
        <5>1. i \in 1..k - 1
          BY <4>1
        <5> QED BY <3>1, <3>3, <3>5, <4>1, <5>1
      <4>2. CASE ~(i < k)
        <5>1. (l \o r)[i] = r[i - (k - 1)]
          BY <3>3, <4>2
        <5>2. r[i - (k - 1)] = q[i + 1]
          BY <3>4, <4>2
        <5> QED BY <3>5, <4>2, <5>1, <5>2
      <4> QED BY <4>1, <4>2
    <3> QED BY <3>3, <3>5, <3>6
  <2>6. DOMAIN w = 1..n - 1 /\ DOMAIN q = 1..n
    BY <2>1, <2>5
  <2>7. ASSUME NEW i \in 1..n - 1, NEW j \in 1..n - 1, w[i] = w[j] PROVE i = j
    <3> DEFINE From(p) == IF p < k THEN p ELSE p + 1
    <3>1. \A p \in 1..n - 1 : From(p) \in 1..n
      OBVIOUS
    <3>2. \A p \in 1..n - 1 : w[p] = q[From(p)]
      BY <2>5
    <3> HIDE DEF From
    <3>3. From(i) = From(j)
      BY <2>6, <2>7, <3>1, <3>2
    <3> QED BY <3>3 DEF From
  <2>8. ASSUME NEW i \in 1..n - 1 PROVE w[i] # a /\ Holds(q, w[i])
    <3>1. CASE i < k
      BY <2>2, <2>5, <2>6, <3>1 DEF Holds
    <3>2. CASE ~(i < k)
      <4>1. i + 1 \in 1..n /\ i + 1 # k /\ w[i] = q[i + 1]
        BY <2>5, <3>2
      <4> QED BY <2>2, <2>6, <4>1 DEF Holds
    <3> QED BY <3>1, <3>2
  <2>9. ASSUME NEW j \in 1..n, q[j] # a PROVE Holds(w, q[j])
    <3>1. CASE j < k
      BY <2>5, <2>6, <3>1 DEF Holds
    <3>2. CASE j > k
      <4>1. j - 1 \in 1..n - 1 /\ w[j - 1] = q[j]
        BY <2>5, <3>2
      <4> QED BY <2>6, <4>1 DEF Holds
    <3> QED BY <2>2, <2>9, <3>1, <3>2
  <2>10. \A b : Holds(w, b) <=> b # a /\ Holds(q, b)
    BY <2>6, <2>8, <2>9 DEF Holds
  <2> QED BY <2>4, <2>5, <2>6, <2>7, <2>10
<1> QED BY <1>1, <1>2

LEMMA ClearPanel ==
  ASSUME ClearInAppAlerts
  PROVE  PanelInv' /\ \A b : b \notin Shown'
<1>1. /\ activeAlert' = NoAlert /\ queue' = <<>> /\ queue' \in Seq(Alerts)
      /\ DOMAIN queue' = {}
      /\ muted' = FALSE /\ desiredPlaying' = FALSE
  BY DEF ClearInAppAlerts, StopAlarm
<1>2. AlarmFollowsPanel'
  BY <1>1, Zenon DEF AlarmFollowsPanel
<1> QED BY <1>1, <1>2, ShownMeans DEF PanelInv, PanelTypeOK, Holds

LEMMA ResolvePanel ==
  ASSUME PanelInv, NEW a \in Alerts, ResolveInAppAlert(a)
  PROVE  PanelInv' /\ \A b : b \in Shown' <=> b # a /\ b \in Shown
<1> USE DEF PanelInv, PanelTypeOK
<1>1. CASE activeAlert # a
  <2>1. /\ queue' = Without(queue, a)
        /\ UNCHANGED <<activeAlert, muted, desiredPlaying>>
    BY <1>1 DEF ResolveInAppAlert
  <2>2. /\ queue \in Seq(Alerts)
        /\ \A i, j \in DOMAIN queue : queue[i] = queue[j] => i = j
    BY DEF AlarmFollowsPanel
  <2>3. /\ queue' \in Seq(Alerts)
        /\ \A i, j \in DOMAIN queue' : queue'[i] = queue'[j] => i = j
        /\ \A b : Holds(queue', b) <=> b # a /\ Holds(queue, b)
    BY <2>2, WithoutOne, <2>1
  <2>4. \A b : b \in Shown' <=> b # a /\ b \in Shown
    BY <1>1, <2>1, <2>3, ShownMeans
  <2>5. \A i \in DOMAIN queue' : queue'[i] # activeAlert'
    <3>1. ~Holds(queue, activeAlert)
      BY DEF AlarmFollowsPanel, Holds
    <3>2. ~Holds(queue', activeAlert)
      BY <2>3, <3>1
    <3> QED BY <2>1, <3>2 DEF Holds
  <2>6. activeAlert' = NoAlert => queue' = <<>>
    <3>1. SUFFICES ASSUME queue = <<>> PROVE queue' = <<>>
      BY <2>1 DEF AlarmFollowsPanel
    <3> QED BY <2>1, <3>1 DEF Without, Contains
  <2>7. desiredPlaying' <=> (activeAlert' # NoAlert /\ ~muted')
    BY <2>1 DEF AlarmFollowsPanel
  <2>8. AlarmFollowsPanel'
    BY <2>3, <2>5, <2>6, <2>7, Zenon DEF AlarmFollowsPanel
  <2> QED BY <2>1, <2>3, <2>4, <2>8
<1>2. CASE activeAlert = a /\ queue = <<>>
  <2>1. ClearInAppAlerts
    BY <1>2 DEF ResolveInAppAlert
  <2>2. \A b : b \in Shown => b = a
    BY <1>2, ShownMeans DEF Holds
  <2> QED BY <2>1, <2>2, ClearPanel
<1>3. CASE activeAlert = a /\ queue # <<>>
  <2> DEFINE n == Len(queue)
  <2>1. Display(Head(queue), Tail(queue))
    BY <1>3 DEF ResolveInAppAlert
  <2>2. /\ n \in Nat /\ n > 0 /\ DOMAIN queue = 1..n
        /\ Head(queue) = queue[1] /\ Head(queue) \in Alerts
        /\ Tail(queue) \in Seq(Alerts) /\ DOMAIN Tail(queue) = 1..n - 1
        /\ \A i \in 1..n - 1 : Tail(queue)[i] = queue[i + 1]
    BY <1>3
  <2>3. /\ \A i, j \in 1..n : queue[i] = queue[j] => i = j
        /\ \A i \in 1..n : queue[i] # a
    BY <1>3, <2>2 DEF AlarmFollowsPanel
  <2>4. \A i, j \in DOMAIN Tail(queue) : Tail(queue)[i] = Tail(queue)[j] => i = j
    BY <2>2, <2>3
  <2>5. \A i \in DOMAIN Tail(queue) : Tail(queue)[i] # Head(queue)
    BY <2>2, <2>3
  <2>6. PanelInv' /\ \A b : b \in Shown' <=> b = Head(queue) \/ Holds(Tail(queue), b)
    BY <2>1, <2>2, <2>4, <2>5, DisplayPanel
  <2>7. ASSUME NEW b PROVE Holds(queue, b) <=> b = Head(queue) \/ Holds(Tail(queue), b)
    <3>1. \A i \in 1..n : i # 1 => i - 1 \in 1..n - 1 /\ queue[i] = Tail(queue)[i - 1]
      BY <2>2
    <3>2. \A i \in 1..n - 1 : i + 1 \in 1..n
      BY <2>2
    <3>3. ASSUME Holds(queue, b) PROVE b = Head(queue) \/ Holds(Tail(queue), b)
      BY <2>2, <3>1, <3>3 DEF Holds
    <3>4. ASSUME b = Head(queue) \/ Holds(Tail(queue), b) PROVE Holds(queue, b)
      <4>1. CASE b = Head(queue)
        <5>1. 1 \in 1..n
          BY <2>2
        <5> QED BY <2>2, <4>1, <5>1 DEF Holds
      <4>2. CASE Holds(Tail(queue), b)
        BY <2>2, <3>2, <4>2 DEF Holds
      <4> QED BY <3>4, <4>1, <4>2
    <3> QED BY <3>3, <3>4
  <2>8. \A b : b # a /\ b \in Shown <=> Holds(queue, b)
    BY <1>3, <2>2, <2>3, ShownMeans DEF Holds
  <2> QED BY <2>6, <2>7, <2>8
<1> QED BY <1>1, <1>2, <1>3

(* The button and the ringing change the sound and not what is shown.      *)
LEMMA SoundPanel ==
  ASSUME PanelInv, ToggleAlertAlarm \/ RingAgain
  PROVE  PanelInv' /\ Shown' = Shown
<1>1. /\ activeAlert' = activeAlert /\ queue' = queue
      /\ muted' \in BOOLEAN /\ desiredPlaying' \in BOOLEAN
  BY DEF ToggleAlertAlarm, RingAgain, StartAlarm, StopAlarm, PanelInv, PanelTypeOK
<1>2. muted \in BOOLEAN /\ (desiredPlaying <=> (activeAlert # NoAlert /\ ~muted))
  BY DEF PanelInv, PanelTypeOK, AlarmFollowsPanel
<1>3. CASE ToggleAlertAlarm
  <2>1. /\ activeAlert # NoAlert /\ muted' = ~muted
        /\ IF muted THEN desiredPlaying' = TRUE ELSE desiredPlaying' = FALSE
    BY <1>3 DEF ToggleAlertAlarm, StartAlarm, StopAlarm
  <2>2. desiredPlaying' <=> (activeAlert' # NoAlert /\ ~muted')
    BY <1>1, <1>2, <2>1, Zenon
  <2> QED BY <1>1, <2>2 DEF PanelInv, PanelTypeOK, AlarmFollowsPanel, Shown
<1>4. CASE RingAgain
  <2>1. /\ muted' = muted
        /\ IF activeAlert # NoAlert /\ ~muted THEN desiredPlaying' = TRUE
           ELSE desiredPlaying' = desiredPlaying
    BY <1>4 DEF RingAgain, StartAlarm
  <2>2. desiredPlaying' <=> (activeAlert' # NoAlert /\ ~muted')
    BY <1>1, <1>2, <2>1, Zenon
  <2> QED BY <1>1, <2>2 DEF PanelInv, PanelTypeOK, AlarmFollowsPanel, Shown
<1> QED BY <1>3, <1>4
-----------------------------------------------------------------------------
(***************************************************************************)
(* The stream: what is seen, what is on the wire and the cursor are in the *)
(* order of the rows, up to the milliseconds the cursor loses.             *)
(***************************************************************************)
At(e) == ToDate(events[e].createdAt)

Trigger(t) == events[t].type = "ALERT_TRIGGER"
Resolve(r) == events[r].type = "ALERT_RESOLVE"

Clock == \A e \in EventIds : Begun(e) => events[e].createdAt <= now

TriggerFirst ==
    \A t, e \in EventIds :
        Trigger(t) /\ events[e].alert = events[t].alert /\ e # t =>
            /\ Visible(t)
            /\ ~Trigger(e)
            /\ events[t].createdAt < events[e].createdAt

WireInOrder ==
    /\ \A i \in DOMAIN wire : Visible(wire[i])
    /\ \A i, j \in DOMAIN wire : i < j => events[wire[i]].createdAt < events[wire[j]].createdAt
    /\ link # "up" => wire = <<>>

SeenBehind ==
    /\ \A s \in seen : Visible(s)
    /\ \A s \in seen : \A i \in DOMAIN wire : At(s) <= events[wire[i]].createdAt
    /\ lastEventId = ZeroUuid => seen = {}
    /\ lastEventId # ZeroUuid =>
         /\ lastEventId \in seen
         /\ \A s \in seen : At(s) <= At(lastEventId)

CursorAhead ==
    link = "up" =>
        /\ ToDate(cursor.at) = cursor.at
        /\ \A s \in seen : At(s) <= cursor.at
        /\ \A i \in DOMAIN wire : At(wire[i]) <= cursor.at

SameAlert(t, r) == Trigger(t) /\ Resolve(r) /\ events[t].alert = events[r].alert

TriggerBeforeResolve ==
    \A t, r \in EventIds : SameAlert(t, r) =>
        /\ r \in seen => t \in seen \/ events[t].createdAt <= At(r)
        /\ \A j \in DOMAIN wire : wire[j] = r =>
             \/ t \in seen
             \/ \E i \in DOMAIN wire : i < j /\ wire[i] = t
             \/ events[t].createdAt <= At(r)

StreamInv ==
    /\ Clock /\ TriggerFirst
    /\ WireInOrder /\ SeenBehind /\ CursorAhead /\ TriggerBeforeResolve

Inserts(d) ==
    \E a \in Alerts, type \in {"ALERT_TRIGGER", "ALERT_ACK", "ALERT_RESOLVE"} : BeginInsert(d, a, type)
Writes(d) == Inserts(d) \/ CommitInsert(d)

Kept(e) ==
    /\ events'[e].alert = events[e].alert
    /\ events'[e].type = events[e].type
    /\ events'[e].createdAt = events[e].createdAt
    /\ Visible(e) => events'[e].visible

LEMMA EventType ==
  ASSUME StreamTypeOK, NEW e \in EventIds
  PROVE  /\ events[e].createdAt \in 0..MaxEvents /\ events[e].createdAt \in Nat
         /\ At(e) \in Nat /\ At(e) <= events[e].createdAt
         /\ events[e].visible \in BOOLEAN
         /\ Visible(e) => Begun(e)
         /\ Begun(e) => events[e].alert \in Alerts
         /\ Begun(e) => events[e].type \in {"ALERT_TRIGGER", "ALERT_ACK", "ALERT_RESOLVE"}
         /\ ~Begun(e) => events[e].alert = NoAlert /\ events[e].type = "none"
<1>1. MaxEvents \in Nat
  BY AlertStreamAssumption
<1>2. \/ events[e] = NoEvent
      \/ events[e] \in [alert : Alerts, type : {"ALERT_TRIGGER", "ALERT_ACK", "ALERT_RESOLVE"},
                        createdAt : EventIds, visible : BOOLEAN]
  BY DEF StreamTypeOK
<1>3. events[e].createdAt \in Nat
  BY <1>1, <1>2 DEF NoEvent, EventIds
<1>4. At(e) \in Nat /\ At(e) <= events[e].createdAt
  BY <1>3, ToDateOf DEF At
<1>5. CASE events[e] = NoEvent
  BY <1>1, <1>3, <1>4, <1>5 DEF NoEvent, Begun, Visible, NoAlert
<1>6. CASE events[e] # NoEvent
  <2>1. events[e] \in [alert : Alerts, type : {"ALERT_TRIGGER", "ALERT_ACK", "ALERT_RESOLVE"},
                        createdAt : EventIds, visible : BOOLEAN]
    BY <1>2, <1>6
  <2> QED BY <1>1, <1>3, <1>4, <1>6, <2>1 DEF Begun, EventIds
<1> QED BY <1>5, <1>6

LEMMA NowType ==
  now \in Nat /\ now' \in Nat
<1>1. IsFiniteSet(EventIds)
  BY AlertStreamAssumption, FS_Interval DEF EventIds
<1>2. IsFiniteSet({e \in EventIds : Begun(e)}) /\ IsFiniteSet({e \in EventIds : Begun(e)'})
  BY <1>1, FS_Subset
<1> QED BY <1>2, FS_CardinalityType DEF now

(* An INSERT starts at a time of its own, later than all before.           *)
LEMMA Begins ==
  ASSUME StreamTypeOK, NEW d \in EventIds, NEW a, NEW type, BeginInsert(d, a, type)
  PROVE  /\ now' = now + 1 /\ now + 1 \in EventIds
         /\ events' = [events EXCEPT ![d] =
               [alert |-> a, type |-> type, createdAt |-> now + 1, visible |-> FALSE]]
         /\ events'[d] = [alert |-> a, type |-> type, createdAt |-> now + 1, visible |-> FALSE]
         /\ \A e \in EventIds : e # d => events'[e] = events[e]
<1> DEFINE B == {e \in EventIds : Begun(e)}
           C == {e \in EventIds : Begun(e)'}
<1>1. /\ events' = [events EXCEPT ![d] =
               [alert |-> a, type |-> type, createdAt |-> now + 1, visible |-> FALSE]]
      /\ ~Begun(d)
  BY DEF BeginInsert
<1>2. DOMAIN events = EventIds
  BY DEF StreamTypeOK
<1>3. /\ events'[d] = [alert |-> a, type |-> type, createdAt |-> now + 1, visible |-> FALSE]
      /\ \A e \in EventIds : e # d => events'[e] = events[e]
  BY <1>1, <1>2
<1>4. now \in Nat
  BY NowType
<1>5. events'[d] # NoEvent
  BY <1>3, <1>4 DEF NoEvent
<1>6. C = B \cup {d} /\ d \notin B
  BY <1>1, <1>3, <1>5 DEF Begun
<1>7. IsFiniteSet(EventIds) /\ Cardinality(EventIds) = MaxEvents /\ MaxEvents \in Nat
  BY AlertStreamAssumption, FS_Interval DEF EventIds
<1>8. IsFiniteSet(B) /\ IsFiniteSet(C) /\ Cardinality(C) <= MaxEvents
  BY <1>7, FS_Subset
<1>9. Cardinality(C) = Cardinality(B) + 1
  BY <1>6, <1>8, FS_AddElement
<1>10. now = Cardinality(B) /\ now' = Cardinality(C)
  BY DEF now
<1>11. now' = now + 1 /\ now + 1 \in EventIds
  BY <1>4, <1>7, <1>8, <1>9, <1>10 DEF EventIds
<1> QED BY <1>1, <1>3, <1>11

LEMMA Commits ==
  ASSUME StreamTypeOK, NEW d \in EventIds, CommitInsert(d)
  PROVE  /\ events'[d] = [events[d] EXCEPT !.visible = TRUE]
         /\ \A e \in EventIds : e # d => events'[e] = events[e]
         /\ \A e \in EventIds : Kept(e) /\ (Begun(e)' => Begun(e))
         /\ now' = now
<1> DEFINE B == {e \in EventIds : Begun(e)}
<1>1. /\ events' = [events EXCEPT ![d].visible = TRUE]
      /\ Begun(d)
  BY DEF CommitInsert
<1>2. DOMAIN events = EventIds
  BY DEF StreamTypeOK
<1>3. /\ events'[d] = [events[d] EXCEPT !.visible = TRUE]
      /\ \A e \in EventIds : e # d => events'[e] = events[e]
  BY <1>1, <1>2
<1>4. events[d] \in [alert : Alerts, type : {"ALERT_TRIGGER", "ALERT_ACK", "ALERT_RESOLVE"},
                    createdAt : EventIds, visible : BOOLEAN]
  BY <1>1 DEF StreamTypeOK, Begun
<1>5. /\ events'[d].alert = events[d].alert /\ events'[d].type = events[d].type
      /\ events'[d].createdAt = events[d].createdAt /\ events'[d].visible = TRUE
  BY <1>3, <1>4
<1>6. events'[d] # NoEvent
  BY <1>5 DEF NoEvent
<1>7. \A e \in EventIds : Kept(e) /\ (Begun(e)' <=> Begun(e))
  <2>1. Kept(d)
    BY <1>5 DEF Kept
  <2>2. \A e \in EventIds : e # d => Kept(e)
    BY <1>3 DEF Kept, Visible
  <2>3. \A e \in EventIds : Begun(e)' <=> Begun(e)
    BY <1>1, <1>3, <1>6 DEF Begun
  <2> QED BY <2>1, <2>2, <2>3
<1>8. now' = now
  <2>1. B = {e \in EventIds : Begun(e)'}
    BY <1>7
  <2> QED BY <2>1 DEF now
<1> QED BY <1>3, <1>7, <1>8

(* Writing an event leaves what is known of the events before it.          *)
LEMMA WritersKeep ==
  ASSUME StreamTypeOK, NEW d \in EventIds,
         Writes(d)
  PROVE  /\ \A e \in EventIds : Begun(e) => Kept(e)
         /\ \A e \in EventIds : Visible(e) =>
               /\ Kept(e) /\ Visible(e)' /\ At(e)' = At(e)
         /\ UNCHANGED <<linkVars, drops>>
<1>1. \A e \in EventIds : Begun(e) => Kept(e)
  <2>1. CASE Inserts(d)
    <3>1. PICK a \in Alerts, type \in {"ALERT_TRIGGER", "ALERT_ACK", "ALERT_RESOLVE"} : BeginInsert(d, a, type)
      BY <2>1 DEF Inserts
    <3>2. ~Begun(d)
      BY <3>1 DEF BeginInsert
    <3>3. \A e \in EventIds : e # d => events'[e] = events[e]
      BY <3>1, Begins
    <3> QED BY <3>2, <3>3 DEF Kept, Visible
  <2>2. CASE CommitInsert(d)
    BY <2>2, Commits
  <2> QED BY <2>1, <2>2 DEF Writes
<1>2. \A e \in EventIds : Visible(e) => Begun(e)
  BY EventType
<1>3. UNCHANGED <<linkVars, drops>>
  BY DEF Writes, Inserts, BeginInsert, CommitInsert
<1> QED BY <1>1, <1>2, <1>3 DEF Kept, Visible, At, ToDate

LEMMA WritersType ==
  ASSUME StreamTypeOK, NEW d \in EventIds,
         Writes(d)
  PROVE  StreamTypeOK'
<1> DEFINE Rows == [alert : Alerts, type : {"ALERT_TRIGGER", "ALERT_ACK", "ALERT_RESOLVE"},
                   createdAt : EventIds, visible : BOOLEAN]
<1>1. events \in [EventIds -> {NoEvent} \cup Rows]
  BY DEF StreamTypeOK
<1>2. events' \in [EventIds -> {NoEvent} \cup Rows]
  <2>1. CASE Inserts(d)
    <3>1. PICK a \in Alerts, type \in {"ALERT_TRIGGER", "ALERT_ACK", "ALERT_RESOLVE"} : BeginInsert(d, a, type)
      BY <2>1 DEF Inserts
    <3> DEFINE row == [alert |-> a, type |-> type, createdAt |-> now + 1, visible |-> FALSE]
    <3>2. events' = [events EXCEPT ![d] = row] /\ now + 1 \in EventIds
      BY <3>1, Begins
    <3>3. row \in Rows
      BY <3>2
    <3> HIDE DEF row, Rows
    <3> QED BY <1>1, <3>2, <3>3
  <2>2. CASE CommitInsert(d)
    <3>1. events' = [events EXCEPT ![d].visible = TRUE] /\ Begun(d)
      BY <2>2 DEF CommitInsert
    <3>2. events[d] \in Rows
      BY <1>1, <3>1 DEF Begun
    <3>3. [events[d] EXCEPT !.visible = TRUE] \in Rows
      BY <3>2
    <3> HIDE DEF Rows
    <3> QED BY <1>1, <3>1, <3>3
  <2> QED BY <2>1, <2>2 DEF Writes
<1>3. UNCHANGED <<link, cursor, wire, lastEventId, seen, drops>>
  BY WritersKeep DEF linkVars
<1> QED BY <1>2, <1>3 DEF StreamTypeOK, EventIds, ZeroUuid, NoEvent

LEMMA WritersTriggerFirst ==
  ASSUME StreamTypeOK, Clock, TriggerFirst, NEW d \in EventIds,
         Writes(d)
  PROVE  Clock' /\ TriggerFirst'
<1>1. CASE CommitInsert(d)
  <2>1. \A e \in EventIds : Kept(e) /\ (Begun(e)' => Begun(e))
    BY <1>1, Commits
  <2>2. Clock'
    BY <1>1, <2>1, Commits DEF Clock, Kept
  <2>3. TriggerFirst'
    BY <2>1 DEF TriggerFirst, Kept, Trigger, Visible
  <2> QED BY <2>2, <2>3
<1>2. CASE Inserts(d)
  <2>1. PICK a \in Alerts, type \in {"ALERT_TRIGGER", "ALERT_ACK", "ALERT_RESOLVE"} : BeginInsert(d, a, type)
    BY <1>2 DEF Inserts
  <2>2. /\ now' = now + 1 /\ now \in Nat
        /\ events'[d] = [alert |-> a, type |-> type, createdAt |-> now + 1, visible |-> FALSE]
        /\ \A e \in EventIds : e # d => events'[e] = events[e]
    BY <2>1, Begins, NowType
  <2>3. /\ ~Begun(d)
        /\ IF type = "ALERT_TRIGGER" THEN ~Triggered(a) ELSE TriggerVisible(a)
    BY <2>1 DEF BeginInsert
  <2>4. \A e \in EventIds : events[e].createdAt \in Nat
    BY EventType
  <2>5. Clock'
    BY <2>2, <2>4 DEF Clock, Begun
  <2>6. SUFFICES ASSUME NEW t \in EventIds, NEW e \in EventIds,
                        Trigger(t)', events'[e].alert = events'[t].alert, e # t
                 PROVE  Visible(t)' /\ ~Trigger(e)' /\ events'[t].createdAt < events'[e].createdAt
    BY <2>5 DEF TriggerFirst
  <2>7. CASE t # d /\ e # d
    BY <2>2, <2>6, <2>7 DEF TriggerFirst, Trigger, Visible
  <2>8. CASE t = d
    <3>1. events[e].alert = a /\ type = "ALERT_TRIGGER"
      BY <2>2, <2>6, <2>8 DEF Trigger
    <3> QED BY <2>3, <3>1 DEF Triggered
  <2>9. CASE e = d /\ t # d
    <3>1. Trigger(t) /\ events[t].alert = a /\ events'[t] = events[t]
      BY <2>2, <2>6, <2>9 DEF Trigger
    <3>2. TriggerVisible(a) /\ type # "ALERT_TRIGGER"
      BY <2>3, <3>1 DEF Triggered
    <3>3. Visible(t)
      BY <3>1, <3>2 DEF TriggerVisible, TriggerFirst
    <3>4. events[t].createdAt <= now
      BY <3>3, EventType DEF Clock
    <3> QED BY <2>2, <2>4, <2>9, <3>1, <3>2, <3>3, <3>4 DEF Trigger, Visible
  <2> QED BY <2>7, <2>8, <2>9
<1> QED BY <1>1, <1>2 DEF Writes

(* The trigger of an alert that has a visible event is itself visible.     *)
LEMMA SubjectKept ==
  ASSUME StreamTypeOK, Clock, TriggerFirst, NEW d \in EventIds,
         Writes(d),
         NEW t \in EventIds, NEW r \in EventIds, Visible(r), SameAlert(t, r)'
  PROVE  Kept(t)
<1>1. \A e \in EventIds : Begun(e) => Kept(e)
  BY WritersKeep
<1>2. Begun(r) /\ Kept(r)
  BY <1>1, EventType
<1>3. CASE CommitInsert(d)
  BY <1>3, Commits
<1>4. CASE Inserts(d)
  <2>1. PICK a \in Alerts, type \in {"ALERT_TRIGGER", "ALERT_ACK", "ALERT_RESOLVE"} : BeginInsert(d, a, type)
    BY <1>4 DEF Inserts
  <2>2. /\ events'[d] = [alert |-> a, type |-> type, createdAt |-> now + 1, visible |-> FALSE]
        /\ \A e \in EventIds : e # d => events'[e] = events[e]
    BY <2>1, Begins
  <2>3. t # d
    <3>1. SUFFICES ASSUME t = d PROVE FALSE
      OBVIOUS
    <3>2. type = "ALERT_TRIGGER" /\ events[r].alert = a
      BY <1>2, <2>2, <3>1 DEF SameAlert, Trigger, Kept
    <3> QED BY <2>1, <3>2 DEF BeginInsert, Triggered
  <2> QED BY <2>2, <2>3 DEF Kept, Visible
<1> QED BY <1>3, <1>4 DEF Writes

LEMMA WritersStream ==
  ASSUME StreamTypeOK, StreamInv, NEW d \in EventIds,
         Writes(d)
  PROVE  StreamInv'
<1> USE DEF StreamInv
<1>1. UNCHANGED <<link, cursor, wire, lastEventId, seen>>
  BY WritersKeep DEF linkVars
<1>2. \A e \in EventIds : Visible(e) => Kept(e) /\ Visible(e)' /\ At(e)' = At(e)
  BY WritersKeep
<1>3. /\ \A i \in DOMAIN wire : wire[i] \in EventIds /\ Visible(wire[i])
      /\ \A s \in seen : s \in EventIds /\ Visible(s)
  BY DEF StreamTypeOK, WireInOrder, SeenBehind
<1>4. WireInOrder'
  BY <1>1, <1>2, <1>3 DEF WireInOrder, Kept
<1>5. SeenBehind'
  <2>1. lastEventId # ZeroUuid => At(lastEventId)' = At(lastEventId)
    <3>1. SUFFICES ASSUME lastEventId # ZeroUuid PROVE At(lastEventId)' = At(lastEventId)
      OBVIOUS
    <3>2. lastEventId \in seen /\ lastEventId' = lastEventId
      BY <1>1, <3>1 DEF SeenBehind
    <3>3. lastEventId \in EventIds /\ Visible(lastEventId)
      BY <1>3, <3>2
    <3> QED BY <1>2, <3>2, <3>3 DEF At
  <2> QED BY <1>1, <1>2, <1>3, <2>1 DEF SeenBehind, Kept
<1>6. CursorAhead'
  BY <1>1, <1>2, <1>3 DEF CursorAhead, ToDate
<1>7. TriggerBeforeResolve'
  <2>1. SUFFICES ASSUME NEW t \in EventIds, NEW r \in EventIds, SameAlert(t, r)'
        PROVE  /\ r \in seen => t \in seen \/ events'[t].createdAt <= At(r)'
               /\ \A j \in DOMAIN wire : wire[j] = r =>
                    \/ t \in seen
                    \/ \E i \in DOMAIN wire : i < j /\ wire[i] = t
                    \/ events'[t].createdAt <= At(r)'
    BY <1>1 DEF TriggerBeforeResolve
  <2>2. CASE ~Visible(r)
    BY <1>3, <2>2
  <2>3. CASE Visible(r)
    <3>1. Kept(r) /\ At(r)' = At(r)
      BY <1>2, <2>3
    <3>2. Kept(t)
      BY <2>1, <2>3, SubjectKept
    <3>3. SameAlert(t, r) /\ events'[t].createdAt = events[t].createdAt
      BY <2>1, <3>1, <3>2 DEF SameAlert, Trigger, Resolve, Kept
    <3> QED BY <3>1, <3>3 DEF TriggerBeforeResolve
  <2> QED BY <2>2, <2>3
<1>8. Clock' /\ TriggerFirst'
  BY WritersTriggerFirst
<1> QED BY <1>4, <1>5, <1>6, <1>7, <1>8

(* The rows of a poll are on the wire in order, after all that was seen.   *)
LEMMA PollStream ==
  ASSUME StreamTypeOK, StreamInv, Poll
  PROVE  StreamTypeOK' /\ StreamInv'
<1> USE DEF StreamInv
<1> DEFINE Found == {e \in EventIds : Visible(e) /\ After(e, cursor)}
           n == Len(wire')
<1>1. /\ link = "up" /\ wire = <<>> /\ wire' # <<>>
      /\ wire' \in [1..Cardinality(Found) -> Found]
      /\ ToSet(wire') = Found
      /\ \A i, j \in DOMAIN wire' : i < j => events[wire'[i]].createdAt < events[wire'[j]].createdAt
      /\ cursor' = CursorAt(Last(wire'))
      /\ UNCHANGED <<events, link, lastEventId, seen, drops>>
  BY DEF Poll, EventsAfter, InOrder
<1>2. Cardinality(Found) \in Nat
  <2>1. IsFiniteSet(EventIds)
    BY AlertStreamAssumption, FS_Interval DEF EventIds
  <2>2. IsFiniteSet(Found)
    BY <2>1, FS_Subset
  <2> QED BY <2>2, FS_CardinalityType
<1>3. /\ wire' \in Seq(Found) /\ wire' \in Seq(EventIds)
      /\ n \in Nat /\ n > 0 /\ DOMAIN wire' = 1..n
      /\ Last(wire') = wire'[n]
      /\ \A i \in 1..n : wire'[i] \in Found
      /\ \A e \in Found : \E i \in 1..n : wire'[i] = e
  <2>1. wire' \in Seq(Found)
    BY <1>1, <1>2, SeqDef
  <2>2. wire' \in Seq(EventIds) /\ n \in Nat /\ DOMAIN wire' = 1..n
    BY <2>1
  <2>3. n > 0
    BY <1>1, <2>2
  <2>4. \A i \in 1..n : wire'[i] \in Found
    BY <2>1
  <2>5. \A e \in Found : \E i \in 1..n : wire'[i] = e
    BY <1>1, <2>2 DEF ToSet
  <2>6. Last(wire') = wire'[n]
    BY DEF Last
  <2> QED BY <2>1, <2>2, <2>3, <2>4, <2>5, <2>6
<1> DEFINE last == wire'[n]
<1>4. last \in EventIds /\ cursor' = [at |-> At(last), id |-> last]
  BY <1>1, <1>3 DEF CursorAt, At
<1>5. \A e \in EventIds : /\ events[e].createdAt \in 0..MaxEvents /\ events[e].createdAt \in Nat
                          /\ At(e) \in Nat /\ At(e) <= events[e].createdAt
  BY EventType
<1>6. cursor.at \in Nat /\ \A e \in Found : cursor.at <= events[e].createdAt
  BY <1>5, AlertStreamAssumption DEF After, StreamTypeOK
<1>7. ASSUME NEW i \in 1..n PROVE events[wire'[i]].createdAt <= events[last].createdAt
  <2>1. n \in 1..n /\ wire'[i] \in EventIds
    BY <1>3
  <2>2. CASE i = n
    BY <1>4, <1>5, <2>2
  <2>3. CASE i < n
    <3>1. events[wire'[i]].createdAt < events[last].createdAt
      <4>1. i \in DOMAIN wire' /\ n \in DOMAIN wire'
        BY <1>3, <2>1
      <4>2. \A p, q \in DOMAIN wire' : p < q => events[wire'[p]].createdAt < events[wire'[q]].createdAt
        BY <1>1
      <4> HIDE DEF n
      <4> QED BY <2>3, <4>1, <4>2 DEF last
    <3>2. events[wire'[i]].createdAt \in Nat /\ events[last].createdAt \in Nat
      BY <1>4, <1>5, <2>1
    <3> QED BY <3>1, <3>2
  <2>4. i = n \/ i < n
    <3>1. n \in Nat
      BY <1>3
    <3> HIDE DEF n
    <3> QED BY <3>1
  <2> QED BY <2>2, <2>3, <2>4
<1>8. UNCHANGED <<now>> /\ \A e : At(e)' = At(e) /\ (Visible(e)' <=> Visible(e))
                        /\ (Trigger(e)' <=> Trigger(e)) /\ (Resolve(e)' <=> Resolve(e))
                        /\ events'[e] = events[e]
  BY <1>1 DEF now, Begun, At, ToDate, Visible, Trigger, Resolve
<1> HIDE DEF Found, n, last
<1>9. ASSUME NEW s \in seen PROVE At(s) <= cursor.at /\ At(s) <= At(last) /\ s \in EventIds
                                 /\ \A i \in 1..n : At(s) <= events[wire'[i]].createdAt
  <2>1. s \in EventIds /\ At(s) <= cursor.at
    BY <1>1 DEF CursorAhead, StreamTypeOK
  <2>2. \A i \in 1..n : At(s) <= events[wire'[i]].createdAt
    BY <1>3, <1>5, <1>6, <2>1 DEF Found
  <2>3. n \in 1..n
    BY <1>3
  <2>4. At(s) <= events[last].createdAt
    BY <2>2, <2>3 DEF last
  <2>5. At(s) <= At(last)
    BY <1>4, <1>5, <2>1, <2>4, ToDateMonotone DEF At
  <2> QED BY <2>1, <2>2, <2>5
<1>10. ASSUME NEW i \in 1..n PROVE At(wire'[i]) <= At(last)
  <2>1. wire'[i] \in EventIds
    BY <1>3
  <2>2. At(wire'[i]) <= events[last].createdAt
    BY <1>4, <1>5, <1>7, <2>1
  <2> QED BY <1>4, <1>5, <2>1, <2>2, ToDateMonotone DEF At
<1>11. StreamTypeOK'
  <2>1. At(last) \in 0..MaxEvents
    BY <1>4, <1>5, AlertStreamAssumption
  <2>2. cursor' \in [at : 0..MaxEvents, id : EventIds \cup {ZeroUuid}]
    BY <1>4, <2>1
  <2> QED BY <1>1, <1>3, <2>2 DEF StreamTypeOK
<1>12. Clock' /\ TriggerFirst'
  BY <1>1, <1>8 DEF Clock, TriggerFirst, Begun
<1>13. WireInOrder'
  BY <1>1, <1>3, <1>8 DEF WireInOrder, Found
<1>14. SeenBehind'
  <2>1. \A s \in seen' : Visible(s)'
    BY <1>1, <1>8 DEF SeenBehind
  <2>2. \A s \in seen' : \A i \in DOMAIN wire' : At(s)' <= events'[wire'[i]].createdAt
    BY <1>1, <1>3, <1>8, <1>9
  <2> QED BY <1>1, <1>8, <2>1, <2>2 DEF SeenBehind
<1>15. CursorAhead'
  <2>1. ToDate(At(last)) = At(last)
    BY <1>4, <1>5, ToDateOfDate DEF At
  <2>2. cursor'.at = At(last)
    BY <1>4
  <2>3. ToDate(cursor.at)' = cursor'.at
    BY <2>1, <2>2 DEF ToDate
  <2>4. \A s \in seen' : At(s)' <= cursor'.at
    BY <1>1, <1>8, <1>9, <2>2
  <2>5. \A i \in DOMAIN wire' : At(wire[i])' <= cursor'.at
    <3>1. \A i \in 1..n : At(wire'[i]) <= At(last)
      BY <1>10
    <3>2. DOMAIN wire' = 1..n
      BY <1>3
    <3>3. \A i : At(wire[i])' = At(wire'[i])
      BY <1>1 DEF At, ToDate
    <3> QED BY <2>2, <3>1, <3>2, <3>3
  <2> QED BY <2>3, <2>4, <2>5 DEF CursorAhead
<1>16. TriggerBeforeResolve'
  <2>1. SUFFICES ASSUME NEW t \in EventIds, NEW r \in EventIds, SameAlert(t, r)
        PROVE  /\ r \in seen => t \in seen \/ events[t].createdAt <= At(r)
               /\ \A j \in 1..n : wire'[j] = r =>
                    \/ t \in seen
                    \/ \E i \in 1..n : i < j /\ wire'[i] = t
                    \/ events[t].createdAt <= At(r)
    BY <1>1, <1>3, <1>8 DEF TriggerBeforeResolve, SameAlert
  <2>2. r \in seen => t \in seen \/ events[t].createdAt <= At(r)
    BY <2>1 DEF TriggerBeforeResolve
  <2>3. ASSUME NEW j \in 1..n, wire'[j] = r
        PROVE  (\E i \in 1..n : i < j /\ wire'[i] = t) \/ events[t].createdAt <= At(r)
    <3>1. t # r
      BY <2>1 DEF SameAlert, Trigger, Resolve
    <3>2. Visible(t) /\ events[t].createdAt < events[r].createdAt
      BY <2>1, <3>1 DEF SameAlert, TriggerFirst
    <3>3. CASE t \in Found
      <4>1. PICK i \in 1..n : wire'[i] = t
        BY <1>3, <3>3
      <4>2. i < j
        <5>1. i \in DOMAIN wire' /\ j \in DOMAIN wire' /\ i \in Int /\ j \in Int
          BY <1>3
        <5>2. events[t].createdAt \in Nat /\ events[r].createdAt \in Nat
          BY <1>5
        <5>3. j < i => events[r].createdAt < events[t].createdAt
          BY <1>1, <2>3, <4>1, <5>1
        <5> QED BY <2>3, <3>1, <3>2, <4>1, <5>1, <5>2, <5>3
      <4> QED BY <4>1, <4>2
    <3>4. CASE t \notin Found
      <4>1. events[t].createdAt <= cursor.at
        BY <1>5, <1>6, <3>2, <3>4 DEF Found, After
      <4>2. cursor.at <= events[r].createdAt
        BY <1>3, <1>6, <2>3
      <4>3. ToDate(cursor.at) = cursor.at
        BY <1>1 DEF CursorAhead
      <4>4. cursor.at <= At(r)
        BY <1>5, <1>6, <4>2, <4>3, ToDateMonotone DEF At
      <4> QED BY <1>5, <1>6, <4>1, <4>4
    <3> QED BY <3>3, <3>4
  <2> QED BY <2>2, <2>3
<1> QED BY <1>11, <1>12, <1>13, <1>14, <1>15, <1>16

(* What is received leaves the front of the wire.                          *)
LEMMA ConsumeStream ==
  ASSUME StreamTypeOK, StreamInv, ConsumeBlock
  PROVE  StreamTypeOK' /\ StreamInv'
<1> USE DEF StreamInv
<1> DEFINE n == Len(wire)
           h == wire[1]
<1>1. /\ wire # <<>> /\ wire' = Tail(wire)
      /\ lastEventId' = Head(wire) /\ seen' = seen \cup {Head(wire)}
      /\ UNCHANGED <<events, link, cursor, drops>>
  BY DEF ConsumeBlock
<1>2. wire \in Seq(EventIds)
  BY DEF StreamTypeOK
<1>3. /\ n \in Nat /\ n > 0 /\ DOMAIN wire = 1..n /\ Head(wire) = h
      /\ wire' \in Seq(EventIds) /\ DOMAIN wire' = 1..n - 1
      /\ \A i \in 1..n - 1 : wire'[i] = wire[i + 1]
      /\ \A i \in 1..n : wire[i] \in EventIds
  BY <1>1, <1>2
<1>4. h \in EventIds /\ h # ZeroUuid
  BY <1>3 DEF EventIds, ZeroUuid
<1>5. \A e \in EventIds : /\ events[e].createdAt \in Nat
                          /\ At(e) \in Nat /\ At(e) <= events[e].createdAt
  BY EventType
<1>6. UNCHANGED <<now>> /\ \A e : At(e)' = At(e) /\ (Visible(e)' <=> Visible(e))
                        /\ (Trigger(e)' <=> Trigger(e)) /\ (Resolve(e)' <=> Resolve(e))
                        /\ events'[e] = events[e]
  BY <1>1 DEF now, Begun, At, ToDate, Visible, Trigger, Resolve
<1>7. link = "up"
  BY <1>1 DEF WireInOrder
<1>8. /\ \A i \in 1..n : Visible(wire[i]) /\ At(wire[i]) <= cursor.at
      /\ \A i, j \in 1..n : i < j => events[wire[i]].createdAt < events[wire[j]].createdAt
      /\ \A s \in seen : \A i \in 1..n : At(s) <= events[wire[i]].createdAt
  BY <1>3, <1>7 DEF WireInOrder, CursorAhead, SeenBehind
<1>9. 1 \in 1..n /\ \A i \in 1..n - 1 : i + 1 \in 1..n /\ 1 < i + 1
  BY <1>3
<1> HIDE DEF n, h
<1>10. ASSUME NEW s \in seen PROVE s \in EventIds /\ At(s) <= At(h)
  <2>1. s \in EventIds
    BY DEF StreamTypeOK
  <2>2. At(s) <= events[h].createdAt
    BY <1>8, <1>9 DEF h
  <2> QED BY <1>4, <1>5, <2>1, <2>2, ToDateMonotone DEF At
<1>11. StreamTypeOK'
  BY <1>1, <1>3, <1>4 DEF StreamTypeOK
<1>12. Clock' /\ TriggerFirst'
  BY <1>1, <1>6 DEF Clock, TriggerFirst, Begun
<1>13. WireInOrder'
  <2>1. \A i \in DOMAIN wire' : Visible(wire[i])'
    BY <1>1, <1>3, <1>8, <1>9 DEF Visible
  <2>2. \A i, j \in DOMAIN wire' : i < j => events'[wire'[i]].createdAt < events'[wire'[j]].createdAt
    BY <1>1, <1>3, <1>8, <1>9
  <2> QED BY <1>1, <1>7, <2>1, <2>2 DEF WireInOrder
<1>14. SeenBehind'
  <2>1. Visible(h)
    BY <1>8, <1>9 DEF h
  <2>2. \A s \in seen' : Visible(s)'
    BY <1>1, <1>3, <1>6, <2>1 DEF SeenBehind
  <2>3. \A s \in seen' : \A i \in DOMAIN wire' : At(s)' <= events'[wire'[i]].createdAt
    <3>1. SUFFICES ASSUME NEW s \in seen \cup {h}, NEW i \in 1..n - 1
          PROVE  At(s) <= events[wire[i + 1]].createdAt
      BY <1>1, <1>3, <1>6
    <3>2. wire[i + 1] \in EventIds /\ events[h].createdAt < events[wire[i + 1]].createdAt
      BY <1>3, <1>8, <1>9 DEF h
    <3> QED BY <1>4, <1>5, <1>8, <1>9, <3>2
  <2>4. \A s \in seen' : At(s)' <= At(h)
    BY <1>1, <1>3, <1>4, <1>5, <1>6, <1>10
  <2>5. lastEventId' = h /\ At(lastEventId)' = At(h)
    BY <1>1, <1>3 DEF At, ToDate
  <2> QED BY <1>1, <1>3, <1>4, <2>2, <2>3, <2>4, <2>5 DEF SeenBehind
<1>15. CursorAhead'
  <2>1. \A s \in seen' : At(s)' <= cursor'.at
    BY <1>1, <1>3, <1>6, <1>7, <1>8, <1>9 DEF CursorAhead, h
  <2>2. \A i \in DOMAIN wire' : At(wire[i])' <= cursor'.at
    <3>1. \A i : At(wire[i])' = At(wire'[i])
      BY <1>1 DEF At, ToDate
    <3> QED BY <1>1, <1>3, <1>8, <1>9, <3>1
  <2>3. ToDate(cursor.at)' = cursor'.at
    BY <1>1, <1>7 DEF CursorAhead, ToDate
  <2> QED BY <2>1, <2>2, <2>3 DEF CursorAhead
<1>16. TriggerBeforeResolve'
  <2>1. SUFFICES ASSUME NEW t \in EventIds, NEW r \in EventIds, SameAlert(t, r)
        PROVE  /\ r \in seen \cup {h} => t \in seen \cup {h} \/ events[t].createdAt <= At(r)
               /\ \A j \in 1..n - 1 : wire[j + 1] = r =>
                    \/ t \in seen \cup {h}
                    \/ \E i \in 1..n - 1 : i < j /\ wire[i + 1] = t
                    \/ events[t].createdAt <= At(r)
    <3>1. /\ seen' = seen \cup {h} /\ DOMAIN wire' = 1..n - 1
          /\ \A i \in 1..n - 1 : wire'[i] = wire[i + 1]
      BY <1>1, <1>3
    <3>2. \A t, r : SameAlert(t, r)' <=> SameAlert(t, r)
      BY <1>6 DEF SameAlert
    <3>3. \A e : events'[e].createdAt = events[e].createdAt /\ At(e)' = At(e)
      BY <1>6
    <3> HIDE DEF StreamInv
    <3>4. SUFFICES ASSUME NEW t \in EventIds, NEW r \in EventIds, SameAlert(t, r)'
          PROVE  /\ r \in seen' => t \in seen' \/ events'[t].createdAt <= At(r)'
                 /\ \A j \in DOMAIN wire' : wire'[j] = r =>
                      \/ t \in seen'
                      \/ \E i \in DOMAIN wire' : i < j /\ wire'[i] = t
                      \/ events'[t].createdAt <= At(r)'
      BY DEF TriggerBeforeResolve
    <3>5. SameAlert(t, r)
      BY <3>2, <3>4
    <3> QED BY <3>1, <3>3, <3>5
  <2>2. /\ r \in seen => t \in seen \/ events[t].createdAt <= At(r)
        /\ \A j \in 1..n : wire[j] = r =>
             \/ t \in seen
             \/ \E i \in 1..n : i < j /\ wire[i] = t
             \/ events[t].createdAt <= At(r)
    BY <1>3, <2>1 DEF TriggerBeforeResolve
  <2>3. r = h => t \in seen \/ events[t].createdAt <= At(r)
    BY <1>9, <2>2 DEF h
  <2>4. ASSUME NEW j \in 1..n - 1, wire[j + 1] = r
        PROVE  \/ t \in seen \cup {h}
               \/ \E i \in 1..n - 1 : i < j /\ wire[i + 1] = t
               \/ events[t].createdAt <= At(r)
    <3>1. SUFFICES ASSUME NEW i \in 1..n, i < j + 1, wire[i] = t, t # h
                   PROVE  \E k \in 1..n - 1 : k < j /\ wire[k + 1] = t
      BY <1>9, <2>2, <2>4
    <3>2. i # 1
      BY <3>1 DEF h
    <3>3. i - 1 \in 1..n - 1 /\ i - 1 < j /\ wire[(i - 1) + 1] = t
      BY <1>3, <3>1, <3>2
    <3> QED BY <3>3
  <2> QED BY <2>2, <2>3, <2>4
<1> QED BY <1>11, <1>12, <1>13, <1>14, <1>15, <1>16

(* A request opened, closed or forgotten: nothing is on the wire after it. *)
LEMMA LinkStream ==
  ASSUME StreamTypeOK, StreamInv,
         Connect \/ GiveUp \/ ConnectionLost \/ Start \/ Stop \/ Reset
  PROVE  StreamTypeOK' /\ StreamInv'
<1> USE DEF StreamInv
<1>1. UNCHANGED events
  BY DEF Connect, GiveUp, ConnectionLost, Start, Stop, Reset
<1>2. wire' = <<>> /\ DOMAIN wire' = {} /\ wire' \in Seq(EventIds)
  <2>1. link # "up" => wire = <<>>
    BY DEF WireInOrder
  <2>2. wire' = <<>>
    <3>1. CASE Connect \/ GiveUp \/ Start
      BY <2>1, <3>1 DEF Connect, GiveUp, Start
    <3>2. CASE ConnectionLost \/ Stop \/ Reset
      BY <3>2 DEF ConnectionLost, Stop, Reset, CloseRequest
    <3> QED BY <3>1, <3>2
  <2> QED BY <2>2
<1>3. \/ UNCHANGED <<lastEventId, seen>>
      \/ lastEventId' = ZeroUuid /\ seen' = {} /\ link' = "off"
  BY DEF Connect, GiveUp, ConnectionLost, Start, Stop, Reset
<1>4. UNCHANGED <<now>> /\ \A e : At(e)' = At(e) /\ (Visible(e)' <=> Visible(e))
                        /\ (Trigger(e)' <=> Trigger(e)) /\ (Resolve(e)' <=> Resolve(e))
                        /\ events'[e] = events[e]
  BY <1>1 DEF now, Begun, At, ToDate, Visible, Trigger, Resolve
<1>5. \A e \in EventIds : /\ events[e].createdAt \in 0..MaxEvents /\ events[e].createdAt \in Nat
                          /\ At(e) \in Nat /\ At(e) <= events[e].createdAt
  BY EventType
<1>6. MaxEvents \in Nat /\ now \in 0..MaxEvents /\ ToDate(now) \in 0..MaxEvents
  <2>1. IsFiniteSet(EventIds) /\ Cardinality(EventIds) = MaxEvents /\ MaxEvents \in Nat
    BY AlertStreamAssumption, FS_Interval DEF EventIds
  <2>2. now <= MaxEvents /\ now \in Nat
    BY <2>1, FS_Subset, NowType DEF now
  <2>3. ToDate(now) \in Nat /\ ToDate(now) <= now
    BY <2>2, ToDateOf
  <2> QED BY <2>1, <2>2, <2>3
<1>7. Connect =>
        /\ cursor' \in [at : 0..MaxEvents, id : EventIds \cup {ZeroUuid}]
        /\ ToDate(cursor'.at) = cursor'.at
        /\ \A s \in seen : At(s) <= cursor'.at
  <2>1. SUFFICES ASSUME Connect
        PROVE /\ cursor' \in [at : 0..MaxEvents, id : EventIds \cup {ZeroUuid}]
              /\ ToDate(cursor'.at) = cursor'.at
              /\ \A s \in seen : At(s) <= cursor'.at
    OBVIOUS
  <2>2. CASE lastEventId # ZeroUuid
    <3>1. /\ lastEventId \in seen /\ lastEventId \in EventIds
          /\ \A s \in seen : At(s) <= At(lastEventId)
      BY <2>2 DEF SeenBehind, StreamTypeOK
    <3>2. cursor' = [at |-> At(lastEventId), id |-> lastEventId]
      BY <2>1, <2>2 DEF Connect, InitialCursor, CursorAt, At
    <3>3. ToDate(At(lastEventId)) = At(lastEventId)
      BY <1>5, <3>1, ToDateOfDate DEF At
    <3>4. At(lastEventId) \in 0..MaxEvents
      BY <1>5, <1>6, <3>1
    <3> QED BY <3>1, <3>2, <3>3, <3>4
  <2>3. CASE lastEventId = ZeroUuid
    <3>1. cursor' = [at |-> ToDate(now), id |-> ZeroUuid] /\ seen = {}
      BY <2>1, <2>3 DEF Connect, InitialCursor, SeenBehind
    <3>2. ToDate(ToDate(now)) = ToDate(now)
      BY <1>6, ToDateOfDate
    <3> QED BY <1>6, <3>1, <3>2
  <2> QED BY <2>2, <2>3
<1>8. /\ link' \in {"off", "down", "up", "dead"}
      /\ lastEventId' \in EventIds \cup {ZeroUuid} /\ seen' \subseteq EventIds
      /\ drops' \in 0..MaxDrops
  <2>1. MaxDrops \in Nat
    BY AlertStreamAssumption
  <2> QED BY <2>1 DEF StreamTypeOK, Connect, GiveUp, ConnectionLost, Start, Stop, Reset
<1>9. /\ cursor' \in [at : 0..MaxEvents, id : EventIds \cup {ZeroUuid}]
      /\ link' = "up" => Connect
  <2>1. [at |-> 0, id |-> ZeroUuid] \in [at : 0..MaxEvents, id : EventIds \cup {ZeroUuid}]
    BY <1>6
  <2> QED BY <1>7, <2>1 DEF StreamTypeOK, GiveUp, ConnectionLost, Start, Stop, Reset, CloseRequest
<1>10. StreamTypeOK'
  BY <1>1, <1>2, <1>8, <1>9 DEF StreamTypeOK
<1>11. Clock' /\ TriggerFirst'
  BY <1>1, <1>4 DEF Clock, TriggerFirst, Begun
<1>12. WireInOrder'
  BY <1>2 DEF WireInOrder
<1>13. SeenBehind'
  <2>1. CASE UNCHANGED <<lastEventId, seen>>
    <3>1. At(lastEventId)' = At(lastEventId)
      BY <1>1, <2>1 DEF At, ToDate
    <3> QED BY <1>2, <1>4, <2>1, <3>1 DEF SeenBehind
  <2>2. CASE lastEventId' = ZeroUuid /\ seen' = {}
    BY <2>2 DEF SeenBehind
  <2> QED BY <1>3, <2>1, <2>2
<1>14. CursorAhead'
  <2>1. SUFFICES ASSUME link' = "up" PROVE CursorAhead'
    BY DEF CursorAhead
  <2>2. ToDate(cursor.at)' = ToDate(cursor'.at) /\ seen' = seen
    BY <1>3, <2>1 DEF ToDate
  <2>3. /\ ToDate(cursor.at)' = cursor'.at
        /\ \A s \in seen' : At(s)' <= cursor'.at
    BY <1>4, <1>7, <1>9, <2>1, <2>2
  <2> QED BY <1>2, <2>3 DEF CursorAhead
<1>15. TriggerBeforeResolve'
  <2>1. SUFFICES ASSUME NEW t \in EventIds, NEW r \in EventIds, SameAlert(t, r), r \in seen'
        PROVE  t \in seen' \/ events[t].createdAt <= At(r)
    BY <1>2, <1>4 DEF TriggerBeforeResolve, SameAlert
  <2> QED BY <1>3, <2>1 DEF TriggerBeforeResolve
<1> QED BY <1>10, <1>11, <1>12, <1>13, <1>14, <1>15
-----------------------------------------------------------------------------
(***************************************************************************)
(* The page.                                                               *)
(***************************************************************************)
AppInv ==
    /\ TypeOK
    /\ StreamInv
    /\ AlarmFollowsPanel
    /\ pendingAlert \in tapped \cup {NoAlert}
    /\ handled \subseteq seen
    /\ account # "in" => handled = {}
    /\ PanelAgrees

LEMMA AppInit == Init => AppInv
<1> SUFFICES ASSUME Init PROVE AppInv
  OBVIOUS
<1>1. /\ events = [e \in EventIds |-> NoEvent] /\ link = "off"
      /\ cursor = [at |-> 0, id |-> ZeroUuid] /\ wire = <<>> /\ DOMAIN wire = {}
      /\ lastEventId = ZeroUuid /\ seen = {} /\ drops = 0
  BY DEF Init, StreamInit
<1>2. PanelInv /\ Shown = {}
  BY InitPanel DEF Init
<1>3. StreamTypeOK
  BY <1>1, AlertStreamAssumption DEF StreamTypeOK
<1>4. \A e \in EventIds : ~Begun(e) /\ ~Trigger(e) /\ events[e] = NoEvent
  BY <1>1 DEF Begun, Trigger, NoEvent
<1>5. StreamInv
  BY <1>1, <1>4 DEF StreamInv, Clock, TriggerFirst, WireInOrder, SeenBehind, CursorAhead,
                    TriggerBeforeResolve, SameAlert
<1>6. PanelAgrees /\ handled = {}
  BY <1>1, <1>2 DEF PanelAgrees, Handled, Init
<1>7. TypeOK
  BY <1>2, <1>3, AlertAppAssumption DEF TypeOK, PanelInv, PanelTypeOK, Init
<1> QED BY <1>2, <1>5, <1>6, <1>7 DEF AppInv, PanelInv, Init

(* What agreed goes on agreeing as long as the page, what was handed to it *)
(* and what was tapped stay, and the account is not that of a logout.      *)
LEMMA Agreed ==
  ASSUME PanelAgrees, UNCHANGED <<handled, tapped>>, Shown' = Shown,
         account' \in {"in", "out"} => account \in {"in", "out"},
         \A s \in handled : events'[s].alert = events[s].alert /\ events'[s].type = events[s].type,
         \A a : ResolvedAtOnce(a) => ResolvedAtOnce(a)'
  PROVE  PanelAgrees'
<1>1. \A a, type : Handled(a, type)' <=> Handled(a, type)
  BY DEF Handled
<1> QED BY <1>1 DEF PanelAgrees

LEMMA OutsideStep ==
  ASSUME AppInv, Outside
  PROVE  AppInv'
<1> USE DEF AppInv
<1>1. StreamTypeOK /\ PanelInv
  BY DEF TypeOK, PanelInv, PanelTypeOK
<1>2. UNCHANGED <<panelVars, pageVars>>
  BY DEF Outside
<1>3. PanelInv' /\ Shown' = Shown
  BY <1>1, <1>2, PanelStays
<1>4. /\ StreamTypeOK' /\ StreamInv' /\ seen' = seen
      /\ \A s \in seen : events'[s].alert = events[s].alert /\ events'[s].type = events[s].type
      /\ \A a : ResolvedAtOnce(a) => ResolvedAtOnce(a)'
  <2>1. CASE \E d \in EventIds : Writes(d)
    <3>1. PICK d \in EventIds : Writes(d)
      BY <2>1
    <3>2. StreamTypeOK' /\ StreamInv'
      BY <1>1, <3>1, WritersType, WritersStream
    <3>3. \A e \in EventIds : Begun(e) => Kept(e)
      BY <1>1, <3>1, WritersKeep
    <3>4. \A s \in seen : s \in EventIds /\ Begun(s)
      BY <1>1, EventType DEF StreamTypeOK, StreamInv, SeenBehind
    <3>5. seen' = seen
      BY <1>1, <3>1, WritersKeep DEF linkVars
    <3>6. ASSUME NEW a, ResolvedAtOnce(a) PROVE ResolvedAtOnce(a)'
      <4>1. PICK t \in EventIds, r \in EventIds :
              /\ events[t].alert = a /\ events[t].type = "ALERT_TRIGGER"
              /\ events[r].alert = a /\ events[r].type = "ALERT_RESOLVE"
              /\ events[t].createdAt = ToDate(events[r].createdAt)
        BY <3>6 DEF ResolvedAtOnce
      <4>2. Begun(t) /\ Begun(r)
        BY <4>1 DEF Begun, NoEvent
      <4>3. Kept(t) /\ Kept(r)
        BY <3>3, <4>2
      <4> QED BY <4>1, <4>3 DEF ResolvedAtOnce, Kept, ToDate
    <3> QED BY <3>2, <3>3, <3>4, <3>5, <3>6 DEF Kept
  <2>2. CASE Poll \/ Connect \/ GiveUp \/ ConnectionLost
    <3>1. StreamTypeOK' /\ StreamInv'
      BY <1>1, <2>2, PollStream, LinkStream
    <3>2. UNCHANGED <<events, seen>>
      BY <2>2 DEF Poll, Connect, GiveUp, ConnectionLost
    <3> QED BY <3>1, <3>2 DEF ResolvedAtOnce, ToDate
  <2> QED BY <2>1, <2>2 DEF Outside, Writes, Inserts
<1>5. PanelAgrees'
  BY <1>2, <1>3, <1>4, Agreed DEF pageVars, accountVars, tapVars
<1> QED BY <1>2, <1>3, <1>4, <1>5 DEF TypeOK, PanelInv, PanelTypeOK, pageVars, accountVars, tapVars

(* The page's own steps: the events stay.                                  *)
LEMMA SameInstants ==
  ASSUME UNCHANGED events
  PROVE  \A a : ResolvedAtOnce(a)' <=> ResolvedAtOnce(a)
  BY DEF ResolvedAtOnce, ToDate

LEMMA ReceiveStep ==
  ASSUME AppInv, Receive
  PROVE  AppInv'
<1> USE DEF AppInv
<1> DEFINE e == Head(wire)
<1>1. StreamTypeOK /\ PanelInv
  BY DEF TypeOK, PanelInv, PanelTypeOK
<1>2. /\ ConsumeBlock /\ UNCHANGED <<accountVars, tapVars>>
      /\ IF e \notin seen /\ LoggedIn THEN
            /\ HandleAlertStreamEvent(events[e].alert, events[e].type)
            /\ handled' = IF account = "in" THEN handled \cup {e} ELSE {}
         ELSE UNCHANGED <<panelVars, handled>>
  BY DEF Receive, IsNew
<1>3. StreamTypeOK' /\ StreamInv'
  BY <1>1, <1>2, ConsumeStream
<1>4. /\ wire # <<>> /\ wire \in Seq(EventIds) /\ seen' = seen \cup {e} /\ UNCHANGED events
  BY <1>1, <1>2 DEF ConsumeBlock, StreamTypeOK
<1>5. e \in EventIds /\ 1 \in DOMAIN wire /\ e = wire[1]
      /\ \A i \in DOMAIN wire : ~(i < 1)
  BY <1>4
<1> HIDE DEF e
<1>6. Visible(e) /\ Begun(e) /\ events[e].alert \in Alerts
      /\ events[e].type \in {"ALERT_TRIGGER", "ALERT_ACK", "ALERT_RESOLVE"}
  <2>1. Visible(e)
    BY <1>5 DEF StreamInv, WireInOrder
  <2> QED BY <1>1, <1>5, <2>1, EventType
<1> DEFINE a == events[e].alert
           type == events[e].type
<1> DEFINE handed == e \notin seen /\ LoggedIn
<1>7. /\ handled' \subseteq seen' /\ (account' # "in" => handled' = {})
      /\ handled' \in SUBSET EventIds
  BY <1>1, <1>2, <1>4, <1>5 DEF accountVars, StreamTypeOK
<1> SUFFICES PanelInv' /\ PanelAgrees'
  BY <1>2, <1>3, <1>7 DEF TypeOK, PanelInv, PanelTypeOK, accountVars, tapVars
<1>8. /\ tapped' = tapped /\ account' = account
      /\ \A b : ResolvedAtOnce(b)' <=> ResolvedAtOnce(b)
  BY <1>2, <1>4, SameInstants DEF accountVars, tapVars
<1>9. CASE ~handed
  <2>1. PanelInv' /\ Shown' = Shown
    BY <1>1, <1>2, <1>9, PanelStays
  <2>2. handled' = handled
    BY <1>2, <1>9
  <2> QED BY <1>4, <1>8, <2>1, <2>2, Agreed
<1>13. ASSUME handed, account = "in"
       PROVE  \A b, k : Handled(b, k)' <=> Handled(b, k) \/ (b = a /\ k = type)
  BY <1>2, <1>4, <1>13 DEF Handled
<1>14. ASSUME handed, account # "in"
       PROVE  PanelAgrees'
  BY <1>8, <1>14 DEF PanelAgrees, LoggedIn
<1>10. CASE handed /\ type = "ALERT_ACK"
  <2>1. UNCHANGED panelVars
    BY <1>2, <1>10 DEF HandleAlertStreamEvent
  <2>2. PanelInv' /\ Shown' = Shown
    BY <1>1, <2>1, PanelStays
  <2> QED BY <1>8, <1>10, <1>13, <1>14, <2>2 DEF PanelAgrees
<1>11. CASE handed /\ type = "ALERT_TRIGGER"
  <2>1. PresentInAppAlert(a)
    BY <1>2, <1>11 DEF HandleAlertStreamEvent
  <2>2. PanelInv' /\ \A b : b \in Shown' <=> b = a \/ b \in Shown
    BY <1>1, <1>6, <2>1, PresentPanel
  <2>3. Handled(a, "ALERT_RESOLVE") => ResolvedAtOnce(a)
    <3>1. SUFFICES ASSUME NEW r \in handled, events[r].alert = a, events[r].type = "ALERT_RESOLVE"
                   PROVE  ResolvedAtOnce(a)
      BY DEF Handled
    <3>2. r \in EventIds /\ r \in seen
      BY <1>1 DEF StreamTypeOK
    <3>3. SameAlert(e, r)
      BY <1>11, <3>1 DEF SameAlert, Trigger, Resolve
    <3>4. events[e].createdAt <= At(r)
      BY <1>5, <1>11, <3>1, <3>2, <3>3 DEF StreamInv, TriggerBeforeResolve
    <3>5. At(r) <= events[e].createdAt
      BY <1>5, <3>2 DEF StreamInv, SeenBehind
    <3>6. events[e].createdAt = At(r)
      BY <1>1, <1>5, <3>2, <3>4, <3>5, EventType
    <3> QED BY <1>5, <1>11, <3>1, <3>2, <3>6 DEF ResolvedAtOnce, At
  <2>4. PanelAgrees'
    BY <1>8, <1>11, <1>13, <1>14, <2>2, <2>3 DEF PanelAgrees
  <2> QED BY <2>2, <2>4
<1>12. CASE handed /\ type = "ALERT_RESOLVE"
  <2>1. ResolveInAppAlert(a)
    BY <1>2, <1>12 DEF HandleAlertStreamEvent
  <2>2. PanelInv' /\ \A b : b \in Shown' <=> b # a /\ b \in Shown
    BY <1>1, <1>6, <2>1, ResolvePanel
  <2>3. PanelAgrees'
    BY <1>8, <1>12, <1>13, <1>14, <2>2 DEF PanelAgrees
  <2> QED BY <2>2, <2>3
<1> QED BY <1>6, <1>9, <1>10, <1>11, <1>12

LEMMA StreamStays ==
  ASSUME StreamTypeOK, StreamInv, UNCHANGED <<events, link, cursor, wire, lastEventId, seen, drops>>
  PROVE  StreamTypeOK' /\ StreamInv'
<1>1. StreamTypeOK'
  BY DEF StreamTypeOK
<1>2. /\ now' = now /\ At(lastEventId)' = At(lastEventId) /\ ToDate(cursor.at)' = ToDate(cursor.at)
      /\ \A e : /\ At(e)' = At(e) /\ (Visible(e)' <=> Visible(e)) /\ (Begun(e)' <=> Begun(e))
              /\ (Trigger(e)' <=> Trigger(e)) /\ (Resolve(e)' <=> Resolve(e))
      /\ \A i : At(wire[i])' = At(wire[i])
  BY DEF now, Begun, At, ToDate, Visible, Trigger, Resolve
<1>3. Clock' /\ TriggerFirst'
  BY <1>2 DEF StreamInv, Clock, TriggerFirst
<1>4. WireInOrder'
  BY <1>2 DEF StreamInv, WireInOrder, Visible
<1>5. SeenBehind'
  BY <1>2 DEF StreamInv, SeenBehind
<1>6. CursorAhead'
  BY <1>2 DEF StreamInv, CursorAhead
<1>7. TriggerBeforeResolve'
  BY <1>2 DEF StreamInv, TriggerBeforeResolve, SameAlert
<1> QED BY <1>1, <1>3, <1>4, <1>5, <1>6, <1>7 DEF StreamInv

LEMMA PageStep ==
  ASSUME AppInv,
         \/ OnPageHide \/ OnPageShow \/ User \/ Login \/ LoginDone \/ ClearTokens
         \/ BeginLogout \/ InvalidateSession \/ EndLogout
         \/ \E a \in Alerts : TapNotification(a)
         \/ \E found \in BOOLEAN : PendingAlertLoaded(found)
  PROVE  AppInv'
<1> USE DEF AppInv
<1>1. StreamTypeOK /\ PanelInv
  BY DEF TypeOK, PanelInv, PanelTypeOK
<1>2. ASSUME OnPageHide \/ OnPageShow \/ User \/ Login \/ LoginDone \/ ClearTokens
      PROVE  AppInv'
  <2> USE DEF OnPageHide, OnPageShow, User, Login, LoginDone, ClearTokens
  <2>1. PanelInv' /\ Shown' = Shown
    BY <1>1, <1>2, PanelStays, SoundPanel
  <2>2. StreamTypeOK' /\ StreamInv' /\ UNCHANGED <<seen, events>>
    <3>1. CASE Start \/ Stop
      <4>1. UNCHANGED <<seen, events>>
        BY <3>1 DEF Start, Stop
      <4> QED BY <1>1, <3>1, <4>1, LinkStream
    <3>2. CASE UNCHANGED streamVars
      BY <1>1, <3>2, StreamStays DEF streamVars, linkVars
    <3> QED BY <1>2, <3>1, <3>2 DEF StartAlertStream, StopAlertStream
  <2>3. /\ UNCHANGED <<pendingAlert, tapped, taps, logouts, handled>>
        /\ starting' \in BOOLEAN /\ visible' \in BOOLEAN
    BY <1>2 DEF pageVars, accountVars, tapVars, TypeOK
  <2>4. /\ account' \in {"in", "leaving", "cleared", "out"}
        /\ account' # "in" => handled' = {}
        /\ account' \in {"in", "out"} => account \in {"in", "out"}
    BY <1>2, <2>3 DEF pageVars, accountVars, TypeOK
  <2>5. PanelAgrees'
    BY <2>1, <2>2, <2>3, <2>4, SameInstants, Agreed
  <2> HIDE DEF OnPageHide, OnPageShow, User, Login, LoginDone, ClearTokens
  <2> QED BY <2>1, <2>2, <2>3, <2>4, <2>5 DEF TypeOK, PanelInv, PanelTypeOK
<1>3. ASSUME BeginLogout \/ InvalidateSession
      PROVE  AppInv'
  <2>1. PICK then \in {"leaving", "cleared"} : EndSession(then)
    BY <1>3 DEF BeginLogout, InvalidateSession
  <2>2. PanelInv'
    BY <1>1, <2>1, PanelStays DEF EndSession
  <2>3. StreamTypeOK' /\ StreamInv'
    BY <1>1, <2>1, LinkStream DEF EndSession
  <2>4. /\ account' = then /\ handled' = {}
        /\ UNCHANGED <<pendingAlert, tapped, taps, starting, visible>>
    BY <2>1 DEF EndSession, tapVars
  <2>5. logouts' \in 0..MaxLogouts
    <3>1. logouts < MaxLogouts /\ logouts' = logouts + 1
      BY <2>1 DEF EndSession
    <3>2. logouts \in 0..MaxLogouts /\ MaxLogouts \in Nat
      BY AlertAppAssumption DEF TypeOK
    <3> QED BY <3>1, <3>2
  <2>6. PanelAgrees'
    BY <2>4 DEF PanelAgrees
  <2> QED BY <2>2, <2>3, <2>4, <2>5, <2>6 DEF TypeOK, PanelInv, PanelTypeOK
<1>6. ASSUME EndLogout
      PROVE  AppInv'
  <2>1. PanelInv' /\ \A b : b \notin Shown'
    BY <1>6, ClearPanel DEF EndLogout
  <2>2. /\ account' = "out" /\ handled' = {}
        /\ UNCHANGED <<pendingAlert, tapped, taps, starting, visible, logouts>>
    BY <1>6 DEF EndLogout, tapVars
  <2>3. StreamTypeOK' /\ StreamInv' /\ UNCHANGED <<events, seen>>
    BY <1>1, <1>6, StreamStays DEF EndLogout, streamVars, linkVars
  <2>4. PanelAgrees'
    BY <2>1, <2>2 DEF PanelAgrees, Handled
  <2> QED BY <2>1, <2>2, <2>3, <2>4 DEF TypeOK, PanelInv, PanelTypeOK
<1>4. ASSUME NEW a \in Alerts, TapNotification(a)
      PROVE  AppInv'
  <2>1. PanelInv' /\ \A b : b \in Shown' <=> b = a \/ b \in Shown
    BY <1>1, <1>4, PresentPanel DEF TapNotification
  <2>2. /\ UNCHANGED streamVars /\ UNCHANGED <<account, starting, visible, logouts, handled>>
        /\ pendingAlert' = a /\ tapped' = tapped \cup {a} /\ taps' \in 0..MaxTaps
    BY <1>4, AlertAppAssumption DEF TapNotification, TypeOK, accountVars
  <2>3. StreamTypeOK' /\ StreamInv' /\ UNCHANGED <<events, seen>>
    BY <1>1, <2>2, StreamStays DEF streamVars, linkVars
  <2>4. PanelAgrees'
    <3>1. \A b, k : Handled(b, k)' <=> Handled(b, k)
      BY <2>2, <2>3 DEF Handled
    <3> QED BY <2>1, <2>2, <2>3, <3>1, SameInstants DEF PanelAgrees
  <2> QED BY <2>1, <2>2, <2>3, <2>4 DEF TypeOK, PanelInv, PanelTypeOK
<1>5. ASSUME NEW found \in BOOLEAN, PendingAlertLoaded(found)
      PROVE  AppInv'
  <2>1. pendingAlert \in tapped /\ pendingAlert \in Alerts
    BY <1>5 DEF PendingAlertLoaded, TypeOK
  <2>2. /\ PanelInv'
        /\ \A b : b # pendingAlert => (b \in Shown' <=> b \in Shown)
    <3>1. CASE PresentInAppAlert(pendingAlert)
      BY <1>1, <2>1, <3>1, PresentPanel
    <3>2. CASE UNCHANGED panelVars
      BY <1>1, <3>2, PanelStays
    <3> QED BY <1>5, <3>1, <3>2 DEF PendingAlertLoaded
  <2>3. UNCHANGED streamVars /\ UNCHANGED <<accountVars, tapped, taps, handled>> /\ pendingAlert' = NoAlert
    BY <1>5 DEF PendingAlertLoaded
  <2>4. StreamTypeOK' /\ StreamInv' /\ UNCHANGED <<events, seen>>
    BY <1>1, <2>3, StreamStays DEF streamVars, linkVars
  <2>5. PanelAgrees'
    <3>1. \A b, k : Handled(b, k)' <=> Handled(b, k)
      BY <2>3, <2>4 DEF Handled
    <3> QED BY <2>1, <2>2, <2>3, <2>4, <3>1, SameInstants DEF PanelAgrees, accountVars
  <2> QED BY <2>2, <2>3, <2>4, <2>5 DEF TypeOK, PanelInv, PanelTypeOK, accountVars
<1> QED BY <1>2, <1>3, <1>4, <1>5, <1>6

LEMMA AppStep == AppInv /\ [Next]_vars => AppInv'
<1> SUFFICES ASSUME AppInv, [Next]_vars PROVE AppInv'
  OBVIOUS
<1>1. CASE Outside
  BY <1>1, OutsideStep
<1>2. CASE Receive
  BY <1>2, ReceiveStep
<1>3. CASE \/ OnPageHide \/ OnPageShow \/ User \/ Login \/ LoginDone \/ ClearTokens
           \/ BeginLogout \/ InvalidateSession \/ EndLogout
           \/ \E a \in Alerts : TapNotification(a)
           \/ \E found \in BOOLEAN : PendingAlertLoaded(found)
  BY <1>3, PageStep
<1>4. CASE UNCHANGED vars
  <2>1. StreamTypeOK /\ PanelInv
    BY DEF AppInv, TypeOK, PanelInv, PanelTypeOK
  <2>2. UNCHANGED <<panelVars, pageVars>> /\ UNCHANGED streamVars
    BY <1>4 DEF vars
  <2>3. PanelInv' /\ Shown' = Shown
    BY <2>1, <2>2, PanelStays
  <2>4. StreamTypeOK' /\ StreamInv' /\ UNCHANGED <<events, seen>>
    BY <2>1, <2>2, StreamStays DEF AppInv, streamVars, linkVars
  <2>5. PanelAgrees'
    BY <2>2, <2>3, <2>4, SameInstants, Agreed DEF AppInv, pageVars, accountVars, tapVars
  <2> QED BY <2>2, <2>3, <2>4, <2>5 DEF AppInv, TypeOK, PanelInv, PanelTypeOK,
                                      pageVars, accountVars, tapVars
<1> QED BY <1>1, <1>2, <1>3, <1>4 DEF Next

LEMMA AppInvariant == Spec => []AppInv
  BY AppInit, AppStep, PTL DEF Spec

(* Every variable of the stream, the panel and the page has its type.      *)
THEOREM TypeCorrect == Spec => []TypeOK
<1>1. AppInv => TypeOK
  BY DEF AppInv
<1> QED BY <1>1, AppInvariant, PTL

(* Whatever the number of alerts and the order their events arrive in, are *)
(* muted, tapped and forgotten at a logout: the sound is on exactly while  *)
(* an alert is on display that was not muted, and none waits in silence.   *)
THEOREM AppAlarmFollowsPanel == Spec => []AlarmFollowsPanel
<1>1. AppInv => AlarmFollowsPanel
  BY DEF AppInv
<1> QED BY <1>1, AppInvariant, PTL

(* The panel shows what the stream handed to it in the session and did not *)
(* take back, over repeated polls, lost connections, rows that become      *)
(* visible in an order other than that of their created_at, and a client   *)
(* that outlives a logout and serves the next session.                     *)
THEOREM AppPanelAgrees == Spec => []PanelAgrees
<1>1. AppInv => PanelAgrees
  BY DEF AppInv
<1> QED BY <1>1, AppInvariant, PTL
=============================================================================
