------------------------- MODULE SceneRules_proofs --------------------------
(***************************************************************************)
(* No edge is missed, no command is sent without its conditions and rules  *)
(* on the time are served once in a minute, for any lists of rules,        *)
(* devices, values and queue.                                              *)
(*                                                                         *)
(* A rule that stands after a report and did not before has a condition on *)
(* the device that reported, which is an input with a new value: the       *)
(* report is evaluated, the condition is its trigger, and every condition  *)
(* is compared with just the values that are saved afterwards.             *)
(***************************************************************************)
EXTENDS SceneRules, TLAPS

\* Reports are of devices; those of inputs have values.
IsMsg(m) == m.type = "report" => m.dev \in Device /\ (m.dev \in In => m.val \in Value)
InboxType == \E S : inbox \in Seq(S) /\ \A m \in S : IsMsg(m)

IsValues(vals) == vals = [d \in Device |-> vals[d]]

\* What the proof needs of the types, and the property
EdgeInv == IsValues(values) /\ InboxType /\ NoMissedEdge

-----------------------------------------------------------------------------
\* Posting keeps the type of the queue, whether there is room or not.
LEMMA PostedType ==
  ASSUME InboxType, NEW m, IsMsg(m), inbox' = Posted(inbox, m)
  PROVE  InboxType'
<1>1. PICK S : inbox \in Seq(S) /\ \A n \in S : IsMsg(n)
  BY DEF InboxType
<1> DEFINE T == S \cup {m}
<1>2. inbox \in Seq(T) /\ m \in T /\ \A n \in T : IsMsg(n)
  BY <1>1
<1> HIDE DEF T
<1>3. inbox' \in Seq(T)
  BY <1>2 DEF Posted
<1> QED BY <1>2, <1>3 DEF InboxType, IsMsg

\* A rule that stands with values in which only d changed, and did not before, has
\* a condition on d, and d is an input.
LEMMA NewlyStanding ==
  ASSUME NEW rule, NEW old, IsValues(old), NEW d \in Device, NEW v,
         Standing(rule, [old EXCEPT ![d] = v]), ~Standing(rule, old),
         old[d] # NoValue
  PROVE  \E i \in DOMAIN rule.inputs :
           /\ rule.inputs[i].cond \in Threshold
           /\ rule.inputs[i].dev = d /\ d \in In /\ v # old[d]
<1> DEFINE new == [old EXCEPT ![d] = v]
<1>1. PICK i \in DOMAIN rule.inputs :
        ~ LET c == rule.inputs[i]
          IN  /\ c.cond \in Threshold /\ c.dev \in In
              /\ old[c.dev] # NoValue
              /\ Compare(c.cond, old[c.dev], c.val)
  BY DEF Standing
<1>2. LET c == rule.inputs[i]
      IN  /\ c.cond \in Threshold /\ c.dev \in In
          /\ new[c.dev] # NoValue
          /\ Compare(c.cond, new[c.dev], c.val)
  BY DEF Standing
<1>3. new[rule.inputs[i].dev] # old[rule.inputs[i].dev]
  BY <1>1, <1>2
<1>4. rule.inputs[i].dev \in Device
  BY <1>2 DEF Device
<1>5. rule.inputs[i].dev = d /\ v # old[d]
  BY <1>3, <1>4 DEF IsValues
<1> QED BY <1>2, <1>5

\* Such a rule fires on the report.
LEMMA StandingFires ==
  ASSUME NEW rule, IsValues(values), NEW d \in Device, NEW v,
         Standing(rule, [values EXCEPT ![d] = v]),
         NEW i \in DOMAIN rule.inputs,
         rule.inputs[i].cond \in Threshold, rule.inputs[i].dev = d
  PROVE  Fires(rule, ByReport(d, v))
<1> DEFINE new == [values EXCEPT ![d] = v]
           why == ByReport(d, v)
<1>1. why.report /\ why.dev = d /\ why.val = v /\ why.vals = values
  BY DEF ByReport
<1>2. \A e \in Device : NewValue(why, e) = new[e]
  BY <1>1 DEF NewValue, IsOn, IsValues
<1>3. ASSUME NEW j \in DOMAIN rule.inputs
      PROVE  Holds(rule.inputs[j], why)
  <2> DEFINE c == rule.inputs[j]
  <2>1. /\ c.cond \in Threshold /\ c.dev \in In
        /\ new[c.dev] # NoValue
        /\ Compare(c.cond, new[c.dev], c.val)
    BY DEF Standing
  <2>2. c.dev \in Device
    BY <2>1 DEF Device
  <2>3. NewValue(why, c.dev) = new[c.dev]
    BY <1>2, <2>2
  <2>4. c.cond \notin {"in_range", "in_range_evday", "change", "change_over"}
    BY <2>1 DEF Threshold
  <2> HIDE DEF c, why, new
  <2>5. Holds(c, why)
    BY <2>1, <2>3, <2>4 DEF Holds
  <2> QED BY <2>5 DEF c
<1>4. Triggers(rule.inputs[i], why)
  BY <1>1 DEF Triggers, Threshold, IsOn
<1> QED BY <1>3, <1>4 DEF Fires, Standing

-----------------------------------------------------------------------------
LEMMA EdgeInit == Init => EdgeInv
<1> SUFFICES ASSUME Init PROVE EdgeInv
  OBVIOUS
<1>1. IsValues(values)
  BY DEF Init, IsValues
<1>2. inbox \in Seq({}) /\ \A m \in {} : IsMsg(m)
  BY DEF Init
<1>3. InboxType
  BY <1>2 DEF InboxType
<1> QED BY <1>1, <1>3 DEF Init, EdgeInv, NoMissedEdge

LEMMA ReportKeeps == EdgeInv /\ HandleReport => EdgeInv'
<1> SUFFICES ASSUME EdgeInv, HandleReport PROVE EdgeInv'
  OBVIOUS
<1> DEFINE d == Head(inbox).dev
           v == Head(inbox).val
<1>1. d \in Device
  BY DEF HandleReport, EdgeInv, InboxType, IsMsg
<1>2. PICK old \in IF values[d] = NoValue THEN Value ELSE {values[d]} :
        /\ IF Evaluates(d, v, old) THEN fired' = Firing(ByReport(d, v)) ELSE fired' = {}
        /\ values' = [values EXCEPT ![d] = v]
        /\ done' = {r \in StandingRules(rules, values') :
                      r \in done \cup fired' \/ values[d] = NoValue}
  BY DEF HandleReport
<1>3. IsValues(values)'
  BY <1>1, <1>2 DEF EdgeInv, IsValues
<1>4. InboxType'
  BY DEF HandleReport, EdgeInv, InboxType
<1>5. rules' = rules
  BY DEF HandleReport
<1>6. ASSUME NEW r \in StandingRules(rules, values'), values[d] # NoValue, r \notin done
      PROVE  r \in fired'
  <2>1. r \in DOMAIN rules /\ Standing(rules[r], [values EXCEPT ![d] = v])
    BY <1>2, <1>6 DEF StandingRules
  <2>2. ~Standing(rules[r], values)
    BY <1>6, <2>1 DEF EdgeInv, NoMissedEdge, StandingRules
  <2>3. IsValues(values)
    BY DEF EdgeInv
  <2> HIDE DEF d, v
  <2>4. PICK i \in DOMAIN rules[r].inputs :
          /\ rules[r].inputs[i].cond \in Threshold
          /\ rules[r].inputs[i].dev = d /\ d \in In /\ v # values[d]
    BY <1>1, <1>6, <2>1, <2>2, <2>3, NewlyStanding
  <2>5. Fires(rules[r], ByReport(d, v))
    BY <1>1, <2>1, <2>3, <2>4, StandingFires
  <2>6. Evaluates(d, v, old)
    BY <1>2, <1>6, <2>4 DEF Evaluates
  <2> QED BY <1>2, <2>1, <2>5, <2>6 DEF Firing
<1>7. NoMissedEdge'
  <2> HIDE DEF d, v
  <2> QED BY <1>2, <1>5, <1>6 DEF NoMissedEdge
<1> QED BY <1>3, <1>4, <1>7 DEF EdgeInv

LEMMA SecondKeeps == EdgeInv /\ HandleSecond => EdgeInv'
<1> SUFFICES ASSUME EdgeInv, HandleSecond PROVE EdgeInv'
  OBVIOUS
<1>1. PICK gone \in SUBSET Device :
        values' = [d \in Device |-> IF d \in gone THEN NoValue ELSE values[d]]
  BY DEF HandleSecond
<1>2. IsValues(values)'
  BY <1>1 DEF EdgeInv, IsValues
<1>3. InboxType'
  BY DEF HandleSecond, EdgeInv, InboxType
<1>4. rules' = rules /\ done' = done \cap StandingRules(rules, values')
  BY DEF HandleSecond
<1>5. ASSUME NEW rule, Standing(rule, values') PROVE Standing(rule, values)
  BY <1>1, <1>5 DEF Standing, Device
<1>6. NoMissedEdge'
  BY <1>4, <1>5 DEF NoMissedEdge, StandingRules, EdgeInv
<1> QED BY <1>2, <1>3, <1>6 DEF EdgeInv

\* The other steps change neither rules, values nor done, but for SetActive,
\* which starts anew.
LEMMA OthersKeep ==
  ASSUME EdgeInv,
         \/ \E list \in RuleLists : SetActive(list)
         \/ Tick
         \/ \E d \in In, v \in Value : InputReports(d, v)
         \/ Obey
         \/ UNCHANGED vars
  PROVE  EdgeInv'
<1>1. CASE \E list \in RuleLists : SetActive(list)
  BY <1>1 DEF SetActive, EdgeInv, InboxType, NoMissedEdge
<1>4. CASE Tick
  <2>1. InboxType'
    BY <1>4, PostedType DEF Tick, EdgeInv, IsMsg, SecondMsg
  <2> QED BY <1>4, <2>1 DEF Tick, Quietly, EdgeInv, NoMissedEdge
<1>5. CASE \E d \in In, v \in Value : InputReports(d, v)
  <2>1. InboxType'
    BY <1>5, PostedType DEF InputReports, EdgeInv, IsMsg, Report, Device
  <2> QED BY <1>5, <2>1 DEF InputReports, Quietly, EdgeInv, NoMissedEdge
<1>6. CASE Obey
  <2>1. InboxType'
    <3> DEFINE m == Report(Head(orders).dev, Head(orders).val)
    <3>1. CASE inbox' = inbox
      BY <3>1 DEF EdgeInv, InboxType
    <3>2. CASE Head(orders).dev \in Out /\ inbox' = Posted(inbox, m)
      <4>1. IsMsg(m)
        BY <3>2, DeviceAssumption DEF IsMsg, Report, Device
      <4> HIDE DEF m
      <4> QED BY <3>2, <4>1, PostedType DEF EdgeInv
    <3> QED BY <1>6, <3>1, <3>2 DEF Obey
  <2> QED BY <1>6, <2>1 DEF Obey, Quietly, EdgeInv, NoMissedEdge
<1>7. CASE UNCHANGED vars
  BY <1>7 DEF vars, EdgeInv, InboxType, NoMissedEdge
<1> QED BY <1>1, <1>4, <1>5, <1>6, <1>7

\* Whenever the conditions of a rule on inputs have come to hold, in whatever
\* order the reports came, scene::process has sent its commands.
THEOREM EdgesAreServed == Spec => []NoMissedEdge
<1>1. EdgeInv /\ [Next]_vars => EdgeInv'
  BY ReportKeeps, SecondKeeps, OthersKeep DEF Next, Controller
<1>2. EdgeInv => NoMissedEdge
  BY DEF EdgeInv
<1> QED BY EdgeInit, <1>1, <1>2, PTL DEF Spec

-----------------------------------------------------------------------------
(***************************************************************************)
(* Rules on the time, once in every minute.                                *)
(***************************************************************************)

\* At most one message of a second waits.
OneSecond(box) ==
  \A i, j \in DOMAIN box : box[i].type = "second" /\ box[j].type = "second" => i = j

\* Unless the controller is late, one message of a second waits at most, and the
\* rules have been evaluated in this minute unless that message is the minute's
\* first.
MinuteInv ==
  /\ \E S : inbox \in Seq(S)
  /\ now \in Nat
  /\ ~late => /\ OneSecond(inbox)
              /\ evals = IF FullMinute(now) /\ SecondWaits(inbox) THEN 0 ELSE 1

\* Receiving the message in front.
LEMMA SecondsOfTail ==
  ASSUME NEW S, NEW box \in Seq(S), box # <<>>
  PROVE  /\ Tail(box) \in Seq(S)
         /\ OneSecond(box) => OneSecond(Tail(box))
         /\ Head(box).type = "second" /\ OneSecond(box) => ~SecondWaits(Tail(box))
         /\ Head(box).type # "second" => (SecondWaits(Tail(box)) <=> SecondWaits(box))
<1>1. /\ Tail(box) \in Seq(S) /\ Len(box) \in Nat \ {0}
      /\ DOMAIN box = 1 .. Len(box) /\ Len(Tail(box)) = Len(box) - 1
      /\ DOMAIN Tail(box) = 1 .. Len(Tail(box)) /\ Head(box) = box[1]
  OBVIOUS
<1>2. \A i \in DOMAIN Tail(box) : i + 1 \in DOMAIN box /\ Tail(box)[i] = box[i + 1] /\ i + 1 # 1
  BY <1>1
<1>3. \A i \in DOMAIN box : i # 1 => i - 1 \in DOMAIN Tail(box) /\ Tail(box)[i - 1] = box[i]
  BY <1>1
<1>4. OneSecond(box) => OneSecond(Tail(box))
  BY <1>1, <1>2 DEF OneSecond
<1>5. ASSUME Head(box).type = "second", OneSecond(box) PROVE ~SecondWaits(Tail(box))
  BY <1>1, <1>2, <1>5 DEF OneSecond, SecondWaits
<1>6. ASSUME Head(box).type # "second" PROVE SecondWaits(Tail(box)) <=> SecondWaits(box)
  BY <1>1, <1>2, <1>3, <1>6 DEF SecondWaits
<1> QED BY <1>1, <1>4, <1>5, <1>6

\* Posting a message.
LEMMA SecondsOfPosted ==
  ASSUME NEW S, NEW box \in Seq(S), NEW m
  PROVE  /\ \E T : Posted(box, m) \in Seq(T)
         /\ m.type # "second" => /\ OneSecond(box) => OneSecond(Posted(box, m))
                                 /\ SecondWaits(Posted(box, m)) <=> SecondWaits(box)
         /\ m.type = "second" /\ ~SecondWaits(box) /\ Len(box) < MsgSlots
              => OneSecond(Posted(box, m)) /\ SecondWaits(Posted(box, m))
<1> DEFINE T == S \cup {m}
           new == Append(box, m)
<1>1. box \in Seq(T) /\ m \in T
  OBVIOUS
<1> HIDE DEF T
<1>2. /\ new \in Seq(T) /\ Len(box) \in Nat
      /\ DOMAIN box = 1 .. Len(box) /\ DOMAIN new = 1 .. Len(box) + 1
      /\ new[Len(box) + 1] = m /\ \A i \in DOMAIN box : new[i] = box[i]
  BY <1>1
<1>3. /\ \A i \in DOMAIN new : i = Len(box) + 1 \/ i \in DOMAIN box
      /\ DOMAIN box \subseteq DOMAIN new /\ Len(box) + 1 \in DOMAIN new
  BY <1>2
<1> HIDE DEF new
<1>4. Posted(box, m) = IF Len(box) < MsgSlots THEN new ELSE box
  BY DEF Posted, new
<1>5. ASSUME m.type # "second"
      PROVE  (OneSecond(box) => OneSecond(new)) /\ (SecondWaits(new) <=> SecondWaits(box))
  BY <1>2, <1>3, <1>5 DEF OneSecond, SecondWaits
<1>6. ASSUME m.type = "second", ~SecondWaits(box) PROVE OneSecond(new) /\ SecondWaits(new)
  BY <1>2, <1>3, <1>6 DEF OneSecond, SecondWaits
<1>7. \E U : Posted(box, m) \in Seq(U)
  BY <1>1, <1>2, <1>4
<1> QED BY <1>4, <1>5, <1>6, <1>7

LEMMA MinuteStep == MinuteInv /\ [Next]_vars => MinuteInv'
<1> SUFFICES ASSUME MinuteInv, [Next]_vars PROVE MinuteInv'
  OBVIOUS
<1>s. PICK S : inbox \in Seq(S)
  BY DEF MinuteInv
<1>1. CASE HandleReport
  <2>1. /\ inbox # <<>> /\ Head(inbox).type # "second" /\ inbox' = Tail(inbox)
        /\ UNCHANGED <<now, evals, late>>
    BY <1>1 DEF HandleReport
  <2>2. /\ inbox' \in Seq(S) /\ (OneSecond(inbox) => OneSecond(inbox'))
        /\ SecondWaits(inbox') <=> SecondWaits(inbox)
    BY <1>s, <2>1, SecondsOfTail
  <2> QED BY <2>1, <2>2 DEF MinuteInv, FullMinute
<1>2. CASE HandleSecond
  <2>1. /\ inbox # <<>> /\ Head(inbox).type = "second" /\ inbox' = Tail(inbox)
        /\ UNCHANGED <<now, late>>
        /\ evals' = IF FullMinute(now) THEN evals + 1 ELSE evals
    BY <1>2 DEF HandleSecond
  <2>2. SecondWaits(inbox)
    BY <1>s, <2>1 DEF SecondWaits
  <2>3. /\ inbox' \in Seq(S)
        /\ OneSecond(inbox) => OneSecond(inbox') /\ ~SecondWaits(inbox')
    BY <1>s, <2>1, SecondsOfTail
  <2>4. ~late => evals' = 1
    BY <2>1, <2>2 DEF MinuteInv
  <2> QED BY <2>1, <2>3, <2>4 DEF MinuteInv, FullMinute
<1>3. CASE Tick
  <2>1. /\ now' = now + 1 /\ inbox' = Posted(inbox, SecondMsg)
        /\ IF FullMinute(now')
             THEN evals' = 0 /\ late' = (SecondWaits(inbox) \/ Len(inbox) >= MsgSlots)
             ELSE /\ late' = (late \/ SecondWaits(inbox) \/ Len(inbox) >= MsgSlots)
                  /\ evals' = evals
    BY <1>3 DEF Tick
  <2>2. SecondMsg.type = "second"
    BY DEF SecondMsg
  <2>3. \E T : inbox' \in Seq(T)
    BY <1>s, <2>1, SecondsOfPosted
  <2>4. now' \in Nat
    BY <2>1 DEF MinuteInv
  <2>5. ASSUME ~late'
        PROVE  /\ OneSecond(inbox') /\ SecondWaits(inbox')
               /\ evals' = IF FullMinute(now') THEN 0 ELSE 1
    <3>1. ~SecondWaits(inbox) /\ ~(Len(inbox) >= MsgSlots)
      BY <2>1, <2>5
    <3>2. Len(inbox) < MsgSlots
      BY <1>s, <3>1, TimeAssumption
    <3>3. OneSecond(inbox') /\ SecondWaits(inbox')
      BY <1>s, <2>1, <2>2, <3>1, <3>2, SecondsOfPosted
    <3>4. evals' = IF FullMinute(now') THEN 0 ELSE 1
      BY <2>1, <2>5, <3>1 DEF MinuteInv
    <3> QED BY <3>3, <3>4
  <2>6. FullMinute(now)' = FullMinute(now')
    BY DEF FullMinute
  <2> QED BY <2>3, <2>4, <2>5, <2>6 DEF MinuteInv
<1>4. ASSUME NEW m, m.type # "second", inbox' = Posted(inbox, m), UNCHANGED <<now, evals, late>>
      PROVE  MinuteInv'
  <2>1. \E T : Posted(inbox, m) \in Seq(T)
    BY <1>s, SecondsOfPosted
  <2>2. /\ OneSecond(inbox) => OneSecond(inbox')
        /\ SecondWaits(inbox') <=> SecondWaits(inbox)
    BY <1>s, <1>4, SecondsOfPosted
  <2> QED BY <1>4, <2>1, <2>2 DEF MinuteInv, FullMinute
<1>5. ASSUME UNCHANGED <<inbox, now, evals, late>> PROVE MinuteInv'
  BY <1>5 DEF MinuteInv, FullMinute
<1>6. ASSUME NEW d, NEW v PROVE Report(d, v).type # "second"
  BY DEF Report
<1>7. CASE \E d \in In, v \in Value : InputReports(d, v)
  BY <1>4, <1>6, <1>7 DEF InputReports
<1>8. CASE Obey
  <2>1. \/ inbox' = inbox
        \/ inbox' = Posted(inbox, Report(Head(orders).dev, Head(orders).val))
    BY <1>8 DEF Obey
  <2> QED BY <1>4, <1>5, <1>6, <1>8, <2>1 DEF Obey
<1>9. CASE (\E list \in RuleLists : SetActive(list)) \/ UNCHANGED vars
  BY <1>5, <1>9 DEF SetActive, vars
<1> QED BY <1>1, <1>2, <1>3, <1>7, <1>8, <1>9 DEF Next, Controller

\* Rules on the time are evaluated once in every minute, if the controller handles
\* every second within that second (OncePerMinute): for any length of a minute,
\* any queue and whatever the devices report meanwhile.
THEOREM TimeIsServedOnce == Spec => []OncePerMinute
<1>1. Init => MinuteInv
  <2> SUFFICES ASSUME Init PROVE MinuteInv
    OBVIOUS
  <2>1. inbox \in Seq({}) /\ OneSecond(inbox) /\ ~SecondWaits(inbox)
    BY DEF Init, OneSecond, SecondWaits
  <2> QED BY <2>1 DEF Init, MinuteInv
<1>2. MinuteInv => OncePerMinute
  BY DEF MinuteInv, OncePerMinute, FullMinute
<1> QED BY <1>1, <1>2, MinuteStep, PTL DEF Spec

-----------------------------------------------------------------------------
(***************************************************************************)
(* Commands are sent only when their conditions hold.                      *)
(***************************************************************************)

\* No range of hours ends before it starts.
RangesRunForward ==
  \A list \in RuleLists : \A r \in DOMAIN list : \A i \in DOMAIN list[r].inputs :
    LET c == list[r].inputs[i]
    IN  c.cond = "in_range_evday" => c.start % Day <= c.end % Day

\* What the proof needs of the types.
DueInv ==
  /\ IsValues(values) /\ InboxType
  /\ rules \in RuleLists /\ now \in Nat
  /\ \A d \in In : values[d] \in Value \cup {NoValue}

\* Quotient and remainder exist, and no others do.
LEMMA Remains ==
  ASSUME NEW n \in Nat, n > 0, NEW t \in Int
  PROVE  t % n \in 0..(n - 1)
OBVIOUS

LEMMA Divides ==
  ASSUME NEW n \in Nat, n > 0, NEW t \in Int
  PROVE  \E q \in Int : t = n * q + (t % n)
OBVIOUS

LEMMA Remainder ==
  ASSUME NEW n \in Nat, n > 0, NEW t \in Int, NEW q \in Int, NEW r \in 0..(n - 1), t = n * q + r
  PROVE  t % n = r
OBVIOUS

\* The second before and the second after, within a day.
LEMMA NextSecond ==
  ASSUME NEW t \in Nat, (t % Day) + 1 < Day
  PROVE  (t + 1) % Day = (t % Day) + 1
<1>1. Day \in Nat /\ Day > 0
  BY TimeAssumption
<1>2. PICK n \in 0..(Day - 1) : n = t % Day
  BY <1>1, Remains
<1>3. PICK q \in Int : t = Day * q + n
  BY <1>1, <1>2, Divides
<1>4. n + 1 \in 0..(Day - 1)
  BY <1>1, <1>2
<1>5. t + 1 = Day * q + (n + 1)
  <2>1. PICK m \in Int : m = Day * q
    BY <1>1
  <2> QED BY <2>1, <1>3
<1>6. t + 1 \in Int
  OBVIOUS
<1> QED BY <1>1, <1>2, <1>4, <1>5, <1>6, Remainder

LEMMA SecondBefore ==
  ASSUME NEW t \in Nat, t % Day > 0
  PROVE  (t - 1) % Day = (t % Day) - 1
<1>1. Day \in Nat /\ Day > 0
  BY TimeAssumption
<1>2. PICK n \in 0..(Day - 1) : n = t % Day
  BY <1>1, Remains
<1>3. PICK q \in Int : t = Day * q + n
  BY <1>1, <1>2, Divides
<1>4. n - 1 \in 0..(Day - 1)
  BY <1>1, <1>2
<1>5. t - 1 = Day * q + (n - 1)
  <2>1. PICK m \in Int : m = Day * q
    BY <1>1
  <2> QED BY <2>1, <1>3
<1>6. t - 1 \in Int
  OBVIOUS
<1> QED BY <1>1, <1>2, <1>4, <1>5, <1>6, Remainder

LEMMA DueInit == Init => DueInv
BY EdgeInit DEF Init, EdgeInv, DueInv, Device

LEMMA DueStep == DueInv /\ [Next]_vars => DueInv'
<1> SUFFICES ASSUME DueInv, [Next]_vars PROVE DueInv'
  OBVIOUS
<1>1. CASE HandleReport
  <2> DEFINE d == Head(inbox).dev
             v == Head(inbox).val
  <2>1. d \in Device /\ (d \in In => v \in Value)
    BY <1>1 DEF HandleReport, DueInv, InboxType, IsMsg
  <2>2. values' = [values EXCEPT ![d] = v] /\ UNCHANGED <<rules, now>> /\ inbox' = Tail(inbox)
    BY <1>1 DEF HandleReport
  <2>3. InboxType'
    BY <1>1, <2>2 DEF HandleReport, DueInv, InboxType
  <2> HIDE DEF d, v
  <2>4. IsValues(values')
    BY <2>2 DEF DueInv, IsValues
  <2>5. \A e \in In : values'[e] \in Value \cup {NoValue}
    BY <2>1, <2>2 DEF DueInv, IsValues, Device
  <2> QED BY <2>2, <2>3, <2>4, <2>5 DEF DueInv, IsValues
<1>2. CASE HandleSecond
  <2>1. PICK gone \in SUBSET Device :
          values' = [d \in Device |-> IF d \in gone THEN NoValue ELSE values[d]]
    BY <1>2 DEF HandleSecond
  <2>2. InboxType'
    BY <1>2 DEF HandleSecond, DueInv, InboxType
  <2>3. UNCHANGED <<rules, now>>
    BY <1>2 DEF HandleSecond
  <2> QED BY <2>1, <2>2, <2>3 DEF DueInv, IsValues, Device
<1>3. CASE Tick
  <2>1. InboxType'
    BY <1>3, PostedType DEF Tick, DueInv, IsMsg, SecondMsg
  <2> QED BY <1>3, <2>1 DEF Tick, Quietly, DueInv, IsValues
<1>4. CASE \E d \in In, v \in Value : InputReports(d, v)
  <2>1. InboxType'
    BY <1>4, PostedType DEF InputReports, DueInv, IsMsg, Report, Device
  <2> QED BY <1>4, <2>1 DEF InputReports, Quietly, DueInv, IsValues
<1>5. CASE Obey
  <2>1. InboxType'
    <3> DEFINE m == Report(Head(orders).dev, Head(orders).val)
    <3>1. CASE inbox' = inbox
      BY <3>1 DEF DueInv, InboxType
    <3>2. CASE Head(orders).dev \in Out /\ inbox' = Posted(inbox, m)
      <4>1. IsMsg(m)
        BY <3>2, DeviceAssumption DEF IsMsg, Report, Device
      <4> HIDE DEF m
      <4> QED BY <3>2, <4>1, PostedType DEF DueInv
    <3> QED BY <1>5, <3>1, <3>2 DEF Obey
  <2> QED BY <1>5, <2>1 DEF Obey, Quietly, DueInv, IsValues
<1>6. CASE (\E list \in RuleLists : SetActive(list)) \/ UNCHANGED vars
  BY <1>6 DEF SetActive, vars, DueInv, IsValues, InboxType
<1> QED BY <1>1, <1>2, <1>3, <1>4, <1>5, <1>6 DEF Next, Controller

\* What holds while rules are evaluated holds afterwards, to a second: ranges ...
LEMMA RangeHoldsTruly ==
  ASSUME now \in Nat, NEW c, c.cond \in {"in_range", "in_range_evday"}, c.start \in Nat, c.end \in Nat,
         c.cond = "in_range_evday" => c.start % Day <= c.end % Day,
         NEW why, Holds(c, why)
  PROVE  TrueNow(c)
<1>1. Day \in Nat /\ Day > 0 /\ c.cond \notin Threshold
  BY TimeAssumption DEF Threshold
<1>2. CASE c.cond = "in_range"
  <2>1. c.start \div 2 <= now \div 2 /\ now \div 2 <= c.end \div 2
    BY <1>1, <1>2 DEF Holds, InRange, Packed
  <2>2. c.start <= now + 1 /\ now <= c.end + 1
    <3>1. PICK s \in Nat : s = c.start
      OBVIOUS
    <3>2. PICK e \in Nat : e = c.end
      OBVIOUS
    <3> QED BY <2>1, <3>1, <3>2
  <2> QED BY <1>1, <1>2, <2>2 DEF TrueNow
<1>3. CASE c.cond = "in_range_evday"
  <2>1. PICK s \in 0..(Day - 1) : s = c.start % Day
    BY <1>1, Remains
  <2>2. PICK e \in 0..(Day - 1) : e = c.end % Day
    BY <1>1, Remains
  <2>3. PICK n \in 0..(Day - 1) : n = now % Day
    BY <1>1, Remains
  <2>4. InRangeEveryDay(c, now)
    BY <1>1, <1>3 DEF Holds
  <2>5. s \div 2 <= n \div 2 /\ n \div 2 <= e \div 2 /\ s <= e
    BY <1>3, <2>1, <2>2, <2>3, <2>4 DEF InRangeEveryDay, Packed
  <2>6. \E t \in now - 1 .. now + 1 : s <= t % Day /\ t % Day <= e
    <3>1. CASE s <= n /\ n <= e
      BY <3>1, <1>1, <2>3
    <3>2. CASE n < s
      <4>1. s = n + 1
        BY <1>1, <2>5, <3>2
      <4>2. (now + 1) % Day = s
        BY <1>1, <2>3, <4>1, NextSecond
      <4> QED BY <1>1, <2>5, <4>2
    <3>3. CASE e < n
      <4>1. e = n - 1
        BY <1>1, <2>5, <3>3
      <4>2. (now - 1) % Day = e
        BY <1>1, <2>3, <4>1, SecondBefore
      <4> QED BY <1>1, <2>5, <4>2
    <3> QED BY <1>1, <3>1, <3>2, <3>3
  <2>7. \E t \in now - 1 .. now + 1 : c.start % Day <= t % Day /\ t % Day <= c.end % Day
    BY <2>1, <2>2, <2>6
  <2> QED BY <1>1, <1>3, <2>7 DEF TrueNow
<1> QED BY <1>2, <1>3

\* ... and conditions on a device.
LEMMA DeviceHoldsTruly ==
  ASSUME DueInv, NEW c, c.cond \in Threshold \cup {"change", "change_over"}, c.dev \in Device,
         NEW why, Holds(c, why),
         \A d \in Device : NewValue(why, d) = values'[d],
         why.report => why.vals = values /\ why.dev \in In /\ why.val \in Value
  PROVE  TrueNow(c)
<1>1. c.cond \notin {"in_range", "in_range_evday"}
  BY DEF Threshold
<1>2. CASE c.cond \in Threshold
  <2>1. c.cond \notin {"change", "change_over"}
    BY <1>2 DEF Threshold
  <2>2. NewValue(why, c.dev) # NoValue /\ Compare(c.cond, NewValue(why, c.dev), c.val)
    BY <1>1, <1>2, <2>1 DEF Holds
  <2>3. values'[c.dev] # NoValue /\ Compare(c.cond, values'[c.dev], c.val)
    BY <2>2
  <2> HIDE DEF Threshold
  <2> QED BY <1>1, <1>2, <2>1, <2>3 DEF TrueNow
<1>3. CASE c.cond = "change"
  <2>1. c.cond \notin Threshold
    BY <1>3 DEF Threshold
  <2>2. IsOn(why, c.dev) /\ why.vals[c.dev] \notin {NoValue, why.val}
    BY <1>1, <1>3, <2>1 DEF Holds
  <2>3. values'[c.dev] = why.val /\ why.vals = values
    BY <2>2 DEF NewValue, IsOn
  <2> QED BY <1>1, <1>3, <2>1, <2>2, <2>3 DEF TrueNow
<1>4. CASE c.cond = "change_over"
  <2>1. c.cond \notin Threshold
    BY <1>4 DEF Threshold
  <2>2. IsOn(why, c.dev) /\ why.vals[c.dev] # NoValue /\ Abs(why.val - why.vals[c.dev]) > c.val
    BY <1>1, <1>4, <2>1 DEF Holds
  <2>3. values'[c.dev] = why.val /\ why.vals = values /\ c.dev \in In /\ why.val \in Value
    BY <2>2 DEF NewValue, IsOn
  <2>4. values[c.dev] \in Value
    BY <2>2, <2>3 DEF DueInv
  <2>5. PICK v \in Int : v = why.val
    BY <2>3, ValueAssumption
  <2>6. PICK w \in Int : w = values[c.dev]
    BY <2>4, ValueAssumption
  <2>7. v - w > c.val \/ w - v > c.val
    <3>1. -(v - w) = w - v
      OBVIOUS
    <3> QED BY <2>2, <2>3, <2>5, <2>6, <3>1 DEF Abs
  <2>8. NoValue \notin {values[c.dev], values'[c.dev]}
    BY <2>2, <2>3, ValueAssumption
  <2> QED BY <1>1, <1>4, <2>1, <2>3, <2>5, <2>6, <2>7, <2>8 DEF TrueNow
<1> QED BY <1>2, <1>3, <1>4

LEMMA FiresTruly ==
  ASSUME DueInv, RangesRunForward, NEW why, NEW r \in Firing(why),
         \A d \in Device : NewValue(why, d) = values'[d],
         why.report => why.vals = values /\ why.dev \in In /\ why.val \in Value
  PROVE  Runs(rules[r]) /\ \A i \in DOMAIN rules[r].inputs : TrueNow(rules[r].inputs[i])
<1>1. r \in DOMAIN rules /\ Fires(rules[r], why)
  BY DEF Firing
<1>2. ASSUME NEW i \in DOMAIN rules[r].inputs
      PROVE  TrueNow(rules[r].inputs[i])
  <2>1. PICK c : c = rules[r].inputs[i]
    OBVIOUS
  <2>2. \/ c.cond \in {"in_range", "in_range_evday"} /\ {c.start, c.end} \subseteq Nat
        \/ c.cond \in Threshold \cup {"change", "change_over"} /\ c.dev \in Device
    BY <1>1, <1>2, <2>1, RuleAssumption DEF DueInv
  <2>3. c.cond = "in_range_evday" => c.start % Day <= c.end % Day
    BY <1>1, <1>2, <2>1 DEF DueInv, RangesRunForward
  <2>4. Holds(c, why) /\ now \in Nat
    BY <1>1, <1>2, <2>1 DEF Fires, DueInv
  <2>5. TrueNow(c)
    BY <2>2, <2>3, <2>4, RangeHoldsTruly, DeviceHoldsTruly
  <2> QED BY <2>1, <2>5
<1> QED BY <1>1, <1>2 DEF Fires

\* A rule sends commands only when its conditions hold with the values the device
\* manager has once the report is saved: for any rules, devices, values and queue,
\* provided no daily range of hours ends before it starts (such a range
\* would never hold, but for the two seconds that times are compared by).
THEOREM CommandsAreDue == ASSUME RangesRunForward PROVE Spec => NoFalseCommand
<1>1. DueInv /\ [Next]_vars =>
        [\A r \in fired' :
           /\ Runs(rules[r])
           /\ \A i \in DOMAIN rules[r].inputs : TrueNow(rules[r].inputs[i])]_vars
  <2> SUFFICES ASSUME DueInv, Next, NEW r \in fired'
               PROVE  /\ Runs(rules[r])
                      /\ \A i \in DOMAIN rules[r].inputs : TrueNow(rules[r].inputs[i])
    OBVIOUS
  <2>1. CASE HandleReport
    <3> DEFINE d == Head(inbox).dev
               v == Head(inbox).val
               why == ByReport(d, v)
    <3>1. d \in Device /\ (d \in In => v \in Value)
      BY <2>1 DEF HandleReport, DueInv, InboxType, IsMsg
    <3>2. r \in Firing(why) /\ d \in In /\ values' = [values EXCEPT ![d] = v]
      BY <2>1 DEF HandleReport, Evaluates
    <3> HIDE DEF d, v
    <3>3. why.report /\ why.vals = values /\ why.dev = d /\ why.val = v
      BY DEF ByReport
    <3> HIDE DEF why
    <3>4. \A e \in Device : NewValue(why, e) = values'[e]
      BY <3>2, <3>3 DEF NewValue, IsOn, DueInv, IsValues
    <3> QED BY <3>1, <3>2, <3>3, <3>4, FiresTruly
  <2>2. CASE HandleSecond
    <3> DEFINE why == ByTime(values')
    <3>1. r \in Firing(why)
      BY <2>2 DEF HandleSecond
    <3>2. ~why.report /\ why.vals = values'
      BY DEF ByTime
    <3> HIDE DEF why
    <3>3. \A e \in Device : NewValue(why, e) = values'[e]
      BY <3>2 DEF NewValue, IsOn
    <3> QED BY <3>1, <3>2, <3>3, FiresTruly
  <2>3. CASE ~HandleReport /\ ~HandleSecond
    BY <2>3 DEF Next, Controller, SetActive, Tick, InputReports, Obey, Quietly
  <2> QED BY <2>1, <2>2, <2>3
<1> QED BY <1>1, DueInit, DueStep, PTL DEF Spec, NoFalseCommand
=============================================================================
