----------------------------- MODULE SceneRules -----------------------------
(***************************************************************************)
(* The rules of the running and of the default scene in the control centre *)
(* (scene::process, called by slp_gff_handler for a report of a device and *)
(* by process_scene_with_1sec for the clock), together with the devices:   *)
(* inputs report changes, outputs report every command.                    *)
(*                                                                         *)
(* A rule sends its commands when all its conditions hold and one of them  *)
(* is on the device that reported, or on the time.  The device manager     *)
(* still has the value before the report while rules are evaluated.        *)
(*                                                                         *)
(* Elsewhere: the frames to and from the 6LoWPAN threads, which come here  *)
(* each with its message (GffChannel); how devices are found, added and    *)
(* forgotten, and a full list (DeviceMng); saves and uploads (NewScene).   *)
(***************************************************************************)
EXTENDS Integers, Sequences

LOCAL INSTANCE SequencesExt

CONSTANTS
  In, Out,      \* devices, by get_io_type
  Value,
  NoValue,      \* the device manager does not have the device
  RuleLists,    \* the rules that may run: user scene, then default scene
  Minute, Day,  \* their length in seconds
  MaxNow,       \* bound: seconds
  MaxReports,   \* bound: reports of inputs
  MsgSlots      \* controller_message_queue_size

Device == In \cup Out

ASSUME DeviceAssumption == In \cap Out = {}
ASSUME ValueAssumption == Value \subseteq Int /\ NoValue \notin Value
ASSUME TimeAssumption ==
  {Minute, Day} \subseteq Nat \ {0} /\ {MaxNow, MaxReports, MsgSlots} \subseteq Nat

VARIABLES
  rules,    \* rules_list of the user scene and of the default scene
  values,   \* what the device manager has, at first those restored from the file
  inbox,    \* messages to the controller: reports and seconds
  orders,   \* SET_DEV_VAL frames on their way to outputs
  now,      \* the clock, in seconds
  fired,    \* history: the rules that sent commands in the last step
  done,     \* history: the rules that fired since their conditions hold, or
            \* whose conditions came to hold unseen
  evals,    \* history: evaluations by time in this minute
  late,     \* history: a message of a second was handled in a later one, or lost
  reports   \* history: reports of inputs

vars == <<rules, values, inbox, orders, now, fired, done, evals, late, reports>>

Report(d, v) == [type |-> "report", dev |-> d, val |-> v]
SecondMsg == [type |-> "second"]
SecondWaits(box) == \E i \in DOMAIN box : box[i].type = "second"

\* msg_send(.., false)
Posted(box, m) == IF Len(box) < MsgSlots THEN Append(box, m) ELSE box

-----------------------------------------------------------------------------
(* scene::process.                                                         *)

\* Times are compared in packed form, where a unit is two seconds; every day:
\* only hour, minute and second are compared.
Packed(t) == t \div 2
InRange(c, t) == Packed(c.start) <= Packed(t) /\ Packed(t) <= Packed(c.end)
InRangeEveryDay(c, t) ==
  /\ Packed(c.start % Day) <= Packed(t % Day)
  /\ Packed(t % Day) <= Packed(c.end % Day)

Threshold == {"equal", "less", "less_or_equal", "greater", "greater_or_equal"}

\* Conditions are of the kinds of cond_e, on the time or on a device, known or not;
\* the switch of the code has no arm for any other.
ASSUME RuleAssumption ==
  \A list \in RuleLists : \A r \in DOMAIN list : \A i \in DOMAIN list[r].inputs :
    LET c == list[r].inputs[i]
    IN  \/ c.cond \in {"in_range", "in_range_evday"} /\ {c.start, c.end} \subseteq Nat
        \/ c.cond \in Threshold \cup {"change", "change_over"} /\ c.dev \in Device

Compare(kind, v, threshold) ==
  CASE kind = "equal"            -> v = threshold
    [] kind = "less"             -> v < threshold
    [] kind = "less_or_equal"    -> v <= threshold
    [] kind = "greater"          -> v > threshold
    [] kind = "greater_or_equal" -> v >= threshold

\* What brings the evaluation about, and the values the device manager then has
ByReport(d, v) == [report |-> TRUE, dev |-> d, val |-> v, vals |-> values]
ByTime(vals) == [report |-> FALSE, vals |-> vals]

IsOn(why, d) == why.report /\ why.dev = d

\* A fault: the device that reports is compared with its old value.
OldValue(why, d) == why.vals[d]

\* The value a threshold is compared with: of the device that reports the new one
NewValue(why, d) == IF IsOn(why, d) THEN why.val ELSE why.vals[d]

Abs(n) == IF n < 0 THEN -n ELSE n

Holds(c, why) ==
  CASE c.cond = "in_range"       -> InRange(c, now)
    [] c.cond = "in_range_evday" -> InRangeEveryDay(c, now)
    [] c.cond \in Threshold      -> /\ NewValue(why, c.dev) # NoValue
                                    /\ Compare(c.cond, NewValue(why, c.dev), c.val)
    [] c.cond = "change"         -> /\ IsOn(why, c.dev)
                                    /\ why.vals[c.dev] \notin {NoValue, why.val}
    [] c.cond = "change_over"    -> /\ IsOn(why, c.dev)
                                    /\ why.vals[c.dev] # NoValue
                                    /\ Abs(why.val - why.vals[c.dev]) > c.val

Triggers(c, why) ==
  IF c.cond \in {"in_range", "in_range_evday"} THEN ~why.report ELSE IsOn(why, c.dev)

\* The loop over the inputs of a rule stops at the first that fails.
Runs(rule) == rule.valid /\ rule.active
Fires(rule, why) ==
  /\ Runs(rule)
  /\ \A i \in DOMAIN rule.inputs : Holds(rule.inputs[i], why)
  /\ \E i \in DOMAIN rule.inputs : Triggers(rule.inputs[i], why)

\* scene_mng::process: the rules in their order
Firing(why) == {r \in DOMAIN rules : Fires(rules[r], why)}
Commands(why) ==
  FlattenSeq([r \in DOMAIN rules |-> IF r \in Firing(why) THEN rules[r].outputs ELSE <<>>])

-----------------------------------------------------------------------------
(* History: rules whose conditions are thresholds on inputs and hold.      *)

Standing(rule, vals) ==
  /\ Runs(rule) /\ rule.inputs # <<>>
  /\ \A i \in DOMAIN rule.inputs :
       LET c == rule.inputs[i]
       IN  /\ c.cond \in Threshold /\ c.dev \in In
           /\ vals[c.dev] # NoValue
           /\ Compare(c.cond, vals[c.dev], c.val)
StandingRules(list, vals) == {r \in DOMAIN list : Standing(list[r], vals)}

-----------------------------------------------------------------------------
(* The controller.                                                         *)

\* A fault: reports of outputs are evaluated, too.
EvaluatesAny(d, v, old) == v # old

\* Only a report of an input with a new value is evaluated.
Evaluates(d, v, old) == d \in In /\ v # old

\* slp_gff_handler.  The old value of a device that is not known is not
\* initialised: it may be anything.
HandleReport ==
  /\ inbox # <<>> /\ Head(inbox).type = "report"
  /\ inbox' = Tail(inbox)
  /\ LET d == Head(inbox).dev
         v == Head(inbox).val
     IN  \E old \in IF values[d] = NoValue THEN Value ELSE {values[d]} :
           LET why == ByReport(d, v)
           IN  /\ IF Evaluates(d, v, old)
                    THEN fired' = Firing(why) /\ orders' = orders \o Commands(why)
                    ELSE fired' = {} /\ UNCHANGED orders
               /\ values' = [values EXCEPT ![d] = v]
               /\ done' = {r \in StandingRules(rules, values') :
                             r \in done \cup fired' \/ values[d] = NoValue}
  /\ UNCHANGED <<rules, now, evals, late, reports>>

\* A fault: the rules are evaluated every second.
EverySecond(t) == TRUE

\* cur_time.sec == 0
FullMinute(t) == t % Minute = 0

\* ONE_SEC_INTERRUPT: devices may be forgotten, and rules are evaluated when the
\* time, read here, is a full minute.
HandleSecond ==
  /\ inbox # <<>> /\ Head(inbox).type = "second"
  /\ inbox' = Tail(inbox)
  /\ \E gone \in SUBSET {d \in Device : values[d] # NoValue} :
       values' = [d \in Device |-> IF d \in gone THEN NoValue ELSE values[d]]
  /\ IF FullMinute(now)
       THEN /\ fired' = Firing(ByTime(values'))
            /\ orders' = orders \o Commands(ByTime(values'))
            /\ evals' = evals + 1
       ELSE fired' = {} /\ UNCHANGED <<orders, evals>>
  /\ done' = done \cap StandingRules(rules, values')
  /\ UNCHANGED <<rules, now, late, reports>>

\* SET_ACT_SCENE, or an upload that takes the scene buffer or gives it back: other
\* rules run from now on.
SetActive(list) ==
  /\ rules' = list
  /\ done' = StandingRules(list, values)
  /\ fired' = {}
  /\ UNCHANGED <<values, inbox, orders, now, evals, late, reports>>

-----------------------------------------------------------------------------
(* The clock and the devices.                                              *)

Quietly == fired' = {} /\ UNCHANGED <<rules, values, done>>

\* second_int_callback
Tick ==
  /\ now < MaxNow
  /\ now' = now + 1
  /\ inbox' = Posted(inbox, SecondMsg)
  /\ LET delayed == SecondWaits(inbox) \/ Len(inbox) >= MsgSlots
     IN  IF FullMinute(now')
           THEN evals' = 0 /\ late' = delayed
           ELSE late' = (late \/ delayed) /\ UNCHANGED evals
  /\ Quietly
  /\ UNCHANGED <<orders, reports>>

\* An input reports a value, a new one or not.
InputReports(d, v) ==
  /\ reports < MaxReports
  /\ reports' = reports + 1
  /\ inbox' = Posted(inbox, Report(d, v))
  /\ Quietly
  /\ UNCHANGED <<orders, now, evals, late>>

\* A command reaches its device, and an output reports it back, or it is lost.
Obey ==
  /\ orders # <<>>
  /\ orders' = Tail(orders)
  /\ inbox' \in {inbox} \cup
       IF Head(orders).dev \in Out
         THEN {Posted(inbox, Report(Head(orders).dev, Head(orders).val))} ELSE {}
  /\ Quietly
  /\ UNCHANGED <<now, evals, late, reports>>

-----------------------------------------------------------------------------
Init ==
  /\ rules \in RuleLists
  /\ values \in [Device -> Value \cup {NoValue}]
  /\ inbox = <<>>
  /\ orders = <<>>
  /\ now = 0
  /\ fired = {}
  /\ done = StandingRules(rules, values)
  /\ evals = 1
  /\ late = FALSE
  /\ reports = 0

Controller == HandleReport \/ HandleSecond

Next ==
  \/ Controller
  \/ \E list \in RuleLists : SetActive(list)
  \/ Tick
  \/ \E d \in In, v \in Value : InputReports(d, v)
  \/ Obey

Spec == Init /\ [][Next]_vars

\* The controller thread runs whenever it has messages and the threads above it
\* wait, and frames to devices do not stay in the sender's queue.
FairSpec == Spec /\ WF_vars(Controller) /\ WF_vars(Obey)

-----------------------------------------------------------------------------
(* Properties.                                                             *)

\* Every variable keeps its type, and the message queue its capacity.
TypeOK ==
  /\ rules \in RuleLists
  /\ values \in [Device -> Value \cup {NoValue}]
  /\ inbox \in Seq([type : {"report"}, dev : Device, val : Value] \cup {SecondMsg})
  /\ Len(inbox) <= MsgSlots
  /\ orders \in Seq([dev : Device, val : Value])
  /\ now \in 0 .. MaxNow
  /\ fired \subseteq DOMAIN rules /\ done \subseteq DOMAIN rules
  /\ evals \in Nat
  /\ late \in BOOLEAN
  /\ reports \in 0 .. MaxReports

\* Whenever the conditions of a rule on values of inputs have come to hold, one
\* report after the other and in any order, the rule has sent its commands: no
\* edge is missed, unless it came with the first report of an unknown device.
NoMissedEdge == StandingRules(rules, values) \subseteq done

\* A rule sends commands only when all its conditions hold, each with the values
\* the device manager has once the report is saved, and the time to a second.
TrueNow(c) ==
  CASE c.cond = "in_range"       -> c.start <= now + 1 /\ now <= c.end + 1
    [] c.cond = "in_range_evday" -> \E t \in now - 1 .. now + 1 :
                                      c.start % Day <= t % Day /\ t % Day <= c.end % Day
    [] c.cond \in Threshold      -> /\ values'[c.dev] # NoValue
                                    /\ Compare(c.cond, values'[c.dev], c.val)
    [] c.cond = "change"         -> values[c.dev] \notin {NoValue, values'[c.dev]}
    [] c.cond = "change_over"    -> /\ NoValue \notin {values[c.dev], values'[c.dev]}
                                    /\ \/ values'[c.dev] - values[c.dev] > c.val
                                       \/ values[c.dev] - values'[c.dev] > c.val
NoFalseCommand ==
  [][\A r \in fired' :
       /\ Runs(rules[r])
       /\ \A i \in DOMAIN rules[r].inputs : TrueNow(rules[r].inputs[i])]_vars

\* Rules on the time are evaluated once in every minute, if the controller
\* handles every second within that second.
OncePerMinute ==
  ~late => evals <= 1 /\ (now % Minute # 0 => evals = 1)

\* Once the clock and the inputs rest, commands come to an end: what outputs
\* report back never makes a rule send more, whatever the rules are.
CommandsEnd == <>[](orders = <<>> /\ inbox = <<>>)
=============================================================================
