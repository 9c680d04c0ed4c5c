------------------------------ MODULE NewScene ------------------------------
(***************************************************************************)
(* User scenes on the control centre: the scene that is running, the scene *)
(* files, the file that names the active scene, and the protocol by which  *)
(* the phone uploads a new one (ble_gff_handler and the timeouts of        *)
(* controller.cpp; class scene_mng; save, restore and the rule list of     *)
(* class scene).                                                           *)
(*                                                                         *)
(* There is one buffer for a user scene.  An upload takes it away from the *)
(* running scene: SET_NEW_SCENE empties it, SET_NUM_OF_RULES announces and *)
(* SET_RULE_WITH_INDEXS fills it, and a timer of one second per rule then  *)
(* looks whether all rules are there, asks again for the missing ones, or  *)
(* saves the scene, tells the phone, and restores the active scene.  A     *)
(* second timer ends an upload that takes too long.  The other requests of *)
(* the phone use the same buffer.  Frames can be lost on the way: any of   *)
(* the phone's steps may happen late, again, or not at all.  Nothing keeps *)
(* the phone from announcing more rules than a scene can have.             *)
(***************************************************************************)
EXTENDS Integers, Sequences, Functions

CONSTANTS
  Name,        \* scene names
  NoName,      \* what is no name of a file, and an active scene file without a name
  Version,     \* what the rules of a scene can be
  Invalid,     \* a rule that is not valid
  MaxRules,    \* scene_max_rules
  MaxSent,     \* bound: the number of rules a phone announces, a uint16_t
  Wide,        \* number of values of the uint8_t that counts rules
  TimerRange,  \* seconds that the uint16_t of the timer of the rules can hold
  Timeout,     \* new_scene_timeout_max_counter, in seconds
  MaxResend,   \* new_scene_set_rule_resend_max_count
  Polite       \* TRUE for a phone that waits: see MayRequest

ASSUME NameAssumption == Name # {} /\ NoName \notin Name
ASSUME VersionAssumption == Version # {} /\ Invalid \notin Version
ASSUME NumberAssumption ==
  /\ MaxRules \in Nat \ {0}
  /\ MaxSent \in Nat /\ MaxSent >= MaxRules
  /\ Wide \in Nat /\ TimerRange \in Nat /\ Wide > MaxRules /\ TimerRange > MaxRules
  /\ Timeout \in Nat \ {0}
  /\ MaxResend \in Nat
  /\ Polite \in BOOLEAN

VARIABLES
  files,       \* scene files that exist, each a list of rules
  active,      \* the name in the active scene file, NoName if that is empty
  on,          \* the control centre has power
  hung,        \* the controller thread is in a loop that does not end
  user_name,   \* name of the scene in the user scene buffer
  rules,       \* rules_list of that scene
  cur_num_rules,
  user_valid,  \* the scene in the buffer is processed
  new_scene_state,
  new_scene_name,
  timeout_counter,  \* seconds left for the upload
  rule_timer,       \* seconds left of the timer of the rules, 0 when it is off
  rule_timeout,     \* its message is waiting for the controller
  new_scene_num_rule,
  resend_count,
  due,         \* which clock is next: they advance by turns
  wanted,      \* history: the scene the phone uploads
  promised     \* history: the scenes the phone was told are saved

buffer == <<user_name, rules, cur_num_rules, user_valid>>
timers == <<rule_timer, rule_timeout, new_scene_num_rule, resend_count, due>>
upload == <<new_scene_state, new_scene_name, timeout_counter>>
vars == <<files, active, on, hung, user_name, rules, cur_num_rules, user_valid,
          new_scene_state, new_scene_name, timeout_counter, rule_timer,
          rule_timeout, new_scene_num_rule, resend_count, due, wanted, promised>>

Index == 0 .. MaxRules - 1
Rule == Version \cup {Invalid}
RuleList == UNION {[1 .. n -> Rule] : n \in 0 .. MaxSent}

\* A scene the phone uploads has rules of one version.
Scene == UNION {{[i \in 1 .. n |-> v] : v \in Version} : n \in 0 .. MaxRules}

-----------------------------------------------------------------------------
(* The buffer and the files.                                               *)

NoRules == [i \in Index |-> Invalid]

\* restore() opens the file with FA_OPEN_ALWAYS: a missing one is created.
Opened(fs, n) ==
  [m \in DOMAIN fs \cup {n} |-> IF m \in DOMAIN fs THEN fs[m] ELSE <<>>]

\* The rules of a file that a list has room for.
Fitting(n) == IF n <= MaxRules THEN n ELSE MaxRules

\* restore_user_scene() of scene n from files fs
Restored(fs, n) ==
  IF n = NoName
    THEN /\ files' = fs
         /\ rules' = NoRules
         /\ cur_num_rules' = 0
         /\ user_valid' = FALSE
    ELSE /\ files' = Opened(fs, n)
         /\ rules' = [i \in Index |-> IF i < Len(files'[n]) THEN files'[n][i + 1] ELSE Invalid]
         /\ cur_num_rules' = Fitting(Len(files'[n]))
         /\ user_valid' = TRUE

\* set_user_scene(n); restore_user_scene()
LoadUser(fs, n) ==
  /\ user_name' = n
  /\ Restored(fs, n)

\* A fault: the active scene is not loaded again after an upload.
KeepUser(fs) ==
  /\ files' = fs
  /\ UNCHANGED buffer

\* get_active_scene: the line that is read from an empty file stays uninitialised.
ActiveNames == IF active = NoName THEN Name \cup {NoName} ELSE {active}

\* get_active_scene, set_user_scene, restore_user_scene
LoadActive(fs) == \E n \in ActiveNames : LoadUser(fs, n)

\* A fault: the last rule is not looked at.
MissingButLast == {i \in Index : i < cur_num_rules - 1 /\ rules[i] = Invalid}

\* The indexes find_invalid_rule returns, from false to the end of true.
Missing == {i \in Index : i < cur_num_rules /\ rules[i] = Invalid}

\* More rules are announced than the list has: the loops over cur_num_rules look
\* at what is behind it in memory, which may look like any rule.
Behind == cur_num_rules > MaxRules

\* save() of the buffer, or of its first k rules; what is behind the list is never
\* read back into it.
SavedUpTo(k) ==
  [m \in DOMAIN files \cup ({user_name} \ {NoName}) |->
     IF m = user_name THEN [i \in 1 .. k |-> IF i <= MaxRules THEN rules[i - 1] ELSE Invalid]
                      ELSE files[m]]

-----------------------------------------------------------------------------
(* Requests of the phone.                                                  *)

\* The controller serves its messages.
Serving == on /\ ~hung

Quiet == ~new_scene_state /\ rule_timer = 0 /\ ~rule_timeout

\* A polite phone requests nothing else of the scenes while an upload, or a
\* timer left over from one, is still running.
MayRequest == Serving /\ (Polite => Quiet)

\* A fault: the emptied buffer keeps its valid status.
EmptyUserValid(n) ==
  /\ user_name' = n
  /\ rules' = NoRules
  /\ cur_num_rules' = 0
  /\ UNCHANGED user_valid

\* set_user_scene(n); new_scene(); set_user_scene_valid_status(false)
EmptyUser(n) ==
  /\ user_name' = n
  /\ rules' = NoRules
  /\ cur_num_rules' = 0
  /\ user_valid' = FALSE

\* SET_NEW_SCENE.  (A polite phone does not upload over the scene that runs, nor
\* while no scene is active.)
SetNewScene(n, s) ==
  /\ MayRequest
  /\ Polite => active \notin {n, NoName}
  /\ IF n = user_name THEN UNCHANGED buffer ELSE EmptyUser(n)
  /\ new_scene_state' = TRUE
  /\ new_scene_name' = n
  /\ timeout_counter' = Timeout
  /\ wanted' = s
  /\ UNCHANGED <<files, active, on, hung, timers, promised>>

\* Frames of the upload are taken only in new scene state and while the buffer
\* holds the scene they name.
Uploading == Serving /\ new_scene_state /\ user_name = new_scene_name

\* SET_NUM_OF_RULES: k is not looked at.  (A polite phone announces the number of
\* rules of its scene.)
SetNumOfRules(k) ==
  /\ Uploading
  /\ Polite => k = Len(wanted)
  /\ cur_num_rules' = k
  /\ new_scene_num_rule' = k
  /\ rule_timer' = k % TimerRange
  /\ resend_count' = MaxResend
  /\ due' = "second"
  /\ UNCHANGED <<files, active, on, hung, user_name, rules, user_valid, upload,
                 rule_timeout, wanted, promised>>

\* A fault: the index is not compared with the size of the list.
HasPlaceAny(i) == TRUE

HasPlace(i) == i < MaxRules

\* memcpy to rules_list[i]
RulesWith(i, r) == [j \in DOMAIN rules \cup {i} |-> IF j = i THEN r ELSE rules[j]]

\* cur_num_rules after add_rule_with_index
CountWith(i) == IF i >= cur_num_rules THEN i + 1 ELSE cur_num_rules

\* SET_RULE_WITH_INDEXS, add_rule_with_index.  (A polite phone sends the rules of
\* its scene.)
SetRule(i, r) ==
  /\ Uploading
  /\ Polite => i < Len(wanted) /\ r = wanted[i + 1]
  /\ IF HasPlace(i)
       THEN rules' = RulesWith(i, r) /\ cur_num_rules' = CountWith(i)
       ELSE UNCHANGED <<rules, cur_num_rules>>
  /\ UNCHANGED <<files, active, on, hung, user_name, user_valid, upload, timers, wanted,
                 promised>>

\* GET_NUM_OF_RULES and GET_RULE_WITH_INDEXS of a scene that is not in the
\* buffer: it is loaded for the answer, and the old one is loaded again.
GetRules(n) ==
  /\ MayRequest
  /\ n # user_name
  /\ Restored(Opened(files, n), user_name)
  /\ UNCHANGED <<active, on, hung, user_name, upload, timers, wanted, promised>>

\* SET_ACT_SCENE_NAME_WITH_INDEXS.  Power may be lost inside set_active_scene, see
\* PowerOffInSetActive.
SetActive(n) ==
  /\ MayRequest
  /\ active' = n
  /\ LoadUser(files, n)
  /\ UNCHANGED <<on, hung, upload, timers, wanted, promised>>

\* A fault: the scene in the buffer is not protected.
MayChangeAny(n) == TRUE

\* The names SET_REMOVE_SCENE and SET_RENAME_INACT_SCENE agree to change.
MayChange(n) == n # user_name

\* SET_REMOVE_SCENE; f_unlink fails for a missing file.
RemoveScene(n) ==
  /\ MayRequest
  /\ MayChange(n)
  /\ n \in DOMAIN files
  /\ files' = Restrict(files, DOMAIN files \ {n})
  /\ promised' = Restrict(promised, DOMAIN promised \ {n})
  /\ UNCHANGED <<active, on, hung, buffer, upload, timers, wanted>>

\* SET_RENAME_INACT_SCENE; f_rename fails when the new name exists.
RenameScene(n, m) ==
  LET Renamed(f) ==
        [x \in {IF y = n THEN m ELSE y : y \in DOMAIN f} |-> f[IF x = m /\ n \in DOMAIN f THEN n ELSE x]]
  IN  /\ MayRequest
      /\ MayChange(n)
      /\ n \in DOMAIN files
      /\ m \notin DOMAIN files
      /\ files' = Renamed(files)
      /\ promised' = Renamed(promised)
      /\ UNCHANGED <<active, on, hung, buffer, upload, timers, wanted>>

-----------------------------------------------------------------------------
(* Timers.                                                                 *)

\* A fault: the upload is ended but the state is not left.
EndedNever == new_scene_state

\* new_scene_state once timeout_counter has run out
Ended == FALSE

\* new_scene_check_timeout_with_1sec
Second ==
  /\ Serving
  /\ new_scene_state \/ rule_timer > 0
  /\ rule_timer > 0 => due = "second"
  /\ due' = "tick"
  /\ IF new_scene_state /\ timeout_counter > 0
       THEN /\ timeout_counter' = timeout_counter - 1
            /\ IF timeout_counter = 1
                 THEN /\ LoadActive(files)
                      /\ new_scene_state' = Ended
                 ELSE UNCHANGED <<files, buffer, new_scene_state>>
       ELSE UNCHANGED <<files, buffer, new_scene_state, timeout_counter>>
  /\ UNCHANGED <<active, on, hung, new_scene_name, rule_timer, rule_timeout,
                 new_scene_num_rule, resend_count, wanted, promised>>

\* new_scene_set_rule_1msTIM_ISR, a second's worth of it
Tick ==
  /\ on
  /\ rule_timer > 0
  /\ due = "tick"
  /\ rule_timer = 1 => ~rule_timeout
  /\ due' = "second"
  /\ rule_timer' = rule_timer - 1
  /\ rule_timeout' = (rule_timeout \/ rule_timer = 1)
  /\ UNCHANGED <<files, active, on, hung, buffer, upload, new_scene_num_rule,
                 resend_count, wanted, promised>>

\* new_scene_set_rule_timeout_handler, not in its endless loop
RuleTimeout == Serving /\ rule_timeout /\ rule_timeout' = FALSE

\* No upload any more ...
TimeoutTooLate ==
  /\ RuleTimeout
  /\ ~new_scene_state
  /\ UNCHANGED <<files, active, on, hung, buffer, upload, rule_timer, new_scene_num_rule,
                 resend_count, due, wanted, promised>>

\* ... rules are missing: they are asked for again ...
TimeoutResend ==
  /\ RuleTimeout
  /\ new_scene_state
  /\ Missing # {} \/ Behind
  /\ cur_num_rules < Wide
  /\ resend_count > 0
  /\ resend_count' = resend_count - 1
  /\ rule_timer' = new_scene_num_rule % TimerRange
  /\ due' = "second"
  /\ UNCHANGED <<files, active, on, hung, buffer, upload, new_scene_num_rule, wanted,
                 promised>>

\* ... or given up: the active scene is restored, the state is not left ...
TimeoutGiveUp ==
  /\ RuleTimeout
  /\ new_scene_state
  /\ Missing # {} \/ Behind
  /\ resend_count = 0
  /\ LoadActive(files)
  /\ UNCHANGED <<active, on, hung, upload, rule_timer, new_scene_num_rule, resend_count,
                 due, wanted, promised>>

\* ... none is missing: save, tell the phone, restore the active scene.
TimeoutSave ==
  /\ RuleTimeout
  /\ new_scene_state
  /\ Missing = {}
  /\ cur_num_rules < Wide
  /\ new_scene_state' = FALSE
  /\ LoadActive(SavedUpTo(cur_num_rules))
  /\ promised' = [n \in DOMAIN promised \cup {new_scene_name} |->
                    IF n = new_scene_name THEN wanted ELSE promised[n]]
  /\ UNCHANGED <<active, on, hung, new_scene_name, timeout_counter, rule_timer,
                 new_scene_num_rule, resend_count, due, wanted>>

\* find_invalid_rule counts with a uint8_t up to cur_num_rules: it never gets there
\* if that is larger, and goes round as often as it is asked for the next one.
TimeoutHangs ==
  /\ Serving /\ rule_timeout
  /\ new_scene_state
  /\ cur_num_rules >= Wide
  /\ resend_count > 0 \/ Missing = {}
  /\ hung' = TRUE
  /\ UNCHANGED <<files, active, on, buffer, upload, timers, wanted, promised>>

-----------------------------------------------------------------------------
(* Power.                                                                  *)

Dead ==
  /\ on' = FALSE
  /\ hung' = FALSE
  /\ user_name' = NoName
  /\ rules' = NoRules
  /\ cur_num_rules' = 0
  /\ user_valid' = FALSE
  /\ new_scene_state' = FALSE
  /\ new_scene_name' = NoName
  /\ timeout_counter' = 0
  /\ rule_timer' = 0
  /\ rule_timeout' = FALSE
  /\ new_scene_num_rule' = 0
  /\ resend_count' = 0
  /\ due' = "second"
  /\ UNCHANGED wanted

PowerOff ==
  /\ on
  /\ Dead
  /\ UNCHANGED <<files, active, promised>>

\* Power is lost inside save(): the rules synchronised so far are in the file,
\* and what was in it before is gone.
PowerOffInSave ==
  /\ Serving
  /\ rule_timeout
  /\ new_scene_state
  /\ Missing = {}
  /\ cur_num_rules < Wide
  /\ \E k \in 0 .. cur_num_rules : files' = SavedUpTo(k)
  /\ promised' = Restrict(promised, DOMAIN promised \ {user_name})
  /\ Dead
  /\ UNCHANGED active

\* Power is lost inside set_active_scene: the file is empty on the card and the
\* name is not written.
PowerOffInSetActive ==
  /\ MayRequest
  /\ active' = NoName
  /\ Dead
  /\ UNCHANGED <<files, promised>>

\* scene_mng::restore()
PowerOn ==
  /\ ~on
  /\ on' = TRUE
  /\ LoadActive(files)
  /\ UNCHANGED <<active, hung, upload, timers, wanted, promised>>

-----------------------------------------------------------------------------
\* The file system as delivered: an active scene without rules, or none.
Init ==
  /\ active \in Name \cup {NoName}
  /\ files = [n \in {active} \ {NoName} |-> <<>>]
  /\ on = FALSE
  /\ hung = FALSE
  /\ user_name = NoName
  /\ rules = NoRules
  /\ cur_num_rules = 0
  /\ user_valid = FALSE
  /\ new_scene_state = FALSE
  /\ new_scene_name = NoName
  /\ timeout_counter = 0
  /\ rule_timer = 0
  /\ rule_timeout = FALSE
  /\ new_scene_num_rule = 0
  /\ resend_count = 0
  /\ due = "second"
  /\ wanted = <<>>
  /\ promised = [n \in {} |-> <<>>]

Next ==
  \/ \E n \in Name, s \in Scene : SetNewScene(n, s)
  \/ \E k \in 0 .. MaxSent : SetNumOfRules(k)
  \/ \E i \in 0 .. MaxSent - 1, r \in Version : SetRule(i, r)
  \/ \E n \in Name : GetRules(n)
  \/ \E n \in Name : SetActive(n)
  \/ \E n \in Name : RemoveScene(n)
  \/ \E n, m \in Name : RenameScene(n, m)
  \/ Second
  \/ Tick
  \/ TimeoutTooLate
  \/ TimeoutResend
  \/ TimeoutGiveUp
  \/ TimeoutSave
  \/ TimeoutHangs
  \/ PowerOff
  \/ PowerOffInSave
  \/ PowerOffInSetActive
  \/ PowerOn

Spec == Init /\ [][Next]_vars

\* The clocks run, the controller serves its messages, and power returns.
Fairness ==
  /\ WF_vars(Second)
  /\ WF_vars(Tick)
  /\ WF_vars(TimeoutTooLate \/ TimeoutResend \/ TimeoutGiveUp \/ TimeoutSave \/ TimeoutHangs)
  /\ WF_vars(PowerOn)

FairSpec == Spec /\ Fairness

-----------------------------------------------------------------------------
(* Properties.                                                             *)

\* Every variable keeps its type.
TypeOK ==
  /\ DOMAIN files \subseteq Name
  /\ \A n \in DOMAIN files : files[n] \in RuleList
  /\ active \in Name \cup {NoName}
  /\ on \in BOOLEAN
  /\ hung \in BOOLEAN
  /\ user_name \in Name \cup {NoName}
  /\ rules \in [Index -> Rule]
  /\ cur_num_rules \in 0 .. MaxSent
  /\ user_valid \in BOOLEAN
  /\ new_scene_state \in BOOLEAN
  /\ new_scene_name \in Name \cup {NoName}
  /\ timeout_counter \in 0 .. Timeout
  /\ rule_timer \in 0 .. TimerRange - 1
  /\ rule_timeout \in BOOLEAN
  /\ new_scene_num_rule \in 0 .. MaxSent
  /\ resend_count \in 0 .. MaxResend
  /\ due \in {"second", "tick"}
  /\ wanted \in Scene
  /\ DOMAIN promised \subseteq Name
  /\ \A n \in DOMAIN promised : promised[n] \in Scene

\* Whenever no upload is going on the control centre runs the active scene, as
\* it is in its file: uploads that end well, end badly, time out or are cut
\* short by other requests, scenes that are announced too large and losses of power all
\* leave the buffer to the active scene again.  Only when the power goes in
\* set_active_scene there is none, until the phone sets it again.
RunningIsActive ==
  on /\ ~new_scene_state /\ active # NoName =>
    /\ user_name = active
    /\ user_valid
    /\ active \in DOMAIN files
    /\ cur_num_rules = Fitting(Len(files[active]))
    /\ \A i \in 1 .. cur_num_rules : rules[i - 1] = files[active][i]

\* An upload always has a timeout ahead of it.
UploadHasTimeout == new_scene_state => timeout_counter > 0

\* "No invalid rule, save new scene and send new scene back to ble": a scene
\* the phone was told is saved is in its file with all the rules the phone
\* sent, until it is removed, renamed or uploaded again.
SavedAsSent ==
  \A n \in DOMAIN promised : n \in DOMAIN files /\ files[n] = promised[n]

\* The scene that is being uploaded is not processed, whatever of it is there.
HalfLoadedNotRun ==
  new_scene_state /\ user_name = new_scene_name /\ user_name # active => ~user_valid

\* SET_REMOVE_SCENE and SET_RENAME_INACT_SCENE are for inactive scenes
\* (scene_mng.h), so the file of the active scene stays where it is, except while
\* an upload borrows the buffer that is compared with the name.
ActiveFileStays ==
  [][(active \in DOMAIN files /\ ~new_scene_state) => (active \in DOMAIN files')]_vars

\* The time to upload a scene is no longer than the timer of the rules of the
\* largest one (both are 25 s), so that a scene of MaxRules rules is never saved,
\* however fast the phone sends it.
LargestNeverSaved == \A n \in DOMAIN promised : Len(promised[n]) < MaxRules

\* An upload does not keep the buffer from the active scene for ever: when the
\* phone starts no new one the control centre leaves the new scene state, unless
\* more rules were announced than a uint8_t counts.
UploadEnds ==
  <>[][\A n \in Name, s \in Scene : ~SetNewScene(n, s)]_vars => <>[](~new_scene_state \/ hung)
=============================================================================
