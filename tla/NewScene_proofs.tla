-------------------------- MODULE NewScene_proofs ---------------------------
(***************************************************************************)
(* Proofs about the scene store, for any number of scenes, rules, seconds  *)
(* and tries, and a phone that may request anything at any time.           *)
(***************************************************************************)
EXTENDS NewScene, SequenceTheorems, TLAPS

(***************************************************************************)
(* Numbers, and lists of rules.                                            *)
(***************************************************************************)

\* The remainder of a division is less than the divisor, and the number divided
\* itself when that is less.
LEMMA Remainder ==
  ASSUME NEW t \in Nat, NEW n \in Nat \ {0}
  PROVE  t % n \in 0 .. n - 1 /\ (t < n => t % n = t)
  <1>1. t % n \in 0 .. n - 1
    OBVIOUS
  <1>2. t < n => t % n = t
    OBVIOUS
  <1>3. QED
    BY <1>1, <1>2

\* The timer of the rules is what its type holds of the number of rules, which is
\* the number itself for a scene that fits in the list.
LEMMA TimerOf ==
  ASSUME NEW k \in 0 .. MaxSent
  PROVE  k % TimerRange \in 0 .. TimerRange - 1 /\ (k <= MaxRules => k % TimerRange = k)
  <1>1. k \in Nat /\ TimerRange \in Nat \ {0} /\ MaxRules < TimerRange /\ MaxRules \in Nat
    BY NumberAssumption
  <1>2. k % TimerRange \in 0 .. TimerRange - 1 /\ (k < TimerRange => k % TimerRange = k)
    BY <1>1, Remainder
  <1>3. QED
    BY <1>1, <1>2

\* No more rules than the list has room for fit.
LEMMA FittingFits ==
  ASSUME NEW k \in Nat
  PROVE  Fitting(k) \in 0 .. MaxRules /\ Fitting(k) <= k
BY NumberAssumption DEF Fitting

\* A list of rules is a sequence of at most MaxSent rules.
LEMMA RuleListIsSeq ==
  ASSUME NEW s \in RuleList
  PROVE  /\ Len(s) \in 0 .. MaxSent
         /\ s \in [1 .. Len(s) -> Rule]
  <1>1. PICK n \in 0 .. MaxSent : s \in [1 .. n -> Rule]
    BY DEF RuleList
  <1>2. n \in Nat
    BY <1>1, NumberAssumption
  <1>3. s \in Seq(Rule) /\ Len(s) = n
    BY <1>1, <1>2, SeqDef, LenProperties
  <1>4. QED
    BY <1>1, <1>3

\* So is a scene the phone uploads, and none of its rules is invalid.
LEMMA SceneIsSeq ==
  ASSUME NEW s \in Scene
  PROVE  /\ Len(s) \in 0 .. MaxRules
         /\ s \in [1 .. Len(s) -> Version]
         /\ \A i \in 1 .. Len(s) : s[i] \in Version
  <1>1. PICK n \in 0 .. MaxRules, v \in Version : s = [i \in 1 .. n |-> v]
    BY DEF Scene
  <1>2. n \in Nat
    BY <1>1, NumberAssumption
  <1>3. s \in [1 .. n -> Version]
    BY <1>1
  <1>4. s \in Seq(Version) /\ Len(s) = n
    BY <1>2, <1>3, SeqDef, LenProperties
  <1>5. QED
    BY <1>1, <1>3, <1>4

(***************************************************************************)
(* The parts of the type invariant, over a store and a buffer that are     *)
(* given: a primed store and buffer are an instance.                       *)
(***************************************************************************)
StoreType(fs) ==
  /\ DOMAIN fs \subseteq Name
  /\ \A n \in DOMAIN fs : fs[n] \in RuleList

BufferType(u, r, c, v) ==
  /\ u \in Name \cup {NoName}
  /\ r \in [Index -> Rule]
  /\ c \in 0 .. MaxSent
  /\ v \in BOOLEAN

PromiseType(p) ==
  /\ DOMAIN p \subseteq Name
  /\ \A n \in DOMAIN p : p[n] \in Scene

RestType ==
  /\ active \in Name \cup {NoName}
  /\ on \in BOOLEAN
  /\ hung \in BOOLEAN
  /\ new_scene_state \in BOOLEAN
  /\ new_scene_name \in Name \cup {NoName}
  /\ timeout_counter \in 0 .. Timeout
  /\ rule_timer \in 0 .. TimerRange - 1
  /\ rule_timeout \in BOOLEAN
  /\ new_scene_num_rule \in 0 .. MaxSent
  /\ resend_count \in 0 .. MaxResend
  /\ due \in {"second", "tick"}
  /\ wanted \in Scene

LEMMA TypeParts ==
  TypeOK <=> /\ StoreType(files)
             /\ BufferType(user_name, rules, cur_num_rules, user_valid)
             /\ PromiseType(promised)
             /\ RestType
BY DEF TypeOK, StoreType, BufferType, PromiseType, RestType

\* The buffer holds the active scene as it is in its file.
Loaded(fs, n, u, r, c, v) ==
  /\ u = n
  /\ v
  /\ n \in DOMAIN fs
  /\ c = Fitting(Len(fs[n]))
  /\ \A i \in 1 .. c : r[i - 1] = fs[n][i]

(***************************************************************************)
(* What the operations on the store and the buffer do.                     *)
(***************************************************************************)

\* An emptied list of rules is well typed.
LEMMA NoRulesType == NoRules \in [Index -> Rule]
BY DEF NoRules, Rule

\* A missing file that is opened is there afterwards, and the others are as
\* they were.
LEMMA OpenedType ==
  ASSUME NEW fs, StoreType(fs), NEW n \in Name
  PROVE  /\ StoreType(Opened(fs, n))
         /\ n \in DOMAIN Opened(fs, n)
         /\ \A m \in DOMAIN fs : m \in DOMAIN Opened(fs, n) /\ Opened(fs, n)[m] = fs[m]
  <1>1. <<>> \in RuleList
    <2>1. 0 \in 0 .. MaxSent
      BY NumberAssumption
    <2>2. <<>> \in [1 .. 0 -> Rule]
      BY EmptySeq, LenProperties
    <2>3. QED
      BY <2>1, <2>2 DEF RuleList
  <1>2. QED
    BY <1>1 DEF StoreType, Opened

\* Restoring a scene leaves the buffer with what fits of its file, valid, and
\* with nothing if it has no name.
LEMMA RestoredType ==
  ASSUME NEW fs, StoreType(fs), NEW n \in Name \cup {NoName}, Restored(fs, n)
  PROVE  /\ StoreType(files')
         /\ BufferType(n, rules', cur_num_rules', user_valid')
         /\ n # NoName => Loaded(files', n, n, rules', cur_num_rules', user_valid')
  <1>1. CASE n = NoName
    <2>1. files' = fs /\ rules' = NoRules /\ cur_num_rules' = 0 /\ user_valid' = FALSE
      BY <1>1 DEF Restored
    <2>2. 0 \in 0 .. MaxSent
      BY NumberAssumption
    <2>3. QED
      BY <1>1, <2>1, <2>2, NoRulesType DEF BufferType
  <1>2. CASE n # NoName
    <2>1. files' = Opened(fs, n) /\ user_valid' = TRUE /\ n \in Name
      BY <1>2 DEF Restored
    <2>2. StoreType(files') /\ n \in DOMAIN files'
      BY <2>1, OpenedType
    <2> DEFINE s == files'[n]
    <2>3. s \in RuleList
      BY <2>2 DEF StoreType
    <2>4. Len(s) \in 0 .. MaxSent /\ s \in [1 .. Len(s) -> Rule]
      BY <2>3, RuleListIsSeq
    <2>5. cur_num_rules' = Fitting(Len(s))
      BY <1>2 DEF Restored
    <2>6. rules' = [i \in Index |-> IF i < Len(s) THEN s[i + 1] ELSE Invalid]
      BY <1>2 DEF Restored
    <2> HIDE DEF s
    <2>7. Fitting(Len(s)) \in 0 .. MaxRules /\ Fitting(Len(s)) <= Len(s)
      BY <2>4, FittingFits, NumberAssumption
    <2>8. rules' \in [Index -> Rule]
      <3>1. ASSUME NEW i \in Index, i < Len(s) PROVE s[i + 1] \in Rule
        <4>1. i + 1 \in 1 .. Len(s)
          BY <2>4, <3>1, NumberAssumption DEF Index
        <4>2. QED
          BY <2>4, <4>1
      <3>2. QED
        BY <2>6, <3>1 DEF Rule
    <2>9. ASSUME NEW i \in 1 .. Fitting(Len(s)) PROVE rules'[i - 1] = s[i]
      <3>1. i - 1 \in Index /\ i - 1 < Len(s) /\ (i - 1) + 1 = i
        BY <2>4, <2>7, NumberAssumption DEF Index
      <3>2. QED
        BY <2>6, <3>1
    <2>10. cur_num_rules' \in 0 .. MaxSent
      BY <2>4, <2>5, <2>7, NumberAssumption
    <2>11. BufferType(n, rules', cur_num_rules', user_valid')
      BY <2>1, <2>8, <2>10 DEF BufferType
    <2>12. Loaded(files', n, n, rules', cur_num_rules', user_valid')
      BY <2>1, <2>2, <2>5, <2>9 DEF Loaded, s
    <2>13. QED
      BY <2>2, <2>11, <2>12
  <1>3. QED
    BY <1>1, <1>2

\* Loading the scene n does the same and gives the buffer its name.
LEMMA LoadUserType ==
  ASSUME NEW fs, StoreType(fs), NEW n \in Name \cup {NoName}, LoadUser(fs, n)
  PROVE  /\ StoreType(files')
         /\ BufferType(user_name', rules', cur_num_rules', user_valid')
         /\ n # NoName => Loaded(files', n, user_name', rules', cur_num_rules', user_valid')
  <1>1. user_name' = n /\ Restored(fs, n)
    BY DEF LoadUser
  <1>2. QED
    BY <1>1, RestoredType

\* A save of the buffer, or of a part of it, leaves a well typed store.
LEMMA SavedType ==
  ASSUME TypeOK, NEW k \in 0 .. cur_num_rules
  PROVE  StoreType(SavedUpTo(k))
  <1> DEFINE s == [i \in 1 .. k |-> IF i <= MaxRules THEN rules[i - 1] ELSE Invalid]
  <1>1. k \in 0 .. MaxSent
    BY NumberAssumption DEF TypeOK
  <1>2. \A i \in 1 .. k : i <= MaxRules => i - 1 \in Index
    BY <1>1, NumberAssumption DEF Index
  <1>3. s \in [1 .. k -> Rule]
    BY <1>2 DEF TypeOK, Rule
  <1>4. s \in RuleList
    BY <1>1, <1>3 DEF RuleList
  <1> HIDE DEF s
  <1>5. SavedUpTo(k) = [m \in DOMAIN files \cup ({user_name} \ {NoName}) |->
                          IF m = user_name THEN s ELSE files[m]]
    BY DEF SavedUpTo, s
  <1>6. QED
    BY <1>4, <1>5 DEF StoreType, TypeOK

\* Removing a file leaves the others; so does renaming one to a new name.
LEMMA RemovedType ==
  ASSUME NEW fs, NEW n
  PROVE  /\ StoreType(fs) => StoreType(Restrict(fs, DOMAIN fs \ {n}))
         /\ PromiseType(fs) => PromiseType(Restrict(fs, DOMAIN fs \ {n}))
         /\ \A m \in DOMAIN fs : m # n => /\ m \in DOMAIN Restrict(fs, DOMAIN fs \ {n})
                                          /\ Restrict(fs, DOMAIN fs \ {n})[m] = fs[m]
BY DEF StoreType, PromiseType, Restrict

(***************************************************************************)
(* Every step preserves the invariant.                                     *)
(***************************************************************************)

\* The scene of an upload has a name.
SceneNamed == new_scene_state => new_scene_name \in Name

Inv == TypeOK /\ SceneNamed /\ UploadHasTimeout /\ RunningIsActive

\* Only SET_NEW_SCENE starts an upload, and no step changes its name.
LEMMA SceneNamedNext ==
  ASSUME SceneNamed, [Next]_vars
  PROVE  SceneNamed'
  <1>0. ASSUME ~new_scene_state' PROVE SceneNamed'
    BY <1>0 DEF SceneNamed
  <1>1. ASSUME UNCHANGED upload PROVE SceneNamed'
    BY <1>1 DEF SceneNamed, upload
  <1>2. ASSUME NEW n \in Name, NEW s \in Scene, SetNewScene(n, s) PROVE SceneNamed'
    BY <1>2 DEF SetNewScene, SceneNamed
  <1>3. ASSUME Second PROVE SceneNamed'
    <2>1. UNCHANGED new_scene_name
      BY <1>3 DEF Second
    <2>2. ~new_scene_state' \/ UNCHANGED new_scene_state
      BY <1>3 DEF Second, Ended
    <2>3. QED
      BY <2>1, <2>2 DEF SceneNamed
  <1>4. ASSUME TimeoutSave PROVE SceneNamed'
    BY <1>0, <1>4 DEF TimeoutSave
  <1>5. ASSUME Dead PROVE SceneNamed'
    BY <1>0, <1>5 DEF Dead
  <1>6. ASSUME UNCHANGED vars PROVE SceneNamed'
    BY <1>1, <1>6 DEF vars, upload
  <1>7. QED
    BY <1>1, <1>2, <1>3, <1>4, <1>5, <1>6
       DEF Next, SetNumOfRules, SetRule, GetRules, SetActive, RemoveScene, RenameScene, Tick,
           TimeoutTooLate, TimeoutResend, TimeoutGiveUp, TimeoutHangs, PowerOff,
           PowerOffInSave, PowerOffInSetActive, PowerOn

\* RunningIsActive in terms of Loaded.
LEMMA RunningLoaded ==
  RunningIsActive <=>
    (on /\ ~new_scene_state /\ active # NoName
       => Loaded(files, active, user_name, rules, cur_num_rules, user_valid))
BY DEF RunningIsActive, Loaded

\* What the requests and timers that leave the store and the buffer alone, or
\* load a scene into the buffer, do to the invariant.
LEMMA LoadActiveInv ==
  ASSUME TypeOK, NEW fs, StoreType(fs), LoadActive(fs), active' = active
  PROVE  /\ StoreType(files')
         /\ BufferType(user_name', rules', cur_num_rules', user_valid')
         /\ RunningIsActive'
  <1>1. PICK n \in ActiveNames : LoadUser(fs, n)
    BY DEF LoadActive
  <1>a. n \in Name \cup {NoName} /\ (active # NoName => n = active)
    BY <1>1 DEF TypeOK, ActiveNames
  <1>2. /\ StoreType(files')
        /\ BufferType(user_name', rules', cur_num_rules', user_valid')
        /\ active # NoName
             => Loaded(files', active, user_name', rules', cur_num_rules', user_valid')
    BY <1>1, <1>a, LoadUserType
  <1>3. QED
    BY <1>2 DEF RunningIsActive, Loaded

LEMMA TypePartsNext ==
  TypeOK' <=> /\ StoreType(files')
              /\ BufferType(user_name', rules', cur_num_rules', user_valid')
              /\ PromiseType(promised')
              /\ RestType'
BY DEF TypeOK, StoreType, BufferType, PromiseType, RestType

LEMMA InitInv == Init => Inv
  <1> SUFFICES ASSUME Init PROVE Inv
    OBVIOUS
  <1>1. StoreType(files)
    <2>1. <<>> \in [1 .. 0 -> Rule]
      BY EmptySeq, LenProperties
    <2>2. <<>> \in RuleList
      BY <2>1, NumberAssumption DEF RuleList
    <2>3. active \in Name \cup {NoName} /\ files = [n \in {active} \ {NoName} |-> <<>>]
      BY DEF Init
    <2>4. QED
      BY <2>2, <2>3 DEF StoreType
  <1>0. 0 \in 0 .. MaxSent /\ 0 \in 0 .. Timeout /\ 0 \in 0 .. MaxResend /\ 0 \in 0 .. TimerRange - 1
    BY NumberAssumption
  <1>2. BufferType(user_name, rules, cur_num_rules, user_valid)
    BY <1>0, NoRulesType DEF Init, BufferType
  <1>3. PromiseType(promised)
    BY DEF Init, PromiseType
  <1>4. wanted \in Scene
    <2>1. PICK v : v \in Version
      BY VersionAssumption
    <2>2. <<>> = [i \in 1 .. 0 |-> v]
      OBVIOUS
    <2>3. QED
      BY <2>1, <2>2, NumberAssumption DEF Init, Scene
  <1>5. RestType
    BY <1>0, <1>4 DEF Init, RestType
  <1>6. QED
    BY <1>1, <1>2, <1>3, <1>5, TypeParts DEF Init, Inv, SceneNamed, UploadHasTimeout, RunningIsActive

LEMMA StepInv == Inv /\ [Next]_vars => Inv'
  <1> SUFFICES ASSUME Inv, [Next]_vars PROVE Inv'
    OBVIOUS
  <1>p. /\ StoreType(files)
        /\ BufferType(user_name, rules, cur_num_rules, user_valid)
        /\ PromiseType(promised)
        /\ RestType
        /\ TypeOK
    BY TypeParts DEF Inv
  <1>z. 0 \in 0 .. MaxSent /\ 0 \in 0 .. Timeout /\ 0 \in 0 .. MaxResend /\ 0 \in 0 .. TimerRange - 1
    BY NumberAssumption
  <1>q. ASSUME StoreType(files'), PromiseType(promised'), RestType',
               BufferType(user_name', rules', cur_num_rules', user_valid'),
               UploadHasTimeout', RunningIsActive'
        PROVE  Inv'
    <2>1. SceneNamed'
      BY SceneNamedNext DEF Inv
    <2>2. QED
      BY <1>q, <2>1, TypePartsNext DEF Inv
  <1>1. ASSUME NEW n \in Name, NEW s \in Scene, SetNewScene(n, s) PROVE Inv'
    <2>1. StoreType(files') /\ PromiseType(promised')
      BY <1>1, <1>p DEF SetNewScene
    <2>2. BufferType(user_name', rules', cur_num_rules', user_valid')
      <3>1. CASE n = user_name
        BY <1>1, <1>p, <3>1 DEF SetNewScene, buffer
      <3>2. CASE n # user_name
        BY <1>1, <1>z, <3>2, NoRulesType DEF SetNewScene, EmptyUser, BufferType
      <3>3. QED
        BY <3>1, <3>2
    <2>3. Timeout \in 0 .. Timeout /\ Timeout > 0
      BY NumberAssumption
    <2>4. RestType'
      BY <1>1, <1>p, <2>3 DEF SetNewScene, RestType, timers
    <2>5. UploadHasTimeout' /\ RunningIsActive'
      BY <1>1, <2>3 DEF SetNewScene, UploadHasTimeout, RunningIsActive
    <2>6. QED
      BY <1>q, <2>1, <2>2, <2>4, <2>5
  <1>2. ASSUME NEW k \in 0 .. MaxSent, SetNumOfRules(k) PROVE Inv'
    <2>1. k % TimerRange \in 0 .. TimerRange - 1
      BY TimerOf
    <2>2. StoreType(files') /\ PromiseType(promised')
      BY <1>2, <1>p DEF SetNumOfRules
    <2>3. BufferType(user_name', rules', cur_num_rules', user_valid')
      BY <1>2, <1>p DEF SetNumOfRules, BufferType
    <2>4. MaxResend \in 0 .. MaxResend
      BY NumberAssumption
    <2>5. RestType'
      BY <1>2, <1>p, <2>1, <2>4 DEF SetNumOfRules, RestType, upload
    <2>6. UploadHasTimeout' /\ RunningIsActive'
      BY <1>2 DEF SetNumOfRules, Uploading, upload, Inv, UploadHasTimeout, RunningIsActive
    <2>7. QED
      BY <1>q, <2>2, <2>3, <2>5, <2>6
  <1>3. ASSUME NEW i \in 0 .. MaxSent - 1, NEW r \in Version, SetRule(i, r) PROVE Inv'
    <2>2. StoreType(files') /\ PromiseType(promised')
      BY <1>3, <1>p DEF SetRule
    <2>4. BufferType(user_name', rules', cur_num_rules', user_valid')
      <3>1. CASE HasPlace(i)
        <4>1. i \in Index
          BY <3>1, NumberAssumption DEF HasPlace, Index
        <4>2. rules' = RulesWith(i, r) /\ cur_num_rules' = CountWith(i)
          BY <1>3, <3>1 DEF SetRule
        <4>3. rules' \in [Index -> Rule]
          BY <1>p, <4>1, <4>2 DEF RulesWith, BufferType, Rule
        <4>4. CountWith(i) \in 0 .. MaxSent
          BY <1>p, NumberAssumption DEF CountWith, BufferType
        <4>5. QED
          BY <1>3, <1>p, <4>2, <4>3, <4>4 DEF SetRule, BufferType
      <3>2. CASE ~HasPlace(i)
        BY <1>3, <1>p, <3>2 DEF SetRule
      <3>3. QED
        BY <3>1, <3>2
    <2>5. RestType'
      BY <1>3, <1>p DEF SetRule, RestType, upload, timers
    <2>6. UploadHasTimeout' /\ RunningIsActive'
      BY <1>3 DEF SetRule, Uploading, upload, Inv, UploadHasTimeout, RunningIsActive
    <2>7. QED
      BY <1>q, <2>2, <2>4, <2>5, <2>6
  <1>4. ASSUME NEW n \in Name, GetRules(n) PROVE Inv'
    <2>1. StoreType(Opened(files, n)) /\ user_name \in Name \cup {NoName}
      BY <1>p, OpenedType DEF BufferType
    <2>2. /\ StoreType(files')
          /\ BufferType(user_name', rules', cur_num_rules', user_valid')
          /\ user_name # NoName
               => Loaded(files', user_name, user_name, rules', cur_num_rules', user_valid')
      BY <1>4, <2>1, RestoredType DEF GetRules
    <2>3. PromiseType(promised') /\ RestType'
      BY <1>4, <1>p DEF GetRules, RestType, upload, timers
    <2>4. UploadHasTimeout'
      BY <1>4 DEF GetRules, upload, Inv, UploadHasTimeout
    <2>5. RunningIsActive'
      BY <1>4, <2>2 DEF GetRules, upload, Inv, RunningIsActive, Loaded
    <2>6. QED
      BY <1>q, <2>2, <2>3, <2>4, <2>5
  <1>5. ASSUME NEW n \in Name, SetActive(n) PROVE Inv'
    <2>1. /\ StoreType(files')
          /\ BufferType(user_name', rules', cur_num_rules', user_valid')
          /\ Loaded(files', n, user_name', rules', cur_num_rules', user_valid')
      BY <1>5, <1>p, LoadUserType, NameAssumption DEF SetActive
    <2>2. PromiseType(promised') /\ RestType'
      BY <1>5, <1>p DEF SetActive, RestType, upload, timers
    <2>3. UploadHasTimeout'
      BY <1>5 DEF SetActive, upload, Inv, UploadHasTimeout
    <2>4. RunningIsActive'
      BY <1>5, <2>1 DEF SetActive, RunningIsActive, Loaded
    <2>5. QED
      BY <1>q, <2>1, <2>2, <2>3, <2>4
  <1>6. ASSUME NEW n \in Name, RemoveScene(n) PROVE Inv'
    <2>1. /\ StoreType(files') /\ PromiseType(promised')
          /\ \A m \in DOMAIN files : m # n => m \in DOMAIN files' /\ files'[m] = files[m]
      BY <1>6, <1>p, RemovedType DEF RemoveScene
    <2>2. BufferType(user_name', rules', cur_num_rules', user_valid') /\ RestType'
      BY <1>6, <1>p DEF RemoveScene, RestType, buffer, upload, timers
    <2>3. UploadHasTimeout'
      BY <1>6 DEF RemoveScene, upload, Inv, UploadHasTimeout
    <2>4. RunningIsActive'
      BY <1>6, <2>1 DEF RemoveScene, MayChange, buffer, upload, Inv, RunningIsActive
    <2>5. QED
      BY <1>q, <2>1, <2>2, <2>3, <2>4
  <1>7. ASSUME NEW n \in Name, NEW m \in Name, RenameScene(n, m) PROVE Inv'
    <2> DEFINE Renamed(f) ==
          [x \in {IF y = n THEN m ELSE y : y \in DOMAIN f} |->
             f[IF x = m /\ n \in DOMAIN f THEN n ELSE x]]
    <2>1. /\ n # user_name /\ n \in DOMAIN files /\ m \notin DOMAIN files
          /\ files' = Renamed(files) /\ promised' = Renamed(promised)
      BY <1>7 DEF RenameScene, MayChange
    <2>2. StoreType(files') /\ PromiseType(promised')
      BY <1>p, <2>1 DEF StoreType, PromiseType
    <2>3. \A x \in DOMAIN files : x # n => x \in DOMAIN files' /\ files'[x] = files[x]
      BY <2>1
    <2>4. BufferType(user_name', rules', cur_num_rules', user_valid') /\ RestType'
      BY <1>7, <1>p DEF RenameScene, RestType, buffer, upload, timers
    <2>5. UploadHasTimeout'
      BY <1>7 DEF RenameScene, upload, Inv, UploadHasTimeout
    <2>6. RunningIsActive'
      BY <1>7, <2>1, <2>3 DEF RenameScene, buffer, upload, Inv, RunningIsActive
    <2>7. QED
      BY <1>q, <2>2, <2>4, <2>5, <2>6
  <1>8. ASSUME Second PROVE Inv'
    <2>1. PromiseType(promised')
      BY <1>8, <1>p DEF Second
    <2>2. CASE new_scene_state /\ timeout_counter = 1
      <3>1. LoadActive(files) /\ active' = active /\ new_scene_state' = FALSE
            /\ timeout_counter' = timeout_counter - 1
        BY <1>8, <2>2 DEF Second, Ended
      <3>2. /\ StoreType(files') /\ RunningIsActive'
            /\ BufferType(user_name', rules', cur_num_rules', user_valid')
        BY <1>p, <3>1, LoadActiveInv
      <3>3. timeout_counter' \in 0 .. Timeout
        BY <2>2, <3>1, <1>z
      <3>4. RestType'
        BY <1>8, <1>p, <3>1, <3>3 DEF Second, RestType
      <3>5. UploadHasTimeout'
        BY <3>1 DEF UploadHasTimeout
      <3>6. QED
        BY <1>q, <2>1, <3>2, <3>4, <3>5
    <2>3. CASE ~(new_scene_state /\ timeout_counter = 1)
      <3>1. UNCHANGED <<files, buffer, new_scene_state, active, on>>
        BY <1>8, <2>3 DEF Second, buffer
      <3>2. /\ timeout_counter' \in 0 .. Timeout
            /\ new_scene_state => timeout_counter' > 0
        <4>1. CASE new_scene_state
          <5>1. timeout_counter \in 0 .. Timeout /\ timeout_counter > 1
            BY <1>p, <2>3, <4>1 DEF RestType, Inv, UploadHasTimeout
          <5>2. timeout_counter > 0
            BY <5>1, NumberAssumption
          <5>3. timeout_counter' = timeout_counter - 1
            BY <1>8, <4>1, <5>2, Zenon DEF Second
          <5>4. QED
            BY <5>1, <5>3, NumberAssumption
        <4>2. CASE ~new_scene_state
          BY <1>8, <1>p, <4>2 DEF Second, RestType
        <4>3. QED
          BY <4>1, <4>2
      <3>3. StoreType(files') /\ BufferType(user_name', rules', cur_num_rules', user_valid')
        BY <1>p, <3>1 DEF buffer
      <3>4. RestType'
        BY <1>8, <1>p, <3>1, <3>2 DEF Second, RestType
      <3>5. UploadHasTimeout' /\ RunningIsActive'
        BY <3>1, <3>2 DEF buffer, Inv, UploadHasTimeout, RunningIsActive
      <3>6. QED
        BY <1>q, <2>1, <3>3, <3>4, <3>5
    <2>4. QED
      BY <2>2, <2>3
  <1>9. ASSUME Tick PROVE Inv'
    <2>1. rule_timer' \in 0 .. TimerRange - 1
      BY <1>9, <1>p, NumberAssumption DEF Tick, RestType
    <2>2. rule_timeout' \in BOOLEAN
      BY <1>9 DEF Tick
    <2>3. RestType'
      BY <1>9, <1>p, <2>1, <2>2 DEF Tick, RestType, upload
    <2>4. /\ StoreType(files') /\ PromiseType(promised')
          /\ BufferType(user_name', rules', cur_num_rules', user_valid')
      BY <1>9, <1>p DEF Tick, buffer
    <2>5. UploadHasTimeout' /\ RunningIsActive'
      BY <1>9 DEF Tick, upload, buffer, Inv, UploadHasTimeout, RunningIsActive
    <2>6. QED
      BY <1>q, <2>3, <2>4, <2>5
  <1>10. ASSUME TimeoutTooLate PROVE Inv'
    <2>1. RestType'
      BY <1>10, <1>p DEF TimeoutTooLate, RuleTimeout, RestType, upload
    <2>2. /\ StoreType(files') /\ PromiseType(promised')
          /\ BufferType(user_name', rules', cur_num_rules', user_valid')
      BY <1>10, <1>p DEF TimeoutTooLate, buffer
    <2>3. UploadHasTimeout' /\ RunningIsActive'
      BY <1>10 DEF TimeoutTooLate, upload, buffer, Inv, UploadHasTimeout, RunningIsActive
    <2>4. QED
      BY <1>q, <2>1, <2>2, <2>3
  <1>11. ASSUME TimeoutResend PROVE Inv'
    <2>0. new_scene_num_rule % TimerRange \in 0 .. TimerRange - 1
      BY <1>p, TimerOf DEF RestType
    <2>1. resend_count' \in 0 .. MaxResend
      BY <1>11, <1>p, NumberAssumption DEF TimeoutResend, RestType
    <2>2. RestType'
      BY <1>11, <1>p, <2>0, <2>1 DEF TimeoutResend, RuleTimeout, RestType, upload
    <2>3. /\ StoreType(files') /\ PromiseType(promised')
          /\ BufferType(user_name', rules', cur_num_rules', user_valid')
      BY <1>11, <1>p DEF TimeoutResend, buffer
    <2>4. UploadHasTimeout' /\ RunningIsActive'
      BY <1>11 DEF TimeoutResend, upload, buffer, Inv, UploadHasTimeout, RunningIsActive
    <2>5. QED
      BY <1>q, <2>2, <2>3, <2>4
  <1>12. ASSUME TimeoutGiveUp PROVE Inv'
    <2>1. LoadActive(files) /\ active' = active
      BY <1>12 DEF TimeoutGiveUp
    <2>2. /\ StoreType(files') /\ RunningIsActive'
          /\ BufferType(user_name', rules', cur_num_rules', user_valid')
      BY <1>p, <2>1, LoadActiveInv
    <2>3. PromiseType(promised') /\ RestType'
      BY <1>12, <1>p DEF TimeoutGiveUp, RuleTimeout, RestType, upload
    <2>4. UploadHasTimeout'
      BY <1>12 DEF TimeoutGiveUp, upload, Inv, UploadHasTimeout
    <2>5. QED
      BY <1>q, <2>2, <2>3, <2>4
  <1>13. ASSUME TimeoutSave PROVE Inv'
    <2>1. cur_num_rules \in 0 .. cur_num_rules
      BY <1>p, NumberAssumption DEF BufferType
    <2>2. StoreType(SavedUpTo(cur_num_rules))
      BY <1>p, <2>1, SavedType
    <2>3. LoadActive(SavedUpTo(cur_num_rules)) /\ active' = active
      BY <1>13 DEF TimeoutSave
    <2>4. /\ StoreType(files') /\ RunningIsActive'
          /\ BufferType(user_name', rules', cur_num_rules', user_valid')
      BY <1>p, <2>2, <2>3, LoadActiveInv
    <2>5. PromiseType(promised')
      <3>1. new_scene_name \in Name
        BY <1>13, <1>p DEF TimeoutSave, Inv, SceneNamed
      <3>2. QED
        BY <1>13, <1>p, <3>1 DEF TimeoutSave, PromiseType, RestType
    <2>6. RestType'
      BY <1>13, <1>p DEF TimeoutSave, RuleTimeout, RestType
    <2>7. UploadHasTimeout'
      BY <1>13 DEF TimeoutSave, UploadHasTimeout
    <2>8. QED
      BY <1>q, <2>4, <2>5, <2>6, <2>7
  <1>14. ASSUME StoreType(files'), PromiseType(promised'), active' \in Name \cup {NoName}, Dead
         PROVE  Inv'
    <2>1. BufferType(user_name', rules', cur_num_rules', user_valid')
      BY <1>14, <1>z, NoRulesType DEF Dead, BufferType
    <2>2. RestType'
      BY <1>14, <1>p, <1>z DEF Dead, RestType
    <2>3. UploadHasTimeout' /\ RunningIsActive'
      BY <1>14 DEF Dead, UploadHasTimeout, RunningIsActive
    <2>4. QED
      BY <1>q, <1>14, <2>1, <2>2, <2>3
  <1>15. ASSUME PowerOff \/ PowerOffInSetActive PROVE Inv'
    <2>1. active' \in Name \cup {NoName} /\ UNCHANGED <<files, promised>> /\ Dead
      BY <1>15, <1>p DEF PowerOff, PowerOffInSetActive, RestType
    <2>2. QED
      BY <1>14, <1>p, <2>1
  <1>16. ASSUME PowerOffInSave PROVE Inv'
    <2>1. PICK k \in 0 .. cur_num_rules : files' = SavedUpTo(k)
      BY <1>16 DEF PowerOffInSave
    <2>2. StoreType(files')
      BY <1>p, <2>1, SavedType
    <2>3. PromiseType(promised')
      BY <1>16, <1>p, RemovedType DEF PowerOffInSave, BufferType
    <2>4. active' \in Name \cup {NoName} /\ Dead
      BY <1>16, <1>p DEF PowerOffInSave, RestType
    <2>5. QED
      BY <1>14, <2>2, <2>3, <2>4
  <1>17. ASSUME PowerOn PROVE Inv'
    <2>1. LoadActive(files) /\ active' = active
      BY <1>17 DEF PowerOn
    <2>2. /\ StoreType(files') /\ RunningIsActive'
          /\ BufferType(user_name', rules', cur_num_rules', user_valid')
      BY <1>p, <2>1, LoadActiveInv
    <2>3. PromiseType(promised') /\ RestType'
      BY <1>17, <1>p DEF PowerOn, RestType, upload, timers
    <2>4. UploadHasTimeout'
      BY <1>17 DEF PowerOn, upload, Inv, UploadHasTimeout
    <2>5. QED
      BY <1>q, <2>2, <2>3, <2>4
  <1>18. ASSUME UNCHANGED vars PROVE Inv'
    BY <1>18 DEF vars, Inv, TypeOK, SceneNamed, UploadHasTimeout, RunningIsActive
  <1>20. ASSUME TimeoutHangs PROVE Inv'
    <2>1. hung' = TRUE /\ UNCHANGED <<files, active, on, buffer, upload, timers, wanted, promised>>
      BY <1>20 DEF TimeoutHangs
    <2>2. /\ StoreType(files') /\ PromiseType(promised') /\ RestType'
          /\ BufferType(user_name', rules', cur_num_rules', user_valid')
      BY <1>p, <2>1 DEF buffer, upload, timers, RestType
    <2>3. UploadHasTimeout' /\ RunningIsActive'
      BY <2>1 DEF upload, buffer, Inv, UploadHasTimeout, RunningIsActive
    <2>4. QED
      BY <1>q, <2>2, <2>3
  <1>19. QED
    BY <1>1, <1>2, <1>3, <1>4, <1>5, <1>6, <1>7, <1>8, <1>9, <1>10, <1>11, <1>12, <1>13,
       <1>15, <1>16, <1>17, <1>18, <1>20 DEF Next

LEMMA InvHolds == Spec => []Inv
  BY InitInv, StepInv, PTL DEF Spec

\* Every variable of the scene store keeps its type, for any number of rules: the
\* ones a list has room for, the ones the phone announces and the indexes it sends
\* them with (TypeOK: no rule is written outside of the list).
THEOREM TypeCorrect == Spec => []TypeOK
  <1>1. Inv => TypeOK
    BY DEF Inv
  <1>2. QED
    BY <1>1, InvHolds, PTL

\* An upload always has a timeout ahead of it.
THEOREM UploadIsTimed == Spec => []UploadHasTimeout
  <1>1. Inv => UploadHasTimeout
    BY DEF Inv
  <1>2. QED
    BY <1>1, InvHolds, PTL

\* Whenever no upload is going on and the active scene file has a name in it, the
\* control centre runs the active scene as it is in its file, or the rules of it
\* that fit.
THEOREM ActiveRuns == Spec => []RunningIsActive
  <1>1. Inv => RunningIsActive
    BY DEF Inv
  <1>2. QED
    BY <1>1, InvHolds, PTL

(***************************************************************************)
(* A phone that waits: Polite.  What the buffer is during an upload.       *)
(***************************************************************************)

Sending == new_scene_state /\ user_name = new_scene_name

\* An upload is of another scene than the active one.  The buffer holds it,
\* not to be processed and with no rule but those the phone sends in their places, or
\* the upload has been given up and the buffer is the active scene's.
UploadInv ==
  /\ new_scene_state => /\ on
                        /\ active \notin {new_scene_name, NoName}
                        /\ user_name \in {new_scene_name, active}
  /\ Sending => /\ ~user_valid
                /\ cur_num_rules <= Len(wanted)
                /\ \A i \in Index : rules[i] # Invalid => i < Len(wanted) /\ rules[i] = wanted[i + 1]

uploadVars == <<active, on, user_name, user_valid, rules, cur_num_rules, new_scene_state,
                new_scene_name, wanted>>

LEMMA UploadUnchanged ==
  ASSUME UploadInv, UNCHANGED uploadVars
  PROVE  UploadInv'
BY DEF UploadInv, Sending, uploadVars

\* While a polite phone may request, the running scene is the active one, if there
\* is one.
LEMMA PoliteRequest ==
  ASSUME Polite, Inv, MayRequest
  PROVE  /\ ~new_scene_state /\ rule_timer = 0 /\ ~rule_timeout
         /\ active # NoName => user_name = active
BY DEF MayRequest, Quiet, Serving, Inv, RunningIsActive

\* An active scene that has a name is the one that is loaded.
LEMMA LoadsActive ==
  ASSUME NEW fs, LoadActive(fs), active # NoName
  PROVE  LoadUser(fs, active)
BY DEF LoadActive, ActiveNames

LEMMA UploadInvNext ==
  ASSUME Polite, Inv, UploadInv, [Next]_vars
  PROVE  UploadInv'
<1>t. Len(wanted) \in 0 .. MaxRules /\ cur_num_rules \in 0 .. MaxSent /\ rules \in [Index -> Rule]
  BY SceneIsSeq DEF Inv, TypeOK
<1>0. ASSUME ~new_scene_state' PROVE UploadInv'
  BY <1>0 DEF UploadInv, Sending
<1>1. ASSUME NEW n \in Name, NEW s \in Scene, SetNewScene(n, s) PROVE UploadInv'
  <2>1. user_name = active /\ active \notin {n, NoName} /\ on
    BY <1>1, PoliteRequest DEF SetNewScene, MayRequest, Serving
  <2>2. user_name' = n /\ rules' = NoRules /\ cur_num_rules' = 0 /\ user_valid' = FALSE
    BY <1>1, <2>1 DEF SetNewScene, EmptyUser
  <2>3. new_scene_state' /\ new_scene_name' = n /\ wanted' = s /\ on' = on /\ active' = active
    BY <1>1 DEF SetNewScene
  <2>4. \A i \in Index : rules'[i] = Invalid
    BY <2>2 DEF NoRules
  <2>5. Len(s) \in Nat
    BY SceneIsSeq, NumberAssumption
  <2>6. 0 <= Len(s)
    BY <2>5
  <2>7. QED
    BY <2>1, <2>2, <2>3, <2>4, <2>6 DEF UploadInv, Sending
<1>2. ASSUME NEW k \in 0 .. MaxSent, SetNumOfRules(k) PROVE UploadInv'
  <2>1. /\ Sending /\ cur_num_rules' = Len(wanted)
        /\ UNCHANGED <<active, on, user_name, rules, user_valid, new_scene_state, new_scene_name, wanted>>
    BY <1>2 DEF SetNumOfRules, Uploading, Sending, upload
  <2>2. QED
    BY <1>t, <2>1 DEF UploadInv, Sending
<1>3. ASSUME NEW i \in 0 .. MaxSent - 1, NEW r \in Version, SetRule(i, r) PROVE UploadInv'
  <2>0. i \in Index /\ i < Len(wanted) /\ r = wanted[i + 1] /\ HasPlace(i)
    BY <1>t, <1>3, NumberAssumption DEF SetRule, Index, HasPlace
  <2>1. /\ Sending /\ cur_num_rules' = CountWith(i) /\ rules' = RulesWith(i, wanted[i + 1])
        /\ UNCHANGED <<active, on, user_name, user_valid, new_scene_state, new_scene_name, wanted>>
    BY <1>3, <2>0 DEF SetRule, Uploading, Sending, upload
  <2>2. CountWith(i) <= Len(wanted)
    BY <1>t, <2>0, <2>1, NumberAssumption DEF CountWith, Index, UploadInv
  <2>3. \A j \in Index : rules'[j] # Invalid => j < Len(wanted) /\ rules'[j] = wanted[j + 1]
    BY <1>t, <2>0, <2>1 DEF UploadInv, RulesWith
  <2>4. QED
    BY <2>1, <2>2, <2>3 DEF UploadInv, Sending
<1>4. ASSUME MayRequest, UNCHANGED new_scene_state PROVE UploadInv'
  BY <1>0, <1>4, PoliteRequest
<1>5. ASSUME Second PROVE UploadInv'
  <2>1. CASE new_scene_state /\ timeout_counter = 1
    <3>1. timeout_counter > 0
      BY <2>1
    <3>2. new_scene_state' = FALSE
      BY <1>5, <2>1, <3>1 DEF Second, Ended
    <3>3. QED
      BY <1>0, <3>2
  <2>2. CASE ~(new_scene_state /\ timeout_counter = 1)
    <3>1. UNCHANGED uploadVars
      BY <1>5, <2>2 DEF Second, buffer, uploadVars
    <3>2. QED
      BY <3>1, UploadUnchanged
  <2>3. QED
    BY <2>1, <2>2
<1>6. ASSUME TimeoutGiveUp PROVE UploadInv'
  <2>1. new_scene_state /\ LoadActive(files) /\ UNCHANGED <<active, on, new_scene_state, new_scene_name>>
    BY <1>6 DEF TimeoutGiveUp, upload
  <2>2. active # NoName
    BY <2>1 DEF UploadInv
  <2>3. user_name' = active
    BY <2>1, <2>2, LoadsActive DEF LoadUser
  <2>4. QED
    BY <2>1, <2>3 DEF UploadInv, Sending
<1>7. ASSUME Tick \/ TimeoutTooLate \/ TimeoutResend \/ TimeoutHangs \/ UNCHANGED vars
      PROVE  UploadInv'
  <2>1. UNCHANGED uploadVars
    BY <1>7 DEF Tick, TimeoutTooLate, TimeoutResend, TimeoutHangs, buffer, upload, vars, uploadVars
  <2>2. QED
    BY <2>1, UploadUnchanged
<1>8. ASSUME PowerOn PROVE UploadInv'
  BY <1>0, <1>8 DEF PowerOn, upload, UploadInv
<1>9. QED
  BY <1>0, <1>1, <1>2, <1>3, <1>4, <1>5, <1>6, <1>7, <1>8
     DEF Next, GetRules, SetActive, RemoveScene, RenameScene, TimeoutSave, PowerOff,
         PowerOffInSave, PowerOffInSetActive, Dead, upload

LEMMA UploadInvHolds == ASSUME Polite PROVE Spec => [](Inv /\ UploadInv)
<1>1. Init => UploadInv
  BY DEF Init, UploadInv, Sending
<1>2. Inv /\ UploadInv /\ [Next]_vars => UploadInv'
  BY UploadInvNext
<1>3. QED
  BY <1>1, <1>2, InvHolds, PTL DEF Spec

\* A scene that a polite phone uploads is never processed before it is saved
\* (HalfLoadedNotRun).
THEOREM UploadIsNotRun == ASSUME Polite PROVE Spec => []HalfLoadedNotRun
<1>1. UploadInv => HalfLoadedNotRun
  BY DEF UploadInv, Sending, HalfLoadedNotRun
<1>2. QED
  BY <1>1, UploadInvHolds, PTL

\* The file of the active scene stays where it is, whatever the phone requests,
\* while no upload has the buffer (ActiveFileStays): the name in the buffer, which
\* the two requests protect, is then that of the active scene.
THEOREM ActiveFileAlwaysStays == Spec => ActiveFileStays
<1>1. ASSUME Inv, [Next]_vars, active \in DOMAIN files, ~new_scene_state
      PROVE  active \in DOMAIN files'
  <2>0. Serving => user_name = active
    BY <1>1, NameAssumption DEF Serving, Inv, TypeOK, RunningIsActive
  <2>1. ASSUME NEW n PROVE active \in DOMAIN Opened(files, n)
    BY <1>1 DEF Opened
  <2>2. ASSUME NEW fs, NEW n, LoadUser(fs, n) \/ Restored(fs, n) PROVE DOMAIN fs \subseteq DOMAIN files'
    BY <2>2 DEF LoadUser, Restored, Opened
  <2>3. ASSUME NEW fs, LoadActive(fs) PROVE DOMAIN fs \subseteq DOMAIN files'
    <3>1. PICK n \in ActiveNames : LoadUser(fs, n)
      BY <2>3 DEF LoadActive
    <3>2. QED
      BY <2>2, <3>1
  <2>4. ASSUME NEW n \in Name, RemoveScene(n) PROVE active \in DOMAIN files'
    <3>1. n # active
      BY <2>0, <2>4 DEF RemoveScene, MayRequest, MayChange
    <3>2. QED
      BY <1>1, <2>4, <3>1 DEF RemoveScene, Restrict
  <2>5. ASSUME NEW n \in Name, NEW m \in Name, RenameScene(n, m) PROVE active \in DOMAIN files'
    <3>1. n # active
      BY <2>0, <2>5 DEF RenameScene, MayRequest, MayChange
    <3>2. QED
      BY <1>1, <2>5, <3>1 DEF RenameScene
  <2>6. ASSUME UNCHANGED files PROVE active \in DOMAIN files'
    BY <1>1, <2>6
  <2>7. ASSUME NEW n \in Name, GetRules(n) PROVE active \in DOMAIN files'
    BY <2>1, <2>2, <2>7 DEF GetRules
  <2>8. ASSUME Second \/ PowerOn PROVE active \in DOMAIN files'
    BY <1>1, <2>3, <2>8 DEF Second, PowerOn
  <2>9. ASSUME NEW n \in Name, SetActive(n) PROVE active \in DOMAIN files'
    BY <1>1, <2>2, <2>9 DEF SetActive
  <2>10. QED
    BY <1>1, <2>4, <2>5, <2>6, <2>7, <2>8, <2>9
       DEF Next, SetNewScene, SetNumOfRules, SetRule, Uploading, Tick, TimeoutTooLate,
           TimeoutResend, TimeoutGiveUp, TimeoutSave, TimeoutHangs, PowerOff,
           PowerOffInSave, PowerOffInSetActive, vars
<1>2. Inv /\ [Next]_vars =>
        [(active \in DOMAIN files /\ ~new_scene_state) => (active \in DOMAIN files')]_vars
  BY <1>1
<1>3. QED
  BY <1>2, InvHolds, PTL DEF Spec, ActiveFileStays

(***************************************************************************)
(* The timer of the rules.                                                 *)
(***************************************************************************)

\* While the timer of the rules runs or its message waits, the buffer is that of
\* the upload and has the number of rules the phone announced.  A message that
\* waits while the timer runs again is of an earlier announcement: the tries are
\* all left.
ClockInv ==
  /\ new_scene_state /\ (rule_timer > 0 \/ rule_timeout) =>
       /\ user_name = new_scene_name
       /\ cur_num_rules = Len(wanted)
       /\ new_scene_num_rule = Len(wanted)
  /\ rule_timeout /\ rule_timer > 0 => resend_count = MaxResend

clockVars == <<user_name, cur_num_rules, new_scene_state, new_scene_name, rule_timer,
               rule_timeout, new_scene_num_rule, resend_count, wanted>>

LEMMA ClockUnchanged ==
  ASSUME ClockInv, UNCHANGED clockVars
  PROVE  ClockInv'
BY DEF ClockInv, clockVars

LEMMA ClockInvNext ==
  ASSUME Polite, MaxResend > 0, Inv, UploadInv, ClockInv, [Next]_vars
  PROVE  ClockInv'
<1>t. /\ Len(wanted) \in Nat /\ rule_timer \in Nat /\ cur_num_rules \in Nat
      /\ resend_count \in Nat /\ rule_timeout \in BOOLEAN
  BY SceneIsSeq, NumberAssumption DEF Inv, TypeOK
<1>0. ASSUME ~rule_timeout', rule_timer' = 0 PROVE ClockInv'
  BY <1>0 DEF ClockInv
<1>1. ASSUME MayRequest, UNCHANGED timers PROVE ClockInv'
  BY <1>0, <1>1, PoliteRequest DEF timers
<1>2. ASSUME NEW k \in 0 .. MaxSent, SetNumOfRules(k) PROVE ClockInv'
  <2>1. k = Len(wanted) /\ user_name = new_scene_name
    BY <1>2 DEF SetNumOfRules, Uploading
  <2>2. QED
    BY <1>2, <2>1 DEF SetNumOfRules, upload, ClockInv
<1>3. ASSUME NEW i \in 0 .. MaxSent - 1, NEW r \in Version, SetRule(i, r) PROVE ClockInv'
  <2>1. /\ cur_num_rules' \in {CountWith(i), cur_num_rules} /\ UNCHANGED timers
        /\ UNCHANGED <<user_name, new_scene_state, new_scene_name, wanted>>
        /\ i < Len(wanted)
    BY <1>3 DEF SetRule, upload
  <2>2. cur_num_rules = Len(wanted) => CountWith(i) = cur_num_rules
    BY <1>t, <1>3, <2>1, NumberAssumption DEF CountWith
  <2>3. QED
    BY <2>1, <2>2 DEF ClockInv, timers
<1>4. ASSUME Second PROVE ClockInv'
  <2>1. CASE new_scene_state /\ timeout_counter = 1
    <3>1. timeout_counter > 0
      BY <2>1
    <3>2. new_scene_state' = FALSE /\ UNCHANGED <<rule_timer, rule_timeout, resend_count>>
      BY <1>4, <2>1, <3>1 DEF Second, Ended
    <3>3. QED
      BY <3>2 DEF ClockInv
  <2>2. CASE ~(new_scene_state /\ timeout_counter = 1)
    <3>1. UNCHANGED clockVars
      BY <1>4, <2>2 DEF Second, buffer, clockVars
    <3>2. QED
      BY <3>1, ClockUnchanged
  <2>3. QED
    BY <2>1, <2>2
<1>5. ASSUME Tick PROVE ClockInv'
  <2>1. /\ rule_timer > 0 /\ rule_timer' = rule_timer - 1
        /\ rule_timer' > 0 => rule_timeout' = rule_timeout
        /\ UNCHANGED <<user_name, cur_num_rules, new_scene_state, new_scene_name,
                       new_scene_num_rule, resend_count, wanted>>
    <3>1. rule_timer' = rule_timer - 1 /\ rule_timeout' = (rule_timeout \/ rule_timer = 1)
      BY <1>5 DEF Tick
    <3>2. rule_timer' > 0 => rule_timer # 1
      BY <1>t, <3>1
    <3>3. QED
      BY <1>5, <1>t, <3>1, <3>2 DEF Tick, buffer, upload
  <2>2. rule_timer' > 0 => rule_timer > 0
    BY <2>1
  <2>3. QED
    BY <2>1, <2>2 DEF ClockInv
<1>6. ASSUME TimeoutResend PROVE ClockInv'
  <2>1. /\ ~rule_timeout' /\ rule_timeout
        /\ UNCHANGED <<user_name, cur_num_rules, new_scene_state, new_scene_name,
                       new_scene_num_rule, wanted>>
    BY <1>6 DEF TimeoutResend, RuleTimeout, buffer, upload
  <2>2. QED
    BY <2>1 DEF ClockInv
<1>7. ASSUME TimeoutGiveUp PROVE ClockInv'
  <2>1. rule_timer = 0
    BY <1>7, <1>t DEF TimeoutGiveUp, RuleTimeout, ClockInv
  <2>2. QED
    BY <1>0, <1>7, <2>1 DEF TimeoutGiveUp, RuleTimeout
<1>8. ASSUME TimeoutTooLate \/ TimeoutSave PROVE ClockInv'
  <2>1. ~new_scene_state' /\ ~rule_timeout'
    BY <1>8 DEF TimeoutTooLate, TimeoutSave, RuleTimeout, upload
  <2>2. QED
    BY <2>1 DEF ClockInv
<1>9. ASSUME Dead PROVE ClockInv'
  BY <1>0, <1>9 DEF Dead
<1>10. ASSUME PowerOn PROVE ClockInv'
  BY <1>10 DEF PowerOn, UploadInv, ClockInv, upload, timers
<1>11. ASSUME TimeoutHangs \/ UNCHANGED vars PROVE ClockInv'
  <2>1. UNCHANGED clockVars
    BY <1>11 DEF TimeoutHangs, buffer, upload, timers, vars, clockVars
  <2>2. QED
    BY <2>1, ClockUnchanged
<1>12. QED
  BY <1>1, <1>2, <1>3, <1>4, <1>5, <1>6, <1>7, <1>8, <1>9, <1>10, <1>11
     DEF Next, SetNewScene, GetRules, SetActive, RemoveScene, RenameScene, PowerOff,
         PowerOffInSave, PowerOffInSetActive

LEMMA ClockInvHolds ==
  ASSUME Polite, MaxResend > 0
  PROVE  Spec => [](Inv /\ UploadInv /\ ClockInv)
<1>1. Init => ClockInv
  BY DEF Init, ClockInv
<1>2. Inv /\ UploadInv /\ ClockInv /\ [Next]_vars => ClockInv'
  BY ClockInvNext
<1>3. QED
  BY <1>1, <1>2, UploadInvHolds, PTL DEF Spec

(***************************************************************************)
(* What the phone was told is saved.                                       *)
(***************************************************************************)

\* A buffer without a missing rule is the scene the phone sent.
LEMMA SavedIsWanted ==
  ASSUME Inv, UploadInv, ClockInv, new_scene_state, rule_timeout, Missing = {}
  PROVE  /\ user_name = new_scene_name
         /\ [i \in 1 .. cur_num_rules |-> IF i <= MaxRules THEN rules[i - 1] ELSE Invalid] = wanted
<1>1. /\ Sending /\ cur_num_rules = Len(wanted)
      /\ Len(wanted) \in 0 .. MaxRules /\ wanted \in [1 .. Len(wanted) -> Version]
  BY SceneIsSeq DEF Inv, TypeOK, ClockInv, Sending
<1>2. ASSUME NEW i \in 1 .. Len(wanted) PROVE rules[i - 1] = wanted[i]
  <2>1. i - 1 \in Index /\ i - 1 < cur_num_rules /\ (i - 1) + 1 = i
    BY <1>1, NumberAssumption DEF Index
  <2>2. rules[i - 1] # Invalid
    BY <2>1 DEF Missing
  <2>3. rules[i - 1] = wanted[(i - 1) + 1]
    BY <1>1, <2>1, <2>2 DEF UploadInv
  <2>4. QED
    BY <2>1, <2>3
<1>a. \A i \in 1 .. Len(wanted) : i <= MaxRules
  BY <1>1, NumberAssumption
<1>3. [i \in 1 .. cur_num_rules |-> IF i <= MaxRules THEN rules[i - 1] ELSE Invalid] = wanted
  BY <1>1, <1>a, <1>2
<1>4. QED
  BY <1>1, <1>3 DEF Sending

\* Opening a file that may be missing changes none that is there.
LEMMA OpenedKeeps ==
  ASSUME NEW fs, NEW n, NEW m \in DOMAIN fs
  PROVE  m \in DOMAIN Opened(fs, n) /\ Opened(fs, n)[m] = fs[m]
BY DEF Opened

LEMMA SavedAsSentNext ==
  ASSUME Inv, UploadInv, ClockInv, SavedAsSent, [Next]_vars
  PROVE  SavedAsSent'
<1>1. ASSUME UNCHANGED promised,
             \A m \in DOMAIN files : m \in DOMAIN files' /\ files'[m] = files[m]
      PROVE  SavedAsSent'
  BY <1>1 DEF SavedAsSent
<1>2. ASSUME UNCHANGED <<files, promised>> PROVE SavedAsSent'
  BY <1>1, <1>2
<1>3. ASSUME NEW n, LoadUser(files, n), UNCHANGED promised PROVE SavedAsSent'
  <2>1. files' = files \/ files' = Opened(files, n)
    BY <1>3 DEF LoadUser, Restored
  <2>2. QED
    BY <1>1, <1>3, <2>1, OpenedKeeps
<1>a. ASSUME LoadActive(files), UNCHANGED promised PROVE SavedAsSent'
  BY <1>3, <1>a DEF LoadActive
<1>4. ASSUME NEW n \in Name, GetRules(n) PROVE SavedAsSent'
  <2>1. /\ files' = Opened(files, n) \/ files' = Opened(Opened(files, n), user_name)
        /\ UNCHANGED promised
    BY <1>4 DEF GetRules, Restored
  <2>2. QED
    BY <1>1, <2>1, OpenedKeeps
<1>5. ASSUME NEW n \in Name, RemoveScene(n) PROVE SavedAsSent'
  BY <1>5 DEF RemoveScene, Restrict, SavedAsSent
<1>6. ASSUME NEW n \in Name, NEW m \in Name, RenameScene(n, m) PROVE SavedAsSent'
  <2> DEFINE Renamed(f) ==
        [x \in {IF y = n THEN m ELSE y : y \in DOMAIN f} |->
           f[IF x = m /\ n \in DOMAIN f THEN n ELSE x]]
  <2>1. /\ n \in DOMAIN files /\ m \notin DOMAIN files
        /\ files' = Renamed(files) /\ promised' = Renamed(promised)
    BY <1>6 DEF RenameScene
  <2>2. m \notin DOMAIN promised
    BY <2>1 DEF SavedAsSent
  <2>3. ASSUME NEW x \in DOMAIN promised' PROVE x \in DOMAIN files' /\ files'[x] = promised'[x]
    <3>1. CASE n \in DOMAIN promised /\ x = m
      BY <2>1, <3>1 DEF SavedAsSent
    <3>2. CASE ~(n \in DOMAIN promised /\ x = m)
      <4>1. x \in DOMAIN promised /\ x # n /\ x # m
        BY <2>1, <2>2, <2>3, <3>2
      <4>2. QED
        BY <2>1, <4>1 DEF SavedAsSent
    <3>3. QED
      BY <3>1, <3>2
  <2>4. QED
    BY <2>3 DEF SavedAsSent
<1>7. ASSUME TimeoutSave PROVE SavedAsSent'
  <2>1. /\ user_name = new_scene_name
        /\ [i \in 1 .. cur_num_rules |-> IF i <= MaxRules THEN rules[i - 1] ELSE Invalid] = wanted
    BY <1>7, SavedIsWanted DEF TimeoutSave, RuleTimeout
  <2>a. new_scene_name \in Name /\ active # NoName /\ LoadActive(SavedUpTo(cur_num_rules))
    BY <1>7 DEF TimeoutSave, Inv, SceneNamed, UploadInv
  <2>b. LoadUser(SavedUpTo(cur_num_rules), active)
    BY <2>a, LoadsActive
  <2>2. /\ files' = Opened(SavedUpTo(cur_num_rules), active)
        /\ promised' = [n \in DOMAIN promised \cup {new_scene_name} |->
                          IF n = new_scene_name THEN wanted ELSE promised[n]]
    BY <1>7, <2>a, <2>b DEF TimeoutSave, LoadUser, Restored
  <2>3. SavedUpTo(cur_num_rules) =
          [m \in DOMAIN files \cup {new_scene_name} |-> IF m = new_scene_name THEN wanted ELSE files[m]]
    BY <2>1, <2>a, NameAssumption DEF SavedUpTo
  <2>4. QED
    BY <2>2, <2>3, OpenedKeeps DEF SavedAsSent
<1>8. ASSUME PowerOffInSave PROVE SavedAsSent'
  <2>1. PICK k \in 0 .. cur_num_rules : files' = SavedUpTo(k)
    BY <1>8 DEF PowerOffInSave
  <2>2. promised' = Restrict(promised, DOMAIN promised \ {user_name})
    BY <1>8 DEF PowerOffInSave
  <2>3. QED
    BY <2>1, <2>2 DEF SavedUpTo, Restrict, SavedAsSent
<1>9. ASSUME Second PROVE SavedAsSent'
  <2>1. UNCHANGED promised /\ (UNCHANGED files \/ LoadActive(files))
    BY <1>9 DEF Second
  <2>2. QED
    BY <1>2, <1>a, <2>1
<1>10. QED
  BY <1>2, <1>3, <1>a, <1>4, <1>5, <1>6, <1>7, <1>8, <1>9
     DEF Next, SetNewScene, SetNumOfRules, SetRule, SetActive, Tick, TimeoutTooLate,
         TimeoutResend, TimeoutGiveUp, TimeoutHangs, PowerOff, PowerOffInSetActive, PowerOn, vars

\* A scene that a polite phone was told is saved is in its file with all the
\* rules the phone sent, in their places (SavedAsSent), for any number of rules
\* and seconds.  The rules must be asked for again at least once, as the code
\* does: with no try at all an upload that is given up while its timer runs
\* again is reported as saved.
THEOREM SavedIsAsSent == ASSUME Polite, MaxResend > 0 PROVE Spec => []SavedAsSent
<1>1. Init => SavedAsSent
  BY DEF Init, SavedAsSent
<1>2. Inv /\ UploadInv /\ ClockInv /\ SavedAsSent /\ [Next]_vars => SavedAsSent'
  BY SavedAsSentNext
<1>3. QED
  BY <1>1, <1>2, ClockInvHolds, PTL DEF Spec

(***************************************************************************)
(* The largest scene.                                                      *)
(***************************************************************************)

\* During the upload of a scene of MaxRules rules the timer of the rules never
\* gets ahead of the timeout of the upload.
LongInv ==
  new_scene_state /\ Len(wanted) = MaxRules =>
    /\ ~rule_timeout
    /\ rule_timer > 0 => IF due = "second" THEN rule_timer >= timeout_counter
                                           ELSE rule_timer > timeout_counter

LEMMA LongInvNext ==
  ASSUME Polite, Timeout <= MaxRules, Inv, UploadInv, LongInv, [Next]_vars
  PROVE  LongInv'
<1>t. /\ rule_timer \in Nat /\ timeout_counter \in Nat /\ timeout_counter <= Timeout
      /\ Timeout \in Nat /\ MaxRules \in Nat /\ due \in {"second", "tick"}
  BY NumberAssumption DEF Inv, TypeOK
<1>0. ASSUME ~new_scene_state' PROVE LongInv'
  BY <1>0 DEF LongInv
<1>1. ASSUME MayRequest, UNCHANGED timers PROVE LongInv'
  BY <1>1, PoliteRequest DEF timers, LongInv
<1>2. ASSUME NEW k \in 0 .. MaxSent, SetNumOfRules(k) PROVE LongInv'
  <2>a. k = Len(wanted) /\ Len(wanted) <= MaxRules
    BY <1>2, SceneIsSeq, NumberAssumption DEF SetNumOfRules, Inv, TypeOK
  <2>b. k % TimerRange = k
    BY <2>a, TimerOf
  <2>1. /\ new_scene_state /\ rule_timer' = Len(wanted) /\ due' = "second"
        /\ UNCHANGED <<new_scene_state, timeout_counter, rule_timeout, wanted>>
    BY <1>2, <2>a, <2>b DEF SetNumOfRules, Uploading, upload
  <2>2. MaxRules >= timeout_counter
    BY <1>t
  <2>3. QED
    BY <2>1, <2>2 DEF LongInv
<1>3. ASSUME Second PROVE LongInv'
  <2>1. CASE new_scene_state /\ timeout_counter = 1
    <3>1. timeout_counter > 0
      BY <2>1
    <3>2. new_scene_state' = FALSE
      BY <1>3, <2>1, <3>1 DEF Second, Ended
    <3>3. QED
      BY <1>0, <3>2
  <2>2. CASE new_scene_state /\ timeout_counter # 1
    <3>1. timeout_counter > 0
      BY <2>2 DEF Inv, UploadHasTimeout
    <3>2. /\ timeout_counter' = timeout_counter - 1 /\ due' = "tick"
          /\ rule_timer > 0 => due = "second"
          /\ UNCHANGED <<rule_timer, rule_timeout, wanted>>
      BY <1>3, <2>2, <3>1 DEF Second
    <3>3. QED
      BY <1>t, <2>2, <3>2 DEF LongInv
  <2>3. CASE ~new_scene_state
    BY <1>0, <1>3, <2>3 DEF Second
  <2>4. QED
    BY <2>1, <2>2, <2>3
<1>4. ASSUME Tick PROVE LongInv'
  <2>1. ASSUME new_scene_state, Len(wanted) = MaxRules
        PROVE  ~rule_timeout' /\ rule_timer' >= timeout_counter
    <3>1. ~rule_timeout /\ rule_timer > timeout_counter /\ timeout_counter > 0
      BY <1>4, <2>1 DEF Tick, LongInv, Inv, UploadHasTimeout
    <3>2. rule_timer' = rule_timer - 1 /\ rule_timer # 1
      BY <1>4, <1>t, <3>1 DEF Tick
    <3>3. ~rule_timeout'
      BY <1>4, <3>1, <3>2, Zenon DEF Tick
    <3>4. QED
      BY <1>t, <3>1, <3>2, <3>3
  <2>2. due' = "second" /\ UNCHANGED <<new_scene_state, timeout_counter, wanted>>
    BY <1>4 DEF Tick, upload
  <2>3. QED
    BY <2>1, <2>2 DEF LongInv
<1>5. ASSUME TimeoutResend \/ TimeoutGiveUp PROVE LongInv'
  BY <1>5 DEF TimeoutResend, TimeoutGiveUp, RuleTimeout, LongInv, upload
<1>6. ASSUME UNCHANGED <<upload, timers, wanted>> PROVE LongInv'
  BY <1>6 DEF LongInv, upload, timers
<1>7. ASSUME TimeoutTooLate \/ TimeoutSave \/ Dead PROVE LongInv'
  BY <1>0, <1>7 DEF TimeoutTooLate, TimeoutSave, Dead, upload
<1>8. ASSUME (\E i \in 0 .. MaxSent - 1, r \in Version : SetRule(i, r)) \/ TimeoutHangs \/ PowerOn
               \/ UNCHANGED vars
      PROVE  LongInv'
  BY <1>6, <1>8 DEF SetRule, TimeoutHangs, PowerOn, vars, upload, timers
<1>9. QED
  BY <1>1, <1>2, <1>3, <1>4, <1>5, <1>7, <1>8
     DEF Next, SetNewScene, GetRules, SetActive, RemoveScene, RenameScene, PowerOff,
         PowerOffInSave, PowerOffInSetActive

LEMMA LargestNext ==
  ASSUME Inv, LongInv, LargestNeverSaved, [Next]_vars
  PROVE  LargestNeverSaved'
<1>1. ASSUME NEW n \in Name, RemoveScene(n) PROVE LargestNeverSaved'
  BY <1>1 DEF RemoveScene, Restrict, LargestNeverSaved
<1>2. ASSUME NEW n \in Name, NEW m \in Name, RenameScene(n, m) PROVE LargestNeverSaved'
  BY <1>2 DEF RenameScene, LargestNeverSaved
<1>3. ASSUME TimeoutSave PROVE LargestNeverSaved'
  <2>1. Len(wanted) # MaxRules
    BY <1>3 DEF TimeoutSave, RuleTimeout, LongInv
  <2>2. Len(wanted) < MaxRules
    BY <2>1, SceneIsSeq, NumberAssumption DEF Inv, TypeOK
  <2>3. QED
    BY <1>3, <2>2 DEF TimeoutSave, LargestNeverSaved
<1>4. ASSUME PowerOffInSave PROVE LargestNeverSaved'
  BY <1>4 DEF PowerOffInSave, Restrict, LargestNeverSaved
<1>5. ASSUME UNCHANGED promised PROVE LargestNeverSaved'
  BY <1>5 DEF LargestNeverSaved
<1>6. QED
  BY <1>1, <1>2, <1>3, <1>4, <1>5
     DEF Next, SetNewScene, SetNumOfRules, SetRule, GetRules, SetActive, Second, Tick,
         TimeoutTooLate, TimeoutResend, TimeoutGiveUp, TimeoutHangs, PowerOff,
         PowerOffInSetActive, PowerOn, vars

\* A scene of MaxRules rules is never saved, however fast the phone sends it
\* (LargestNeverSaved), whenever the time to upload is no longer than the timer
\* of that many rules: in the code both are 25 seconds.
THEOREM LargestIsNeverSaved ==
  ASSUME Polite, Timeout <= MaxRules PROVE Spec => []LargestNeverSaved
<1>1. Init => LongInv /\ LargestNeverSaved
  BY DEF Init, LongInv, LargestNeverSaved
<1>2. Inv /\ UploadInv /\ LongInv /\ [Next]_vars => LongInv'
  BY LongInvNext
<1>3. Inv /\ LongInv /\ LargestNeverSaved /\ [Next]_vars => LargestNeverSaved'
  BY LargestNext
<1>4. QED
  BY <1>1, <1>2, <1>3, UploadInvHolds, PTL DEF Spec
=============================================================================
