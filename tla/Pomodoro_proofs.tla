--------------------------- MODULE Pomodoro_proofs --------------------------
(* Proofs about Pomodoro, for any times, languages and length of a minute. *)
EXTENDS Pomodoro, TLAPS

USE SettingsAssumption

\* What the handlers of the widgets and of the dialog make of the settings.
LEMMA WithLanguage ==
    ASSUME NEW s \in Settings, NEW l \in Languages
    PROVE  /\ [s EXCEPT !.language = l] \in Settings
           /\ [s EXCEPT !.language = l].language = l
           /\ [s EXCEPT !.language = l] # NoFile
  BY DEF Settings

LEMMA WithSetting ==
    ASSUME TypeOK, ChangeSetting
    PROVE  settings' \in Settings /\ settings'.language = settings.language
  BY DEF TypeOK, ChangeSetting, Settings

LEMMA WithAutostart ==
    ASSUME TypeOK, ChangeAutostart
    PROVE  settings' \in Settings /\ settings'.language = settings.language
  BY DEF TypeOK, ChangeAutostart, Settings

LEMMA SavedSettings == TypeOK => Saved \in Settings
  BY DEF TypeOK, Saved

LEMMA PhaseTimes ==
    ASSUME TypeOK, NEW w \in BOOLEAN PROVE PhaseTime(w) \in Nat
<1>1. settings.work \in Nat /\ settings.break \in Nat
  BY DEF TypeOK, Settings
<1>2. QED
  BY <1>1 DEF PhaseTime

\* A new run of the program begins with well-typed settings.
LEMMA LoadType ==
    ASSUME NEW config \in Settings, Load(config), file' \in Settings \cup {NoFile},
           desktop' \in BOOLEAN
    PROVE  TypeOK'
<1>1. config.language \in Languages
  BY DEF Settings
<1>2. timerId' \in 0 .. MaxStarts /\ started' \in 0 .. MaxStarts /\ remaining' \in Nat
  BY DEF Load
<1>3. /\ proc' \in {"up", "dialog", "exited", "killed"}
      /\ running' \in BOOLEAN /\ isWork' \in BOOLEAN /\ sources' \subseteq 1 .. MaxStarts
  BY DEF Load
<1>4. QED
  BY <1>1, <1>2, <1>3 DEF Load, TypeOK

\* Every variable keeps its type: the remaining seconds never go below zero,
\* because update_timer tests them before it counts (main_window.c:21-30).
THEOREM TypeCorrect == Spec => []TypeOK
<1>1. Init => TypeOK
  <2> SUFFICES ASSUME Init PROVE TypeOK
    OBVIOUS
  <2>1. Defaults.language \in Languages
    BY DEF Settings
  <2>2. timerId \in 0 .. MaxStarts /\ started \in 0 .. MaxStarts /\ remaining \in Nat
    BY DEF Init
  <2>3. /\ running \in BOOLEAN /\ isWork \in BOOLEAN /\ desktop \in BOOLEAN
        /\ sources \subseteq 1 .. MaxStarts
    BY DEF Init
  <2>4. QED
    BY <2>1, <2>2, <2>3 DEF Init, TypeOK
<1>2. TypeOK /\ [Next]_vars => TypeOK'
  <2> SUFFICES ASSUME TypeOK, [Next]_vars PROVE TypeOK'
    OBVIOUS
  <2>1. CASE Launch
    BY <2>1, SavedSettings, LoadType DEF Launch, disk, TypeOK
  <2>2. CASE Tick
    <3>1. remaining = 0 => PhaseTime(~isWork) \in Nat
      BY PhaseTimes DEF TypeOK
    <3>2. remaining' \in Nat
      BY <2>2, <3>1 DEF Tick, TypeOK
    <3>3. isWork' \in BOOLEAN
      BY <2>2 DEF Tick, TypeOK
    <3>4. QED
      BY <2>2, <3>2, <3>3 DEF Tick, disk, TypeOK
  <2>3. CASE StartTimer
    <3>1. PhaseTime(TRUE) \in Nat
      BY PhaseTimes
    <3>2. /\ started' \in 0 .. MaxStarts /\ timerId' \in 0 .. MaxStarts
          /\ sources' \subseteq 1 .. MaxStarts
      BY <2>3 DEF StartTimer, TypeOK
    <3>3. isWork' \in BOOLEAN /\ running' \in BOOLEAN /\ remaining' \in Nat
      BY <2>3, <3>1 DEF StartTimer
    <3>4. QED
      BY <2>3, <3>2, <3>3 DEF StartTimer, disk, TypeOK
  <2>4. CASE StopTimer
    BY <2>4 DEF StopTimer, disk, TypeOK
  <2>5. CASE ChangeSetting
    BY <2>5, WithSetting DEF ChangeSetting, timer, disk, TypeOK
  <2>6. CASE ChangeAutostart
    BY <2>6, WithAutostart DEF ChangeAutostart, timer, TypeOK
  <2>7. ASSUME NEW l \in Languages, PickLanguage(l) PROVE TypeOK'
    BY <2>7 DEF PickLanguage, timer, disk, TypeOK
  <2>8. CASE AnswerNo \/ RestartFails
    BY <2>8, WithLanguage DEF AnswerNo, RestartFails, SaveLanguage, timer, TypeOK
  <2>9. CASE AnswerYes
    BY <2>9, WithLanguage, LoadType DEF AnswerYes, SaveLanguage, TypeOK
  <2>10. CASE CloseWindow \/ QuitFromTray \/ Kill
    BY <2>10 DEF CloseWindow, QuitFromTray, Kill, timer, disk, TypeOK
  <2>11. CASE UNCHANGED vars
    BY <2>11 DEF vars, timer, disk, TypeOK
  <2>12. QED
    BY <2>1, <2>2, <2>3, <2>4, <2>5, <2>6, <2>7, <2>8, <2>9, <2>10, <2>11 DEF Next
<1>3. QED
  BY <1>1, <1>2, PTL DEF Spec

\* toggle_timer keeps one timeout while the timer runs and none while it does
\* not (main_window.c:51-64), through restarts of the program too.
THEOREM OneTimeoutAtMost == Spec => []OneTimeout
<1>1. Init => OneTimeout
  BY DEF Init, OneTimeout
<1>2. TypeOK /\ OneTimeout /\ [Next]_vars => OneTimeout'
  <2> SUFFICES ASSUME TypeOK, OneTimeout, [Next]_vars PROVE OneTimeout'
    OBVIOUS
  <2> USE DEF OneTimeout
  <2>1. CASE Launch \/ AnswerYes
    BY <2>1 DEF Launch, AnswerYes, Load
  <2>2. CASE Tick
    BY <2>2 DEF Tick
  <2>3. CASE StartTimer
    BY <2>3 DEF StartTimer
  <2>4. CASE StopTimer
    BY <2>4 DEF StopTimer
  <2>5. CASE ChangeSetting \/ ChangeAutostart \/ AnswerNo \/ RestartFails
    BY <2>5 DEF ChangeSetting, ChangeAutostart, AnswerNo, RestartFails, timer
  <2>6. ASSUME NEW l \in Languages, PickLanguage(l) PROVE OneTimeout'
    BY <2>6 DEF PickLanguage, timer
  <2>7. CASE CloseWindow \/ QuitFromTray \/ Kill
    BY <2>7 DEF CloseWindow, QuitFromTray, Kill, timer
  <2>8. CASE UNCHANGED vars
    BY <2>8 DEF vars, timer
  <2>9. QED
    BY <2>1, <2>2, <2>3, <2>4, <2>5, <2>6, <2>7, <2>8 DEF Next
<1>3. QED
  BY <1>1, <1>2, TypeCorrect, PTL DEF Spec

\* on_language_changed saves before it lets the language go on being used
\* (main_window.c:92-94), whichever way the dialog is left.
THEOREM LanguageStaysSaved == Spec => []LanguageIsSaved
<1>1. Init => LanguageIsSaved
  BY DEF Init, LanguageIsSaved, Saved
<1>2. TypeOK /\ LanguageIsSaved /\ [Next]_vars => LanguageIsSaved'
  <2> SUFFICES ASSUME TypeOK, LanguageIsSaved, [Next]_vars PROVE LanguageIsSaved'
    OBVIOUS
  <2> USE DEF LanguageIsSaved
  <2>1. CASE Launch
    BY <2>1 DEF Launch, Load, disk, Saved
  <2>2. CASE Tick \/ StartTimer \/ StopTimer
    BY <2>2 DEF Tick, StartTimer, StopTimer, disk, Saved
  <2>3. CASE ChangeSetting
    BY <2>3, WithSetting DEF ChangeSetting, disk, Saved
  <2>4. CASE ChangeAutostart
    BY <2>4, WithAutostart DEF ChangeAutostart, Saved
  <2>5. ASSUME NEW l \in Languages, PickLanguage(l) PROVE LanguageIsSaved'
    BY <2>5 DEF PickLanguage, disk, Saved
  <2>6. CASE AnswerNo \/ RestartFails
    BY <2>6, WithLanguage DEF AnswerNo, RestartFails, SaveLanguage, TypeOK, Saved
  <2>7. CASE AnswerYes
    BY <2>7, WithLanguage DEF AnswerYes, SaveLanguage, Load, TypeOK, Saved
  <2>8. CASE CloseWindow
    BY <2>8 DEF CloseWindow, TypeOK, Saved
  <2>9. CASE QuitFromTray \/ Kill
    BY <2>9 DEF QuitFromTray, Kill, disk, Saved
  <2>10. CASE UNCHANGED vars
    BY <2>10 DEF vars, disk, Saved
  <2>11. QED
    BY <2>1, <2>2, <2>3, <2>4, <2>5, <2>6, <2>7, <2>8, <2>9, <2>10 DEF Next
<1>3. QED
  BY <1>1, <1>2, TypeCorrect, PTL DEF Spec

\* Only the timeout touches the time and the kind of a running phase; the
\* settings come in when the next one begins (main_window.c:17-40, 230-249).
THEOREM PhasesRunTheirTime == Spec => PhaseRunsItsTime
<1> DEFINE Kept == running /\ running' /\ remaining # 0
                     => remaining' \in {remaining, remaining - 1} /\ isWork' = isWork
<1>1. [Next]_vars => [Kept]_vars
  <2> SUFFICES ASSUME Next, running, running', remaining # 0
               PROVE  remaining' \in {remaining, remaining - 1} /\ isWork' = isWork
    BY DEF Kept
  <2>1. CASE Launch \/ AnswerYes
    BY <2>1 DEF Launch, AnswerYes, Load
  <2>2. CASE Tick
    BY <2>2 DEF Tick
  <2>3. CASE StartTimer \/ StopTimer
    BY <2>3 DEF StartTimer, StopTimer
  <2>4. CASE ChangeSetting \/ ChangeAutostart \/ AnswerNo \/ RestartFails
    BY <2>4 DEF ChangeSetting, ChangeAutostart, AnswerNo, RestartFails, timer
  <2>5. ASSUME NEW l \in Languages, PickLanguage(l)
        PROVE  remaining' = remaining /\ isWork' = isWork
    BY <2>5 DEF PickLanguage, timer
  <2>6. CASE CloseWindow \/ QuitFromTray \/ Kill
    BY <2>6 DEF CloseWindow, QuitFromTray, Kill, timer
  <2>7. QED
    BY <2>1, <2>2, <2>3, <2>4, <2>5, <2>6 DEF Next
<1>2. QED
  BY <1>1, PTL DEF Spec, PhaseRunsItsTime
=============================================================================
