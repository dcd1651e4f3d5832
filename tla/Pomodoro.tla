------------------------------ MODULE Pomodoro ------------------------------
(***************************************************************************)
(* The pomodoro application: the timer, the settings the user changes      *)
(* while it runs, and what is left of them in the configuration directory  *)
(* from one run of the program to the next.  GTK calls one handler at a    *)
(* time, but the dialog of on_language_changed runs a main loop of its own *)
(* inside the handler, in which the timer goes on.                         *)
(***************************************************************************)
EXTENDS Naturals, FiniteSets

CONSTANTS
    WorkTimes, BreakTimes,  \* the minutes the spin buttons offer
    Languages, Sounds,      \* Sounds: sound_enabled and sound_path together
    Defaults,               \* the settings without a configuration file
    Minute,                 \* the seconds of a minute
    MaxStarts,              \* bound: timers started in one run of the program
    NoFile

Settings == [work : WorkTimes, break : BreakTimes, language : Languages,
             sound : Sounds, autostart : BOOLEAN]

ASSUME SettingsAssumption ==
    /\ WorkTimes \subseteq Nat \ {0} /\ BreakTimes \subseteq Nat \ {0}
    /\ Defaults \in Settings /\ NoFile \notin Settings
    /\ Minute \in Nat \ {0} /\ MaxStarts \in Nat

VARIABLES
    proc,       \* "up", in the "dialog", "exited", or "killed" from outside
    choice,     \* the language picked in the combo box
    settings,   \* *context->settings
    running, isWork, remaining, timerId,    \* *context->timer_state
    sources,    \* the GLib timeouts that call update_timer
    started,    \* how many of them this process has created
    file,       \* config.ini, or NoFile
    desktop     \* whether the entry in ~/.config/autostart exists

timer == <<running, isWork, remaining, timerId, sources, started>>
disk  == <<file, desktop>>
vars  == <<proc, choice, settings, timer, disk>>

Saved == IF file = NoFile THEN Defaults ELSE file
Alive == proc \in {"up", "dialog"}

Init ==
    /\ file      = NoFile
    /\ desktop   = FALSE
    /\ proc      = "up"
    /\ settings  = Defaults
    /\ choice    = Defaults.language
    /\ running   = FALSE
    /\ isWork    = TRUE
    /\ remaining = 0
    /\ timerId   = 0
    /\ sources   = {}
    /\ started   = 0

\* main: load_settings and init_context.
Load(config) ==
    /\ proc'      = "up"
    /\ settings'  = config
    /\ choice'    = config.language
    /\ running'   = FALSE
    /\ isWork'    = TRUE
    /\ remaining' = 0
    /\ timerId'   = 0
    /\ sources'   = {}
    /\ started'   = 0

Launch ==
    /\ ~Alive
    /\ Load(Saved)
    /\ UNCHANGED disk

-----------------------------------------------------------------------------
(* The timer.                                                              *)

PhaseTime(work) == (IF work THEN settings.work ELSE settings.break) * Minute

\* A slip: the same phase again after its end.
SamePhase ==
    /\ Alive
    /\ sources # {}
    /\ remaining' = IF remaining = 0 THEN PhaseTime(isWork) ELSE remaining - 1
    /\ UNCHANGED <<proc, choice, settings, isWork, running, timerId, sources,
                   started, disk>>

\* update_timer.  The call that finds no time left starts the other phase and
\* does not count a second.
Tick ==
    /\ Alive
    /\ sources # {}
    /\ IF remaining = 0
         THEN /\ isWork'    = ~isWork
              /\ remaining' = PhaseTime(~isWork)
         ELSE /\ remaining' = remaining - 1
              /\ UNCHANGED isWork
    /\ UNCHANGED <<proc, choice, settings, running, timerId, sources, started,
                   disk>>

StartTimer ==
    /\ proc = "up" /\ ~running
    /\ started < MaxStarts
    /\ remaining' = PhaseTime(TRUE)
    /\ isWork'    = TRUE
    /\ started'   = started + 1
    /\ timerId'   = started'
    /\ sources'   = sources \cup {timerId'}
    /\ running'   = TRUE
    /\ UNCHANGED <<proc, choice, settings, disk>>

\* A slip: the timeout is not removed.
LeavesSource ==
    /\ proc = "up" /\ running
    /\ running' = FALSE
    /\ UNCHANGED <<proc, choice, settings, isWork, remaining, timerId, sources,
                   started, disk>>

StopTimer ==
    /\ proc = "up" /\ running
    /\ sources' = sources \ {timerId}
    /\ running' = FALSE
    /\ UNCHANGED <<proc, choice, settings, isWork, remaining, timerId, started,
                   disk>>

-----------------------------------------------------------------------------
(* The settings.                                                           *)

\* A slip: a new work time takes effect at once.
AppliesAtOnce ==
    /\ proc = "up"
    /\ \E w \in WorkTimes :
          /\ settings'  = [settings EXCEPT !.work  = w]
          /\ remaining' = IF running /\ isWork THEN w * Minute ELSE remaining
    /\ UNCHANGED <<proc, choice, running, isWork, timerId, sources, started,
                   disk>>

ChangeSetting ==
    /\ proc = "up"
    /\ \/ \E w \in WorkTimes  : settings' = [settings EXCEPT !.work  = w]
       \/ \E b \in BreakTimes : settings' = [settings EXCEPT !.break = b]
       \/ \E s \in Sounds     : settings' = [settings EXCEPT !.sound = s]
    /\ UNCHANGED <<proc, choice, timer, disk>>

\* The entry is a copy of the system's .desktop file, which need not be there:
\* then the setting is on without an entry.
ChangeAutostart ==
    /\ proc = "up"
    /\ settings' = [settings EXCEPT !.autostart = ~@]
    /\ \E installed \in BOOLEAN :
          desktop' = (settings'.autostart /\ (installed \/ desktop))
    /\ UNCHANGED <<proc, choice, timer, file>>

\* Picking the language in use does nothing.
PickLanguage(l) ==
    /\ proc = "up"
    /\ choice' = l
    /\ proc'   = IF l = settings.language THEN "up" ELSE "dialog"
    /\ UNCHANGED <<settings, timer, disk>>

\* Whatever the answer, the language changes and all the settings are saved.
SaveLanguage ==
    /\ proc = "dialog"
    /\ file' = [settings EXCEPT !.language = choice]
    /\ UNCHANGED desktop

\* A slip: the language is saved only for the restart.
NotSaved ==
    /\ proc = "dialog"
    /\ settings' = [settings EXCEPT !.language = choice]
    /\ proc'     = "up"
    /\ UNCHANGED <<choice, timer, disk>>

AnswerNo ==
    /\ SaveLanguage
    /\ settings' = file'
    /\ proc'     = "up"
    /\ UNCHANGED <<choice, timer>>

\* execvp replaces the program, timer and all, by a new run of it.
AnswerYes ==
    /\ SaveLanguage
    /\ Load([settings EXCEPT !.language = choice])

\* execvp fails: the name of the program is looked up in PATH.
RestartFails ==
    /\ SaveLanguage
    /\ settings' = file'
    /\ proc'     = "exited"
    /\ UNCHANGED <<choice, timer>>

-----------------------------------------------------------------------------
(* The end of the program.                                                 *)

\* "destroy" quits the main loop and, by the second handler, saves.
CloseWindow ==
    /\ proc = "up"
    /\ proc' = "exited"
    /\ file' = settings
    /\ UNCHANGED <<choice, settings, timer, desktop>>

\* The menu of the tray icon only quits the main loop, and main returns.
QuitFromTray ==
    /\ proc = "up"
    /\ proc' = "exited"
    /\ UNCHANGED <<choice, settings, timer, disk>>

Kill ==
    /\ Alive
    /\ proc' = "killed"
    /\ UNCHANGED <<choice, settings, timer, disk>>

Next ==
    \/ Launch \/ Tick \/ StartTimer \/ StopTimer
    \/ ChangeSetting \/ ChangeAutostart
    \/ \E l \in Languages : PickLanguage(l)
    \/ AnswerNo \/ AnswerYes \/ RestartFails
    \/ CloseWindow \/ QuitFromTray \/ Kill

Spec == Init /\ [][Next]_vars

\* GLib calls a timeout that is due again and again, in the main loop of the
\* program or in that of the dialog.
FairSpec == Spec /\ WF_vars(Tick)

-----------------------------------------------------------------------------
(* Properties.                                                             *)

TypeOK ==
    /\ proc      \in {"up", "dialog", "exited", "killed"}
    /\ choice    \in Languages
    /\ settings  \in Settings
    /\ running   \in BOOLEAN
    /\ isWork    \in BOOLEAN
    /\ remaining \in Nat
    /\ timerId   \in 0 .. MaxStarts
    /\ sources   \subseteq 1 .. MaxStarts
    /\ started   \in 0 .. MaxStarts
    /\ file      \in Settings \cup {NoFile}
    /\ desktop   \in BOOLEAN

\* There is one timeout while the timer runs and none while it is stopped, so
\* that seconds are never counted twice: g_source_remove in toggle_timer
\* always names the timeout that is alive, however often the user has stopped
\* and started, and a stopped timer is never resumed by an old timeout.
OneTimeout == sources = IF running THEN {timerId} ELSE {}

\* A running phase is never cut short nor stretched by what the user does to
\* the settings meanwhile: its time only runs down by seconds, until it is
\* over or the timer is stopped or the program ends.
PhaseRunsItsTime ==
    [][running /\ running' /\ remaining # 0
          => remaining' \in {remaining, remaining - 1} /\ isWork' = isWork]_vars

\* The language in use is always the one the configuration file names, even if
\* the program is killed in the next moment.
LanguageIsSaved == Saved.language = settings.language

\* A timer that is left running alternates between work and break for ever,
\* whatever the user sets, and also while the language dialog is open.
PhasesAlternate ==
    <>[](Alive /\ running) => []<>isWork /\ []<>~isWork

\* README.md:59: "settings are saved automatically on exit".
SavedOnExit == proc = "exited" => Saved = settings

=============================================================================
