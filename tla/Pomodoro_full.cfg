SPECIFICATION FairSpec
CONSTANTS
    en = en
    ru = ru
    bell = bell
    WorkTimes = {1, 2}
    BreakTimes = {1, 2}
    Languages = {en, ru}
    Sounds = {bell}
    Minute = 2
    MaxStarts = 2
    NoFile = nofile
    Defaults <- MCDefaults

INVARIANTS OneTimeout LanguageIsSaved
PROPERTIES PhaseRunsItsTime PhasesAlternate
