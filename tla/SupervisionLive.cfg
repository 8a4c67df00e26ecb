SPECIFICATION Spec
CONSTANTS
    Sup = sup
    Rival = rival
    Bind = bind
    Dog = dog
    NoProc = noProc
    Workers = {w1}
    Hosts = {"linux", "darwin"}
PROPERTIES DeadlineKills CliAnswered
CHECK_DEADLOCK FALSE
