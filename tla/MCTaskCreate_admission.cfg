SPECIFICATION Spec
\* A program that launches no task leaves only the idle task, which calls nothing.
CHECK_DEADLOCK FALSE
CONSTANTS
    OS_MAX_TASKS = 3
    Periods = {1, 2, 3}
    Costs = {1, 3}
INVARIANTS
    AdmittedIsSchedulable
