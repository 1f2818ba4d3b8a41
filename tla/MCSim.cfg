SPECIFICATION SimSpec
CONSTANTS
    loop_count = 4
    K_SEM_MAX_LIMIT = 3
INVARIANTS
    ReplaysItsArm
    ReadOverhead
    UnmaskedAtTheEnd
\* main() returns when it has created I_Task.
CHECK_DEADLOCK FALSE
