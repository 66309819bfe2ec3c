SPECIFICATION Spec
CONSTANT Programs <- MCPrograms
INVARIANTS ReadsWritten CommentsHarmless 
CHECK_DEADLOCK FALSE
