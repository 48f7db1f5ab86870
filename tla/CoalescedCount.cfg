CONSTANT Files <- MCFiles
SPECIFICATION Spec
INVARIANT CoalescedNeedsDuplicates
