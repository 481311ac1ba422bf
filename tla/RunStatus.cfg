CONSTANTS
    Target = {thm, txt}
    CommentOnly = {txt}
    MaxResults = 2
SPECIFICATION Spec
INVARIANTS StatusInv
PROPERTIES KeptOverReset RecoverySettles
