CONSTANTS
  Attach = {snk_start, typec_attach}
  Ready = {ps_rdy, fast_charge}
  Other = {icl_settled, cable}
  Kind <- MCKind
  Lookback = 3
  KeepLines = 7
  RunUp = 1
  MaxLines = 10
  Meaning <- MCMeaning
  Unread = "unread"
  RowLookback = 1
  FirstRows = 1
  LastRows = 1

SPECIFICATION LogSpec
SYMMETRY Alike
CHECK_DEADLOCK FALSE

INVARIANTS
  WindowKeepsEnds
  CountsAddUp
