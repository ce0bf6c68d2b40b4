SPECIFICATION FairSpec
CONSTANTS
  NoRequest = NoRequest
  Requests = {q1}
  Windows = {w1, w2, w3}
  Kinds = {"permission", "elicitation", "hook_callback", "mcp_message", "open_diff"}
PROPERTIES
  KeepsContract
  McpSettles
CHECK_DEADLOCK FALSE
