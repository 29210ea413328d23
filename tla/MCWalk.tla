------------------------------- MODULE MCWalk -------------------------------
(***************************************************************************)
(* An instance of Walk with a key or two of every class the code makes, and *)
(* a type of block of every class.                                         *)
(***************************************************************************)
EXTENDS Walk

MCKeys == {"messages", "tools", "mcp_servers", "thinking", "content", "text",
           "citations", "input", "metadata", "type", "role", "data", "name",
           "tool_use_id", "cache_control", "ttl", "allowed_tools",
           "input_schema", "enum", "default", "properties",
           "patternProperties", "dependencies", "$ref", "required", "items"}

MCTypes == {"text", "tool_use", "tool_result", "mcp_tool_result", "thinking"}

=============================================================================
